------------------------------ MODULE LogTables ------------------------------
(***************************************************************************)
(* The tables of src/glue-tables, one of each kind of logs: the columns,   *)
(* the keys of its partitions, where it looks for a partition's objects,   *)
(* and the columns that its saved queries name.                            *)
(*                                                                         *)
(* A column is the sequence of names that leads to it: a column that is a  *)
(* structure has one for each of its fields, and an array is as one of its *)
(* elements, which is how the queries use it.  Names are in lower case:    *)
(* queries and tables are not case sensitive.  The order of the columns is *)
(* left out, except of flow logs, whose columns AwsLogs has.               *)
(***************************************************************************)
EXTENDS Sequences

Basic(names) == {<<n>> : n \in names}
Struct(name, fields) == {<<name>> \o f : f \in fields}

-----------------------------------------------------------------------------
AlbColumns ==
    Basic({"type", "time", "elb", "client_ip", "client_port", "target_ip", "target_port",
           "request_processing_time", "target_processing_time", "response_processing_time",
           "elb_status_code", "target_status_code", "received_bytes", "sent_bytes", "request_verb",
           "request_url", "request_proto", "user_agent", "ssl_cipher", "ssl_protocol",
           "target_group_arn", "trace_id", "domain_name", "chosen_cert_arn", "matched_rule_priority",
           "request_creation_time", "actions_executed", "redirect_url", "lambda_error_reason",
           "target_port_list", "target_status_code_list", "classification", "classification_reason"})

AlbQueries ==
    [topIps |-> Basic({"client_ip", "elb_status_code", "sent_bytes", "received_bytes", "user_agent",
                       "day", "time"}),
     status5xx |-> Basic({"time", "client_ip", "client_port", "target_ip", "target_port",
                          "elb_status_code", "target_status_code", "request_verb", "request_url",
                          "source", "elb", "day"})]

CloudfrontColumns ==
    Basic({"date", "time", "location", "response_bytes", "request_ip", "method", "distribution", "uri",
           "status_code", "referrer", "user_agent", "query_string", "cookie", "final_result_type",
           "request_id", "host_header", "request_protocol", "request_bytes", "time_taken",
           "x_forwarded_for", "ssl_protocol", "ssl_cipher", "initial_result_type", "http_version",
           "fle_status", "fle_encrypted_fields", "client_port", "time_to_first_byte",
           "detailed_result_type", "content_type", "content_length", "content_range_start",
           "content_range_end"})

CloudfrontQueries ==
    LET rates == {"initial_result_type", "final_result_type", "date", "time"}
    IN  [distributionStatistics |->
             Basic(rates \cup {"distribution", "request_bytes", "response_bytes", "uri"}),
         requestErrors |->
             Basic(rates \cup {"request_ip", "status_code", "detailed_result_type", "method",
                               "request_protocol", "host_header", "uri"}),
         topIps |-> Basic(rates \cup {"request_ip", "request_bytes", "response_bytes", "user_agent"}),
         topObjects |->
             Basic(rates \cup {"request_protocol", "distribution", "uri", "request_bytes",
                               "response_bytes", "request_ip"})]

UserIdentity ==
    Struct("useridentity",
        Basic({"type", "principalid", "arn", "accountid", "invokedby", "accesskeyid", "username"})
        \cup Struct("sessioncontext",
                Struct("attributes", Basic({"mfaauthenticated", "creationdate"}))
                \cup Struct("sessionissuer", Basic({"type", "principalid", "arn", "accountid", "username"}))))

CloudtrailColumns ==
    Basic({"eventversion", "eventtime", "eventsource", "eventname", "awsregion", "sourceipaddress",
           "useragent", "errorcode", "errormessage", "requestparameters", "responseelements",
           "additionaleventdata", "requestid", "eventid", "readonly", "eventtype", "apiversion",
           "recipientaccountid", "serviceeventdetails", "sharedeventid", "vpcendpointid"})
    \cup UserIdentity
    \cup Struct("resources", Basic({"arn", "accountid", "type"}))

CloudtrailQueries ==
    LET events == Basic({"eventtime", "eventsource", "eventname", "awsregion", "day"})
                  \cup Struct("useridentity", Basic({"accountid"}))
    IN  [unauthorized |->
             events \cup Basic({"recipientaccountid", "errormessage", "errorcode", "requestparameters"})
             \cup Struct("useridentity", Basic({"arn"})),
         userLogins |-> events \cup Struct("useridentity", Basic({"username"}))]

S3AccessColumns ==
    Basic({"bucket_owner", "bucket_name", "request_datetime", "remote_ip", "requester", "request_id",
           "operation", "key", "request_uri", "http_status", "error_code", "bytes_sent", "object_size",
           "total_time", "turnaround_time", "referrer", "user_agent", "version_id", "host_id", "sigv",
           "cipher_suite", "auth_type", "endpoint", "tls_version"})

S3AccessQueries ==
    [requestErrors |-> Basic({"request_datetime", "remote_ip", "http_status", "error_code", "operation",
                              "request_id", "key", "bucket_name"})]

SesComplaint ==
    Struct("complaint",
        Basic({"arrivaldate", "complaintfeedbacktype", "feedbackid", "timestamp", "useragent"})
        \cup Struct("complainedrecipients", Basic({"emailaddress"})))

SesBounce ==
    Struct("bounce",
        Basic({"bouncesubtype", "bouncetype", "feedbackid", "reportingmta", "timestamp"})
        \cup Struct("bouncedrecipients", Basic({"action", "diagnosticcode", "emailaddress", "status"})))

SesMail ==
    Struct("mail",
        Basic({"timestamp", "source", "sourcearn", "sendingaccountid", "messageid", "destination",
               "headerstruncated"})
        \cup Struct("headers", Basic({"name", "value"}))
        \cup Struct("commonheaders", Basic({"from", "to", "messageid", "subject"}))
        \cup Struct("tags", Basic({"ses_configurationset", "ses_source_ip", "ses_outgoing_ip",
                                   "ses_from_domain", "ses_caller_identity"})))

SesColumns ==
    Basic({"eventtype", "send"}) \cup SesComplaint \cup SesBounce \cup SesMail
    \cup Struct("delivery", Basic({"processingtimemillis", "recipients", "reportingmta", "smtpresponse",
                                   "timestamp"}))
    \cup Struct("open", Basic({"ipaddress", "timestamp", "useragent"}))
    \cup Struct("reject", Basic({"reason"}))
    \cup Struct("click", Basic({"ipaddress", "timestamp", "useragent", "link"}))

SesQueries ==
    LET mails == Basic({"eventtype", "day"})
                 \cup Struct("mail", Struct("commonheaders", Basic({"subject", "from", "to"})))
    IN  [bounces |->
             mails \cup Struct("bounce",
                          Basic({"timestamp", "bouncetype", "bouncesubtype", "feedbackid"})
                          \cup Struct("bouncedrecipients", Basic({"emailaddress", "diagnosticcode"}))),
         complaints |->
             mails \cup Struct("complaint",
                          Basic({"arrivaldate", "complaintfeedbacktype", "useragent", "feedbackid"})
                          \cup Struct("complainedrecipients", Basic({"emailaddress"})))]

WafRules ==
    Struct("terminatingrulematchdetails", Basic({"conditiontype", "location", "matcheddata"}))
    \cup Struct("rulegrouplist",
            Basic({"rulegroupid", "nonterminatingmatchingrules", "excludedrules"})
            \cup Struct("terminatingrule", Basic({"ruleid", "action", "rulematchdetails"})))
    \cup Struct("ratebasedrulelist", Basic({"ratebasedruleid", "limitkey", "maxrateallowed"}))
    \cup Struct("nonterminatingmatchingrules", Basic({"ruleid", "action"}))

WafColumns ==
    Basic({"timestamp", "formatversion", "webaclid", "terminatingruleid", "terminatingruletype",
           "action", "httpsourcename", "httpsourceid", "requestheadersinserted", "responsecodesent"})
    \cup WafRules
    \cup Struct("httprequest",
            Basic({"clientip", "country", "uri", "args", "httpversion", "httpmethod", "requestid"})
            \cup Struct("headers", Basic({"name", "value"})))
    \cup Struct("labels", Basic({"name"}))
    \cup Struct("captcharesponse", Basic({"responsecode", "solvetimestamp", "failurereason"}))

-----------------------------------------------------------------------------
(***************************************************************************)
(* Where a table looks: a template of what is literal and of the keys of   *)
(* its partitions, each of which takes the values of its projection, or    *)
(* any for a date.  A table without keys looks at everything.              *)
(***************************************************************************)
Literal(s) == [key |-> FALSE, is |-> s]
Key(k) == [key |-> TRUE, is |-> k]

\* ALB, CloudTrail and flow logs differ in the value of the key logname.
ServiceTemplate ==
    <<Literal("AWSLogs"), Key("source"), Key("logname"), Key("regionname"), Key("day")>>

WafTemplate == <<Literal("AWSLogs"), Key("account"), Literal("WAFLogs"), Key("region")>>

LogTable(columns, queries, keys, template, logname) ==
    [columns |-> columns, queries |-> queries, keys |-> keys, template |-> template, logname |-> logname]

ServiceKeys == {"source", "logname", "regionname", "day"}

AlbTable == LogTable(AlbColumns, AlbQueries, ServiceKeys, ServiceTemplate, "elasticloadbalancing")
CloudfrontTable == LogTable(CloudfrontColumns, CloudfrontQueries, {}, <<>>, "none")
CloudtrailTable == LogTable(CloudtrailColumns, CloudtrailQueries, ServiceKeys, ServiceTemplate, "CloudTrail")
S3AccessTable == LogTable(S3AccessColumns, S3AccessQueries, {}, <<>>, "none")
SesTable == LogTable(SesColumns, SesQueries, {"day"}, <<Key("day")>>, "none")
WafTable == LogTable(WafColumns, <<>>, {"account", "region"}, WafTemplate, "none")

\* The query of flow logs, which takes a format that has its columns.
FlowColumns == {"action", "dstaddr", "dstport", "protocol", "srcaddr", "srcport", "start"}
FlowQueries == [internalRejected |-> Basic(FlowColumns \cup {"day"})]
FlowTable == LogTable({}, FlowQueries, ServiceKeys, ServiceTemplate, "vpcflowlogs")

TableOfKind ==
    [alb |-> AlbTable, cloudfront |-> CloudfrontTable, cloudtrail |-> CloudtrailTable, flow |-> FlowTable,
     s3access |-> S3AccessTable, ses |-> SesTable, waf |-> WafTable]
=============================================================================
