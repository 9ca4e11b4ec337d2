-------------------------- MODULE FluentBitOptions --------------------------
(***************************************************************************)
(* The tables of the Fluent Bit plugins of src/k8s-aws/lib/fluent-bit: the *)
(* options of a class, from its interface and its methods that add to it,  *)
(* and the lines that it binds to, with the options that they are made of: *)
(* a line with several has an entry of each, and none replaces another.    *)
(***************************************************************************)
EXTENDS OptionTables

(***************************************************************************)
(* Every filter and every output has a match, of one of two evaluators,    *)
(* which is rendered with the plugin's own lines; a parser has none.       *)
(***************************************************************************)
MatchTable ==
    OptionTable({"glob", "regex"}, {{"glob", "regex"}}, Single([Match |-> "glob", Match_Regex |-> "regex"]))

FilterTable(offers, requires, lines) ==
    OptionTable(offers \cup {"match"}, requires, Single([Match |-> "match"] ++ lines))

OutputTable(offers, requires, lines) ==
    OptionTable(offers \cup {"match"}, requires, Single([Match |-> "match"] ++ lines))

-----------------------------------------------------------------------------
(***************************************************************************)
(* Outputs.                                                                *)
(***************************************************************************)

ElasticsearchAccess ==
    {"awsAuth", "awsExternalId", "awsRegion", "awsRole", "awsStsEndpoint", "bufferSize",
     "cloudAuth", "cloudId", "compress", "currentTimeIndex", "generateId", "host", "httpPasswd",
     "httpUser", "idKey", "includeTagKey"}

ElasticsearchIndexing ==
    {"index", "logstashDateFormat", "logstashFormat", "logstashPrefix", "logstashPrefixKey", "path",
     "pipeline", "port", "replaceDots", "suppressTypeName", "tagKey", "timeKey", "timeKeyFormat",
     "timeKeyNanos", "traceError", "traceOutput", "type", "workers", "writeOperation"}

\* Trace_Error is rendered from the option for Trace_Output.
ElasticsearchLines ==
    [AWS_Auth |-> "awsAuth", AWS_External_ID |-> "awsExternalId", AWS_Region |-> "awsRegion",
     AWS_Role_ARN |-> "awsRole", AWS_STS_Endpoint |-> "awsStsEndpoint", Buffer_Size |-> "bufferSize",
     compress |-> "compress", Cloud_Auth |-> "cloudAuth", Cloud_ID |-> "cloudId",
     Current_Time_Index |-> "currentTimeIndex", Generate_ID |-> "generateId", Host |-> "host",
     HTTP_Passwd |-> "httpPasswd", HTTP_User |-> "httpUser", Id_Key |-> "idKey",
     Include_Tag_Key |-> "includeTagKey", Index |-> "index",
     Logstash_DateFormat |-> "logstashDateFormat", Logstash_Format |-> "logstashFormat",
     Logstash_Prefix |-> "logstashPrefix", Logstash_Prefix_Key |-> "logstashPrefixKey",
     Path |-> "path", Pipeline |-> "pipeline", Port |-> "port", Replace_Dots |-> "replaceDots",
     Suppress_Type_Name |-> "suppressTypeName", Tag_Key |-> "tagKey", Time_Key |-> "timeKey",
     Time_Key_Format |-> "timeKeyFormat", Time_Key_Nanos |-> "timeKeyNanos",
     Trace_Error |-> "traceOutput", Trace_Output |-> "traceOutput", Type |-> "type",
     Workers |-> "workers", Write_Operation |-> "writeOperation"]

OpenSearchAccess ==
    {"awsAuth", "awsExternalId", "awsRegion", "awsRole", "awsStsEndpoint", "bufferSize",
     "currentTimeIndex", "domain", "generateId", "host", "httpPasswd", "httpUser", "idKey",
     "includeTagKey", "index"}

OpenSearchIndexing ==
    {"logstashDateFormat", "logstashFormat", "logstashPrefix", "logstashPrefixKey", "path",
     "pipeline", "port", "replaceDots", "suppressTypeName", "tagKey", "timeKey", "timeKeyFormat",
     "timeKeyNanos", "traceError", "traceOutput", "type", "workers", "writeOperation"}

\* Host is the endpoint of the domain; the option of that name is kept by nobody.
OpenSearchLines ==
    [AWS_Auth |-> "awsAuth", AWS_External_ID |-> "awsExternalId", AWS_Region |-> "awsRegion",
     AWS_Role_ARN |-> "awsRole", AWS_STS_Endpoint |-> "awsStsEndpoint", Buffer_Size |-> "bufferSize",
     Current_Time_Index |-> "currentTimeIndex", Generate_ID |-> "generateId", Host |-> "domain",
     HTTP_Passwd |-> "httpPasswd", HTTP_User |-> "httpUser", Id_Key |-> "idKey",
     Include_Tag_Key |-> "includeTagKey", Index |-> "index",
     Logstash_DateFormat |-> "logstashDateFormat", Logstash_Format |-> "logstashFormat",
     Logstash_Prefix |-> "logstashPrefix", Logstash_Prefix_Key |-> "logstashPrefixKey",
     Path |-> "path", Pipeline |-> "pipeline", Port |-> "port", Replace_Dots |-> "replaceDots",
     Suppress_Type_Name |-> "suppressTypeName", Tag_Key |-> "tagKey", Time_Key |-> "timeKey",
     Time_Key_Format |-> "timeKeyFormat", Time_Key_Nanos |-> "timeKeyNanos",
     Trace_Error |-> "traceError", Trace_Output |-> "traceOutput", Type |-> "type",
     Workers |-> "workers", Write_Operation |-> "writeOperation"]

CloudWatchLogsOptions ==
    {"autoCreateGroup", "autoRetryRequests", "endpoint", "logKey", "logFormat", "logGroup",
     "logGroupTemplate", "logRetention", "logStream", "logStreamTemplate", "metricDimensions",
     "metricNamespace", "region", "role", "stsEndpoint"}

\* A stream has a name or a prefix.
CloudWatchLogsLines ==
    [auto_create_group |-> "autoCreateGroup", auto_retry_requests |-> "autoRetryRequests",
     endpoint |-> "endpoint", log_format |-> "logFormat", log_group_name |-> "logGroup",
     log_group_template |-> "logGroupTemplate", log_key |-> "logKey",
     log_retention_days |-> "logRetention", log_stream_name |-> "logStream",
     log_stream_prefix |-> "logStream", log_stream_template |-> "logStreamTemplate",
     metric_dimensions |-> "metricDimensions", metric_namespace |-> "metricNamespace",
     region |-> "region", role_arn |-> "role", sts_endpoint |-> "stsEndpoint"]

KinesisOptions ==
    {"autoRetryRequests", "endpoint", "logKey", "region", "role", "stream", "stsEndpoint",
     "timeKey", "timeKeyFormat"}

KinesisLines ==
    [auto_retry_requests |-> "autoRetryRequests", endpoint |-> "endpoint", log_key |-> "logKey",
     region |-> "region", role_arn |-> "role", stream |-> "stream", sts_endpoint |-> "stsEndpoint",
     time_key |-> "timeKey", time_key_format |-> "timeKeyFormat"]

KinesisFirehoseOptions ==
    {"autoRetryRequests", "compression", "deliveryStream", "endpoint", "logKey", "region", "role",
     "stsEndpoint", "timeKey", "timeKeyFormat"}

KinesisFirehoseLines ==
    [auto_retry_requests |-> "autoRetryRequests", compression |-> "compression",
     delivery_stream |-> "deliveryStream", endpoint |-> "endpoint", log_key |-> "logKey",
     region |-> "region", role_arn |-> "role", sts_endpoint |-> "stsEndpoint",
     time_key |-> "timeKey", time_key_format |-> "timeKeyFormat"]

\* Custom plugins keep only their name of what they are constructed with: they
\* have the fields that are added to them, the first time that each is added.
CustomOutputTable ==
    OptionTable({"name", "match", "fields", "addField", "addFieldAgain"}, {{"name"}},
          Single([Name |-> "name", Field |-> "addField"]))

CustomFilterTable ==
    OptionTable({"name", "match", "fields", "addField", "addFieldAgain"}, {{"name"}},
          Single([Name |-> "name", Field |-> "addField"]))

-----------------------------------------------------------------------------
(***************************************************************************)
(* Filters.                                                                *)
(***************************************************************************)

KubernetesMetadata ==
    {"annotations", "bufferSize", "cacheUseDockerId", "dnsRetries", "dnsWaitTime", "dummyMeta",
     "k8sLoggingExclude", "k8sLoggingParser", "keepLog", "kubeCaFile", "kubeCaPath", "kubeletHost",
     "kubeletPort", "kubeMetaCacheTtl", "kubeMetaPreloadCacheDir", "kubeTagPrefix"}

KubernetesLogs ==
    {"kubeTokenCommand", "kubeTokenFile", "kubeTokenTtl", "kubeUrl", "labels", "mergeLog",
     "mergeLogKey", "mergeLogTrim", "mergeParser", "regexParser", "tlsDebug", "tlsVerify",
     "useKubelet", "useJournal"}

KubernetesLines ==
    [Annotations |-> "annotations", Buffer_Size |-> "bufferSize",
     Cache_Use_Docker_Id |-> "cacheUseDockerId", DNS_Retries |-> "dnsRetries",
     DNS_Wait_Time |-> "dnsWaitTime", Dummy_Meta |-> "dummyMeta",
     K8S_Logging_Exclude |-> "k8sLoggingExclude", K8S_Logging_Parser |-> "k8sLoggingParser",
     Keep_Log |-> "keepLog", Kube_CA_File |-> "kubeCaFile", Kube_CA_Path |-> "kubeCaPath",
     Kube_Meta_Cache_TTL |-> "kubeMetaCacheTtl",
     Kube_meta_preload_cache_dir |-> "kubeMetaPreloadCacheDir", Kube_Tag_Prefix |-> "kubeTagPrefix",
     Kube_Token_Command |-> "kubeTokenCommand", Kube_Token_File |-> "kubeTokenFile",
     Kube_Token_TTL |-> "kubeTokenTtl", Kube_URL |-> "kubeUrl", Kubelet_Host |-> "kubeletHost",
     Kubelet_Port |-> "kubeletPort", Labels |-> "labels", Merge_Log |-> "mergeLog",
     Merge_Log_Key |-> "mergeLogKey", Merge_Log_Trim |-> "mergeLogTrim",
     Merge_Parser |-> "mergeParser", Regex_Parser |-> "regexParser", tls_debug |-> "tlsDebug",
     tls_verify |-> "tlsVerify", Use_Journal |-> "useJournal", Use_Kubelet |-> "useKubelet"]

\* A filter that modifies records: its conditions and operations, each made by a
\* function of its own, give lines of as many keys.
ModifyConditions ==
    [aKeyMatches |-> "A_key_matches", keyDoesNotExists |-> "Key_does_not_exist",
     keyExists |-> "Key_exists", keyValueDoesNotEqual |-> "Key_value_does_not_equal",
     keyValueDoesNotMatch |-> "Key_value_does_not_match", keyValueMatches |-> "Key_value_matches",
     keyValueEquals |-> "Key_value_equals",
     matchingKeysDoNotHaveMatchingValues |-> "Matching_keys_do_not_have_matching_values",
     matchingKeysHaveMatchingValues |-> "Matching_keys_have_matching_values",
     noKeyMatches |-> "No_key_matches"]

ModifyOperations ==
    [add |-> "Add", copy |-> "Copy", hardCopy |-> "Hard_copy", hardRename |-> "Hard_rename",
     moveToEnd |-> "Move_to_end", moveToStart |-> "Move_to_start", remove |-> "Remove",
     removeRegex |-> "Remove_regex", removeWildcard |-> "Remove_wildcard", rename |-> "Rename",
     set |-> "Set"]

\* Lines of one key are gathered, conditions first.
ModifyTable ==
    LET factories == ModifyConditions ++ ModifyOperations
        keys == {factories[f] : f \in DOMAIN factories}
    IN  OptionTable(DOMAIN factories \cup {"match"}, {DOMAIN ModifyOperations},
                    Single([Match |-> "match"])
                    ++ [key \in keys |-> {f \in DOMAIN factories : factories[f] = key}])

\* An operation that lifts has one field, one that nests has two.
NestTable ==
    FilterTable({"addPrefix", "operation", "nestedUnder", "nestUnder", "wildcards", "removePrefix"},
                All({"operation"}) \cup {{"nestedUnder", "nestUnder"}},
                [Add_prefix |-> "addPrefix", Operation |-> "operation", Nested_under |-> "nestedUnder",
                 Nest_under |-> "nestUnder", Wildcard |-> "wildcards", Remove_prefix |-> "removePrefix"])

ThrottleTable ==
    FilterTable({"interval", "printStatus", "rate", "window"}, {},
                [Interval |-> "interval", Print_Status |-> "printStatus", Rate |-> "rate",
                 Window |-> "window"])

\* The one line of a pattern: its key is Exclude or Regex.
GrepTable ==
    LET pattern == {"exclude", "key", "regex"}
    IN  OptionTable(pattern \cup {"match"}, All({"key", "regex"}),
                    [Match |-> {"match"}, Pattern |-> pattern])

\* The type of storage is an object that is written as any object: without its name.
RewriteTagTable ==
    LET rule == {"keep", "key", "newTag", "regex"}
    IN  OptionTable(rule \cup {"emitterName", "emitterStorageType", "emitterMemBufLimit", "match"},
                    All(rule),
                    [Match |-> {"match"}, Emitter_Mem_Buf_Limit |-> {"emitterMemBufLimit"},
                     Emitter_Name |-> {"emitterName"}, Rule |-> rule])

RecordModifierTable ==
    FilterTable({"allow", "records", "remove"}, {{"allow", "records", "remove"}},
                [Allowlist_key |-> "allow", Record |-> "records", Remove_key |-> "remove"])

ParserFilterTable ==
    FilterTable({"keyName", "parsers", "preserveKey", "reserveData"}, All({"keyName", "parsers"}),
                [Key_Name |-> "keyName", Parser |-> "parsers", Preserve_Key |-> "preserveKey",
                 Reserve_Data |-> "reserveData"])

-----------------------------------------------------------------------------
(***************************************************************************)
(* Parsers: their name and format, and the types of the fields they find.  *)
(***************************************************************************)

ParserTable(offers, requires, lines) ==
    OptionTable(offers \cup {"name"}, requires \cup {{"name"}}, Single([Name |-> "name"] ++ lines))

JsonParserTable ==
    ParserTable({"timeFormat", "timeKey"}, {}, [Time_Format |-> "timeFormat", Time_Key |-> "timeKey"])

LogfmtParserTable ==
    ParserTable({"timeFormat", "timeKey", "types"}, {},
                [Time_Format |-> "timeFormat", Time_Key |-> "timeKey", Types |-> "types"])

LtsvParserTable ==
    ParserTable({"timeFormat", "timeKey", "types"}, {},
                [Time_Format |-> "timeFormat", Time_Key |-> "timeKey", Types |-> "types"])

RegexParserTable ==
    ParserTable({"regex", "skipEmptyValues", "timeFormat", "timeKey", "types"}, All({"regex"}),
                [Regex |-> "regex", Skip_Empty_Values |-> "skipEmptyValues",
                 Time_Format |-> "timeFormat", Time_Key |-> "timeKey", Types |-> "types"])

-----------------------------------------------------------------------------
(***************************************************************************)
(* Functions that make plugins from parameters, which they hand on as the  *)
(* options of a class.                                                     *)
(***************************************************************************)

\* The table of a function that hands on each parameter as one option.
Handed(table, as) ==
    OptionTable(DOMAIN as, All(DOMAIN as),
                [key \in DOMAIN table.lines |-> {p \in DOMAIN as : as[p] \in table.lines[key]}])

ElasticsearchTable ==
    OutputTable(ElasticsearchAccess \cup ElasticsearchIndexing, All({"host"}), ElasticsearchLines)
OpenSearchTable ==
    OutputTable(OpenSearchAccess \cup OpenSearchIndexing, All({"domain"}), OpenSearchLines)
CloudWatchLogsTable == OutputTable(CloudWatchLogsOptions, {}, CloudWatchLogsLines)
KinesisTable == OutputTable(KinesisOptions, {}, KinesisLines)
KinesisFirehoseTable == OutputTable(KinesisFirehoseOptions, {}, KinesisFirehoseLines)
KubernetesTable == FilterTable(KubernetesMetadata \cup KubernetesLogs, {}, KubernetesLines)

OutputFunctions ==
    [cloudwatchLogs |-> Handed(CloudWatchLogsTable, [match |-> "match", logGroup |-> "logGroup"]),
     kinesis |-> Handed(KinesisTable, [match |-> "match", stream |-> "stream"]),
     kinesisFirehose |->
        Handed(KinesisFirehoseTable, [match |-> "match", deliveryStream |-> "deliveryStream"]),
     opensearch |-> Handed(OpenSearchTable, [match |-> "match", domain |-> "domain"])]

FilterFunctions ==
    [appendFields |-> Handed(RecordModifierTable, [match |-> "match", records |-> "records"]),
     blacklistFields |-> Handed(RecordModifierTable, [match |-> "match", fields |-> "remove"]),
     grep |-> Handed(GrepTable, [match |-> "match", pattern |-> "key"]),
     kubernetes |-> Handed(KubernetesTable, [match |-> "match"]),
     modify |-> Handed(ModifyTable, [match |-> "match", operations |-> "set"]),
     lift |-> Handed(NestTable, [match |-> "match", nestedUnder |-> "nestedUnder"]),
     nest |-> Handed(NestTable, [match |-> "match", nestUnder |-> "nestUnder", fields |-> "wildcards"]),
     parser |-> Handed(ParserFilterTable, [match |-> "match", key |-> "keyName", parsers |-> "parsers"]),
     rewriteTag |-> Handed(RewriteTagTable, [match |-> "match", rules |-> "key"]),
     throttle |-> Handed(ThrottleTable, [match |-> "match", interval |-> "interval",
                                         rate |-> "rate", window |-> "window"]),
     whitelistFields |-> Handed(RecordModifierTable, [match |-> "match", fields |-> "allow"])]

ParserFunctions ==
    [json |-> Handed(JsonParserTable, [name |-> "name"]),
     logfmt |-> Handed(LogfmtParserTable, [name |-> "name"]),
     ltsv |-> Handed(LtsvParserTable, [name |-> "name"]),
     regexParser |-> Handed(RegexParserTable, [name |-> "name", regex |-> "regex"])]

-----------------------------------------------------------------------------
\* The classes whose tables lose nothing, and those that lose an option.
FluentBitTables ==
    [match |-> MatchTable, cloudwatch_logs |-> CloudWatchLogsTable, kinesis |-> KinesisTable,
     kinesis_firehose |-> KinesisFirehoseTable, kubernetesFilter |-> KubernetesTable,
     modifyFilter |-> ModifyTable, nestFilter |-> NestTable, throttleFilter |-> ThrottleTable,
     grepFilter |-> GrepTable, record_modifier |-> RecordModifierTable,
     parserFilter |-> ParserFilterTable, jsonParser |-> JsonParserTable,
     logfmtParser |-> LogfmtParserTable, ltsvParser |-> LtsvParserTable, regexFormat |-> RegexParserTable]
    ++ OutputFunctions ++ FilterFunctions ++ ParserFunctions

LosingFluentBitTables ==
    [es |-> ElasticsearchTable, opensearchOutput |-> OpenSearchTable, rewrite_tag |-> RewriteTagTable,
     customOutput |-> CustomOutputTable, customFilter |-> CustomFilterTable]
=============================================================================
