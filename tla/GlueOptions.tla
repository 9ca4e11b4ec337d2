---------------------------- MODULE GlueOptions ----------------------------
(***************************************************************************)
(* The tables of the constructs of src/glue: what the properties of each   *)
(* offer, with the methods that add to an object, and the properties of    *)
(* its resource, with the options that they are made of.  Arguments,       *)
(* properties and parameters are maps, in which one entry may replace      *)
(* another; all else that is gathered is a list, or written side by side.  *)
(* Not among them: continuous logging of a job, which no job that has it   *)
(* survives (its log group is granted to a role that has not been set      *)
(* yet), and options that have only one value.                             *)
(***************************************************************************)
EXTENDS OptionTables

\* Properties of the configuration are one string in the template.
CrawlerConfigurationOptions ==
    {"partitionUpdateBehavior", "tableGroupingPolicy", "tableLevel", "tableUpdateBehavior"}

CrawlerOptions ==
    CrawlerConfigurationOptions
    \cup {"classifiers", "database", "deleteBehavior", "description", "name", "recrawlBehavior",
          "securityConfiguration", "scheduleExpression", "tablePrefix", "targets", "updateBehavior"}

\* Classifiers that a crawler is constructed with are kept by nobody.
CrawlerLines ==
    Single([classifiers |-> "addClassifier",
            crawlerSecurityConfiguration |-> "securityConfiguration", databaseName |-> "database",
            description |-> "description", name |-> "name", recrawlPolicy |-> "recrawlBehavior",
            schedule |-> "scheduleExpression", tablePrefix |-> "tablePrefix"])
    ++ [configuration |-> CrawlerConfigurationOptions,
        schemaChangePolicy |-> {"deleteBehavior", "updateBehavior"},
        targets |-> {"targets", "addTarget"}]

CrawlerTable ==
    OptionTable(CrawlerOptions \cup {"addClassifier", "addTarget"}, {{"targets", "addTarget"}}, CrawlerLines)

\* The size of samples is kept by a target, and rendered by nobody.
S3TargetTable ==
    OptionTable({"bucket", "connection", "exclusions", "addExclusion", "keyPrefix", "sampleSize"},
                All({"bucket"}),
                Single([connectionName |-> "connection"])
                ++ [exclusions |-> {"exclusions", "addExclusion"}, path |-> {"bucket", "keyPrefix"},
                    policy |-> {"bucket", "keyPrefix"}])

JdbcTargetTable ==
    OptionTable({"connection", "exclusions", "addExclusion", "paths", "addPath"}, All({"connection"}),
                Single([connectionName |-> "connection"])
                ++ [exclusions |-> {"exclusions", "addExclusion"}, path |-> {"paths", "addPath"}])

-----------------------------------------------------------------------------
\* What an executable is made of.  A job renders four of its options.
JobExecutableOptions ==
    {"type", "language", "glueVersion", "pythonVersion", "script", "className", "extraJars",
     "extraPythonFiles", "extraFiles", "extraJarsFirst"}

JobOptions ==
    {"allocatedCapacity", "connections", "defaultArguments", "description", "enableProfilingMetrics",
     "maxCapacity", "maxConcurrentRuns", "maxRetries", "name", "notifyDelayAfter", "role",
     "securityConfiguration", "timeout", "workerCount", "workerType"}

JobLines ==
    Single([allocatedCapacity |-> "allocatedCapacity", commandName |-> "type",
            pythonVersion |-> "pythonVersion", scriptLocation |-> "script", description |-> "description",
            maxConcurrentRuns |-> "maxConcurrentRuns", glueVersion |-> "glueVersion",
            maxCapacity |-> "maxCapacity", maxRetries |-> "maxRetries", name |-> "name",
            notifyDelayAfter |-> "notifyDelayAfter", numberOfWorkers |-> "workerCount", role |-> "role",
            securityConfiguration |-> "securityConfiguration", timeout |-> "timeout",
            workerType |-> "workerType"])
    ++ [connections |-> {"connections", "addConnection"},
        defaultArguments |-> {"enableProfilingMetrics", "defaultArguments", "addArgument"}]

\* Metrics are an argument that the default arguments replace, and those that are
\* added replace both.
JobTable ==
    Merging(OptionTable(JobOptions \cup {"type", "glueVersion", "pythonVersion", "script", "addConnection",
                                         "addArgument"},
                        All({"type", "glueVersion", "script"}), JobLines),
            {"defaultArguments"}, {"addArgument"},
            [enableProfilingMetrics |-> 1, defaultArguments |-> 2, addArgument |-> 3])

\* A job with an executable that has more than a script.
JobOfExecutableTable ==
    OptionTable(JobExecutableOptions, All({"type", "language", "glueVersion", "script"}),
                [key \in DOMAIN JobLines |-> JobLines[key] \cap JobExecutableOptions])

-----------------------------------------------------------------------------
\* Without a VPC a connection has no place for subnets and security groups.
ConnectionOptions == {"connectionType", "description", "name", "properties", "securityGroups", "subnets", "vpc"}

ConnectionLines ==
    Single([connectionType |-> "connectionType", description |-> "description",
            matchCriteria |-> "addMatchCriteria", name |-> "name"])
    ++ [connectionProperties |-> {"properties", "addProperty"},
        physicalConnectionRequirements |-> {"securityGroups", "subnets", "vpc"}]

ConnectionTable ==
    Merging(OptionTable(ConnectionOptions \cup {"addMatchCriteria", "addProperty"},
                        All({"connectionType", "vpc"}), ConnectionLines),
            {"properties"}, {"addProperty"}, [properties |-> 1, addProperty |-> 2])

\* Its four properties may be replaced by what is added later.
JdbcConnectionTable ==
    LET properties == {"enforceSsl", "password", "url", "username"}
        shared == {"description", "name", "securityGroups", "subnets", "vpc", "addMatchCriteria",
                   "addProperty"}
    IN  Merging(OptionTable(shared \cup properties, All({"password", "url", "username", "vpc"}),
                            [key \in DOMAIN ConnectionLines |->
                                (ConnectionLines[key] \cap shared)
                                \cup IF key = "connectionProperties" THEN properties ELSE {}]),
                {}, {"addProperty"}, [p \in properties |-> 1] ++ [addProperty |-> 2])

DatabaseTable ==
    OptionTable({"description", "locationUri", "name"}, {},
                Single([description |-> "description", locationUri |-> "locationUri", name |-> "name"]))

WorkflowTable ==
    OptionTable({"description", "name"}, {}, Single([description |-> "description", name |-> "name"]))

TriggerTable ==
    OptionTable({"actions", "addAction", "description", "name", "predicateConditions", "addPredicate",
                 "schedule", "startOnCreation", "type", "workflow"}, All({"type"}),
                Single([description |-> "description", name |-> "name", schedule |-> "schedule",
                        startOnCreation |-> "startOnCreation", type |-> "type", workflowName |-> "workflow"])
                ++ [actions |-> {"actions", "addAction"},
                    predicate |-> {"predicateConditions", "addPredicate"}])

ActionOptions == {"arguments", "addArgument", "notifyDelayAfter", "securityConfiguration", "timeout"}

ActionLines ==
    Single([notificationProperty |-> "notifyDelayAfter",
            securityConfiguration |-> "securityConfiguration", timeout |-> "timeout"])
    ++ [arguments |-> {"arguments", "addArgument"}]

CrawlerActionTable ==
    Merging(OptionTable(ActionOptions \cup {"crawler"}, All({"crawler"}),
                        [crawlerName |-> {"crawler"}] ++ ActionLines),
            {"arguments"}, {"addArgument"}, [arguments |-> 1, addArgument |-> 2])

\* Faulty: bookmarks put in when the action is rendered.
JobActionTableWhenBound ==
    Merging(OptionTable(ActionOptions \cup {"job", "bookmarkConfiguration"}, All({"job"}),
                        [jobName |-> {"job"},
                         arguments |-> ActionLines.arguments \cup {"bookmarkConfiguration"}] ++ ActionLines),
            {"arguments"}, {"addArgument"},
            [arguments |-> 1, addArgument |-> 2, bookmarkConfiguration |-> 3])

\* Bookmarks are arguments: they replace the arguments given as such.
JobActionTable ==
    Merging(OptionTable(ActionOptions \cup {"job", "bookmarkConfiguration"}, All({"job"}),
                        [jobName |-> {"job"},
                         arguments |-> ActionLines.arguments \cup {"bookmarkConfiguration"}] ++ ActionLines),
            {"arguments"}, {"addArgument"},
            [arguments |-> 1, bookmarkConfiguration |-> 2, addArgument |-> 3])

CrawlerPredicateTable ==
    OptionTable({"crawler", "state"}, All({"crawler"}), Single([crawlerName |-> "crawler", crawlState |-> "state"]))

JobPredicateTable ==
    OptionTable({"job", "state"}, All({"job"}), Single([jobName |-> "job", state |-> "state"]))

-----------------------------------------------------------------------------
\* Nothing of what is to be encrypted is kept.
SecurityConfigurationTable ==
    OptionTable({"cloudWatchEncryption", "jobBookmarksEncryption", "name", "s3Encryption"}, {},
                Single([name |-> "name"]))

TableOptions ==
    {"columns", "compressed", "dataFormat", "database", "description", "location", "name", "owner",
     "parameters", "partitionKeys", "retention", "serdeName", "serdeParameters", "storageParameters",
     "storedAsSubDirectories", "tableType", "targetTable", "viewExpandedText", "viewOriginalText"}

TableAdded == {"addColumn", "addParameter", "addPartitionKey", "addSerdeParameter", "addStorageParameter"}

StorageLines ==
    [columns |-> {"columns", "addColumn"}, compressed |-> {"compressed"}, inputFormat |-> {"dataFormat"},
     location |-> {"location"}, outputFormat |-> {"dataFormat"},
     storageParameters |-> {"storageParameters", "addStorageParameter"}, serdeName |-> {"serdeName"},
     serdeParameters |-> {"serdeParameters", "addSerdeParameter"},
     serializationLibrary |-> {"dataFormat"}, storedAsSubDirectories |-> {"storedAsSubDirectories"}]

\* A table that another one is a link to is kept by nobody.
TableLines ==
    Single([databaseName |-> "database", description |-> "description", name |-> "name", owner |-> "owner",
            retention |-> "retention", tableType |-> "tableType", viewExpandedText |-> "viewExpandedText",
            viewOriginalText |-> "viewOriginalText"])
    ++ [parameters |-> {"parameters", "addParameter"}, partitionKeys |-> {"partitionKeys", "addPartitionKey"}]
    ++ StorageLines

TableTable ==
    Merging(OptionTable(TableOptions \cup TableAdded, All({"database"}), TableLines),
            {"parameters", "serdeParameters", "storageParameters"},
            {"addParameter", "addSerdeParameter", "addStorageParameter"},
            [parameters |-> 1, addParameter |-> 2, serdeParameters |-> 1, addSerdeParameter |-> 2,
             storageParameters |-> 1, addStorageParameter |-> 2])

-----------------------------------------------------------------------------
GlueTables ==
    [glueJob |-> JobTable, glueConnection |-> ConnectionTable, glueJdbcConnection |-> JdbcConnectionTable,
     glueJdbcTarget |-> JdbcTargetTable, glueDatabase |-> DatabaseTable, glueWorkflow |-> WorkflowTable,
     glueTrigger |-> TriggerTable, glueCrawlerAction |-> CrawlerActionTable,
     glueJobAction |-> JobActionTable, glueCrawlerPredicate |-> CrawlerPredicateTable,
     glueJobPredicate |-> JobPredicateTable]

LosingGlueTables ==
    [glueCrawler |-> CrawlerTable, glueS3Target |-> S3TargetTable,
     glueJobOfExecutable |-> JobOfExecutableTable,
     glueSecurityConfiguration |-> SecurityConfigurationTable, glueTable |-> TableTable]
=============================================================================
