----------------------------- MODULE MCCfgInit -----------------------------
(* CfgInit with most of the keys of conf.yaml, in the order of the code. *)
EXTENDS CfgInit

MCDBKeys == <<"DBHost", "DBUser", "DBPassWord", "DBPort", "DBSocket">>
MCTopKeys == <<"TimeOut", "RootURL", "MaxConnNum">>
MCSystemKeys == <<"LOGDIR", "OUTPUTDIR">>
MCRequired ==
    {"DBHost", "DBUser", "DBPassWord", "RootURL", "LOGDIR", "OUTPUTDIR"}
=============================================================================
