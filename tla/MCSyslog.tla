------------------------------ MODULE MCSyslog ------------------------------
(* Instance of SyslogReceiver: lines of both formats and short datagrams.  *)
EXTENDS SyslogReceiver

MCDatagrams ==
  {[head |-> <<"<", "3", "4", ">", "1">>, more |-> 9, rest |-> "rfc5424"],
   [head |-> <<"<", "3", ">", "1", " ">>, more |-> 9, rest |-> "structuredData"],
   [head |-> <<"<", "1", "2">>, more |-> 0, rest |-> "none"],
   [head |-> <<"<", "3", ">", "o", "k">>, more |-> 0, rest |-> "none"]}
=============================================================================
