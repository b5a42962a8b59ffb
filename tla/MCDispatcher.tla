---------------------------- MODULE MCDispatcher ----------------------------
(* Five concurrent events: a client message carrying key 1, a NewElders    *)
(* agreement for key 2, two replication batches sharing item d2 for        *)
(* different recipients, an offline vote followed by a storage level       *)
(* change, and a send to two peers followed by an issue report.            *)
EXTENDS Dispatcher

MCEvents == {"client", "elders", "repl1", "repl2", "fault"}
MCWork0 == [e \in MCEvents |->
    CASE e = "client" -> << UpdateNetwork(1) >>
      [] e = "elders" -> << NewElders(2) >>
      [] e = "repl1"  -> << Enqueue(<< "d1", "d2" >>, "p1") >>
      [] e = "repl2"  -> << Enqueue(<< "d2" >>, "p2") >>
      [] e = "fault"  -> << ProposeOffline({"p3"}), SetStorageLevel(1), TrackNodeIssue("p3") >>]
MCPeers == {"p1", "p2", "p3"}
MCElders == {"p1", "p2"}
MCLevels == {0, 1}
====
