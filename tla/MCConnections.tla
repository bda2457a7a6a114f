--------------------------- MODULE MCConnections ---------------------------
(* The registry alone, with ceilings that all bind: of three transports at  *)
(* most two are couriers and at most two are on one listener.               *)
EXTENDS Connections, TLC
CONSTANTS a, b, u, w
Ceilings == (Host :> 3) @@ (Courier :> 2)
(* Drop a transport; drop a workload's and a uid's. *)
Drops == {{[by |-> "id", val |-> 1]},
          {[by |-> "uid", val |-> u], [by |-> "systemd", val |-> w]}}
Symmetric == Permutations(Names) \cup Permutations(Guards)
=============================================================================
