---------------------------- MODULE MCListeners ----------------------------
(* A host and a courier listener.  Reloads move the host listener, over a   *)
(* path another one leaves too, while they retype the courier one in place  *)
(* or remove it, and bring it back.                                         *)
EXTENDS Listeners, TLC
CONSTANTS h, c, p, q, r
At(kind, path) == [kind |-> kind, path |-> path]
Both == (h :> At(Host, p)) @@ (c :> At(Courier, q))
Mixed == (h :> At(Host, r)) @@ (c :> At(Host, q))
HostAt(path) == h :> At(Host, path)
Sets == {Both, Mixed, HostAt(q), HostAt(r)}
Ceilings == (Host :> 2) @@ (Courier :> 1)
=============================================================================
