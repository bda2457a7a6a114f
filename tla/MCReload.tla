------------------------------ MODULE MCReload ------------------------------
(* Instances of Reload for TLC: two bootstraps, that name different        *)
(* catalogs and configure different listeners, and catalogs that differ in *)
(* each thing a reload compares.                                           *)
EXTENDS Reload, TLC
CONSTANTS cat1, cat2, pol, name, key1, key2, strict, lax
Boot1 == [catalog |-> cat1, policy |-> pol, listeners |-> 1]
Boot2 == [catalog |-> cat2, policy |-> pol, listeners |-> 2]
Cat(shape, key) == [shape |-> shape, name |-> name, key |-> key]
Pending == Cat(1, None)
Keyed == Cat(1, key1)
Rekeyed == Cat(1, key2)
Reshaped == Cat(2, None)
Pairs == {<<Pending, lax>>, <<Keyed, lax>>, <<Keyed, strict>>,
          <<Rekeyed, strict>>, <<Rekeyed, lax>>, <<Reshaped, lax>>}
Startup == (Cfg :> Boot1) @@ (cat1 :> Pending) @@ (cat2 :> Keyed) @@ (pol :> lax)
(* Everything may be edited. *)
Wide == (Cfg :> {Boot1, Boot2}) @@ (cat1 :> {Pending, Keyed, Reshaped})
        @@ (cat2 :> {Keyed, Rekeyed}) @@ (pol :> {strict, lax})
=============================================================================
