-------------------------------- MODULE Maps --------------------------------
(***************************************************************************)
(* A Go map as a function. Writing the entries of one into another is what *)
(* @@ of module TLC is, in a form that can be reasoned about.              *)
(***************************************************************************)

Over(new, old) ==
    [k \in DOMAIN new \cup DOMAIN old |-> IF k \in DOMAIN new THEN new[k] ELSE old[k]]

=============================================================================
