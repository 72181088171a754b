------------------------------ MODULE MCEcore ------------------------------
(* Ecore with all configurations of one or two entries out of seven.       *)
EXTENDS Ecore

Entry(name, type, mode) == [name |-> name, type |-> type, mode |-> mode, complete |-> TRUE]

MCEntries ==
  {Entry(<<1>>, "master", "mono"), Entry(<<1, 2>>, "slave", "parallel"),
   Entry(<<2>>, "slave", "mono"), Entry(<<2>>, "sprite", "mono"),
   Entry(<<1>>, "sprite", "parallel"), Entry(<<2>>, "unknown", "mono"),
   [Entry(<<2>>, "sprite", "mono") EXCEPT !.complete = FALSE]}

MCConfigs == {<<e>> : e \in MCEntries} \cup (MCEntries \X MCEntries)
MCNames == {<<1, 2>>, <<2>>}
=============================================================================
