--------------------------- MODULE MC_MxlkDriver ---------------------------
(* Two processes, one of which loads the driver.  Capability lists with    *)
(* the capability last, behind the end, and nowhere in a circle; and       *)
(* devices of another build, of another minor version, and not yet ready.  *)
EXTENDS MxlkDriver, TLC

CONSTANTS u1, u2

UserSymmetry == Permutations({u1, u2})

Version(minor, build) == [major |-> 1, minor |-> minor, build |-> build]

Last   == [first |-> 1, id |-> <<"stats", "boot", "txrx">>, next |-> <<2, 3, 3>>,
           version |-> Version(3, 7), status |-> "run"]
Behind == [first |-> 2, id |-> <<"txrx", "stats", "null">>, next |-> <<1, 3, 1>>,
           version |-> Version(3, 0), status |-> "run"]
Circle == [first |-> 1, id |-> <<"stats", "boot">>, next |-> <<2, 1>>,
           version |-> Version(3, 0), status |-> "run"]

MC_Layouts ==
    {Last, Behind, Circle, [Last EXCEPT !.version = Version(2, 0)],
     [Last EXCEPT !.status = "boot"]}
=============================================================================
