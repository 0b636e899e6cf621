------------------------------ MODULE MCListing ------------------------------
(***************************************************************************)
(* Listing for TLC: two JobIDs, every shape of state, start time and TRES. *)
(***************************************************************************)
EXTENDS Listing

CONSTANTS a, b, n

Known == [set |-> TRUE, infinite |-> FALSE, number |-> 5]

Good(id) ==
    [id |-> id, state |-> <<"RUNNING">>, start |-> Known, nodes |-> {n},
     gpus |-> <<1, 2>>, shown |-> "total"]

Starts == [set : BOOLEAN, infinite : BOOLEAN, number : {0, 5}]
States == {<<>>, <<"RUNNING", "COMPLETING">>, <<"COMPLETING", "RUNNING">>, <<"PENDING">>}

(* One thing is odd about a record, or nothing.                            *)
MCRecords ==
    UNION {{Good(id)}
           \cup {[Good(id) EXCEPT !.nodes = s] : s \in {{}, Malformed}}
           \cup {[Good(id) EXCEPT !.shown = s] : s \in {"typed", "typed first", "typed last"}}
           \cup {[Good(id) EXCEPT !.state = s] : s \in States}
           \cup {[Good(id) EXCEPT !.start = s] : s \in Starts} : id \in {a, b}}
    \cup {Good(NoID)}

=============================================================================
