------------------------------- MODULE MCDesk -------------------------------
(***************************************************************************)
(* Three trips and two attempts at a number, two rows naming a record, two *)
(* commission rules, two requests at a time.  The forms give the driver a  *)
(* general rule that ends and one that follows on it, a rule for the       *)
(* client that ends as the first does, and the helper one rule.            *)
(***************************************************************************)
EXTENDS Desk, TLC

\* No request is told from another: the properties are all of safety.
AnyHandler == Permutations(Handlers)

General(role, from, to) ==
    [role |-> role, client |-> FALSE, route |-> FALSE, priority |-> 0, from |-> from, to |-> to]
MCRuleForms ==
    {General("DRIVER", 0, 1), General("DRIVER", 1, None), General("HELPER", 0, None),
     [General("DRIVER", 0, 1) EXCEPT !.client = TRUE]}
=============================================================================
