----------------------------- MODULE MCGateway -----------------------------
(* A buffer of seven cells and headers of two: the page does not fit, a JSON *)
(* body is longer than a header and than the other bodies.  Either server    *)
(* may lose bytes on a chip that serves it.  A bad reception leaves a write  *)
(* under the id of another request, a read, or nothing of use.               *)
EXTENDS Gateway

MCBodySize == [d \in Docs |-> IF d = "page" THEN 8 ELSE IF d \in Json THEN 4 ELSE 3]

MCWorlds == {<<{}, TRUE, TRUE>>, <<{}, TRUE, FALSE>>, <<{}, FALSE, FALSE>>,
             <<{ClientSock}, TRUE, FALSE>>, <<{WebSock}, FALSE, FALSE>>}

MCBadFronts == {[id |-> 2, kind |-> "write", value |-> 1],
                [id |-> 2, kind |-> "read", value |-> 0],
                [id |-> 0, kind |-> "none", value |-> 0]}
=============================================================================
