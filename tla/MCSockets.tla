------------------------------ MODULE MCSockets ------------------------------
(* One client asks another that sends it events. *)
EXTENDS Sockets

To(client, kind) == [kind |-> kind, to |-> client]

MCWork ==
  [c \in {"a", "b"} |->
     IF c = "a" THEN <<To("b", "request"), To("b", "request"), To("b", "request")>>
                ELSE <<To("a", "event"), To("a", "event")>>]
=============================================================================
