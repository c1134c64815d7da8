------------------------------ MODULE MCStartup ------------------------------
(***************************************************************************)
(* A small instance of Startup: a file with two providers, a model of the  *)
(* second, a key, a request on record and a blocking policy.               *)
(***************************************************************************)
EXTENDS Startup

Plainly(name) == [key |-> name, ref |-> 0, data |-> Plain]

File ==
  [t \in Tables |->
     CASE t = Usage -> <<Plainly("q1")>>
       [] t = Keys -> <<Plainly("k1")>>
       [] t = Providers -> <<[key |-> "p1", ref |-> 0, data |-> <<"sqlite", 0>>],
                             [key |-> "p2", ref |-> 0, data |-> <<"sqlite", 0>>]>>
       [] t = Models -> <<[key |-> "m", ref |-> 2, data |-> Plain]>>
       [] t = Policies -> <<[key |-> "email_address", ref |-> 0, data |-> Block]>>]

TwoSettings == {NoKey, <<"env", 1>>}
=============================================================================
