----------------------------- MODULE MCGateway -----------------------------
(***************************************************************************)
(* Gateway on four routes: r1 and r2 serve the model, r3 is only reached   *)
(* by a custom rule or the any-model list, r4 has a malformed URL.  r2     *)
(* converts Responses requests; r3 refuses them.                           *)
(*                                                                         *)
(* Two requests of a key: a charge uses a quota up exactly, goes beyond it *)
(* or leaves something.                                                    *)
(***************************************************************************)
EXTENDS Gateway

CONSTANTS r1, r2, r3, r4, k1, q1, q2

MCRoute  == {r1, r2, r3, r4}
MCStatus == {200, 404, 500}
MCMode   == (r1 :> "native") @@ (r2 :> "chat_compat") @@ (r3 :> "disabled")
            @@ (r4 :> "native")
MCBadURL == {r4}

MCRequest ==
  {q \in [stream: BOOLEAN, responses: BOOLEAN, convertible: BOOLEAN,
          explicit: BOOLEAN, timed: BOOLEAN,
          initial: {<<>>, <<r1>>, <<r2>>, <<r1, r2>>, <<r4>>},
          custom: {<<>>, <<r2, r3>>}, anyModel: {<<r2, r1, r3>>}] :
     /\ q.explicit => q.initial \in {<<r1>>, <<r2>>} /\ q.custom = <<>>
     /\ ~q.responses => q.convertible
     /\ q.stream => q.convertible /\ (q.custom = <<>> \/ q.timed)
     /\ q.explicit => q.timed
     /\ q.initial = <<r2>> => q.explicit
     /\ q.initial = <<r4>> => q.custom = <<>> /\ ~q.stream /\ ~q.responses
     /\ q.initial = <<>> => q.custom = <<>> /\ ~q.stream /\ ~q.responses}

MCPolicy ==
  [enabled: {TRUE}, retryAttempts: {0, 1}, maxFallbackAttempts: {2},
   fallbackMode: {"same_model", "any_model"},
   retryOnTimeout: {TRUE}, retryOnNetworkError: {TRUE},
   retryOnStatus: {{500}}]
  \cup
  [enabled: {FALSE}, retryAttempts: {1}, maxFallbackAttempts: {2},
   fallbackMode: {"same_model"}, retryOnTimeout: {TRUE},
   retryOnNetworkError: {TRUE}, retryOnStatus: {{500}}]
  \cup
  [enabled: {TRUE}, retryAttempts: {-1, 0}, maxFallbackAttempts: {0, 1},
   fallbackMode: {"disabled"}, retryOnTimeout: {FALSE},
   retryOnNetworkError: {TRUE}, retryOnStatus: {{404, 500}}]

MCRelayed == {q1, q2}
MCKey     == {k1}
MCQuota   == {0, 1, 2}
=============================================================================
