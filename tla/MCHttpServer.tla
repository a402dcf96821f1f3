---------------------------- MODULE MCHttpServer ----------------------------
(***************************************************************************)
(* An instance of HttpServer: two clients that ask for streamed answers,   *)
(* whole completions, the counters, and things that are refused in         *)
(* different places.                                                       *)
(***************************************************************************)
EXTENDS HttpServer, TLC

CONSTANTS c1, c2

Clients == {c1, c2}

Post(target, body, keepAlive) ==
    [method |-> "POST", target |-> target, body |-> body, keepAlive |-> keepAlive]

Message(role, content) == [role |-> role, content |-> content]

Streamed == Post("/v1/chat/completions",
                 [messages |-> <<Message("user", "string")>>, stream |-> TRUE], TRUE)
Whole == Post("/v1/completions", [prompt |-> "string", max_tokens |-> 5], TRUE)
Image == Post("/v1/chat/completions",
              [messages |-> <<Message("user", "image")>>, stream |-> TRUE], FALSE)
Health == [method |-> "GET", target |-> "/health", body |-> <<>>, keepAlive |-> TRUE]
Garbage == [method |-> "GET", target |-> "malformed", body |-> <<>>, keepAlive |-> TRUE]

\* The first client asks once, the second twice.
SentRequests == (c1 :> {Whole, Health, Image, Garbage}) @@ (c2 :> {Streamed})
SentAtMost == (c1 :> 1) @@ (c2 :> 2)
=============================================================================
