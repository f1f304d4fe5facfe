----------------------------- MODULE MCStartup -----------------------------
(* Startup and Gateway on a small instance, for TLC. *)
EXTENDS Startup

CONSTANTS h1, p1, g1, s1, statusChange, checkRequest, pingWorker, notifier, scheduler

MCKind == [c \in Calls |-> IF c = h1 THEN "http" ELSE IF c = p1 THEN "health"
                           ELSE IF c = g1 THEN "grpc" ELSE "stream"]

MCTopics == <<statusChange, checkRequest>>

MCReads == [w \in Workers |-> IF w = pingWorker THEN checkRequest
                              ELSE IF w = notifier THEN statusChange ELSE NoTopic]
=============================================================================
