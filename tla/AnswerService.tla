--------------------------- MODULE AnswerService ---------------------------
(***************************************************************************)
(* What tenforty/oracle/engine.py promises its callers, and nothing of how *)
(* it keeps the promise: a compute ends with the answer of its OWN request *)
(* or it raises; a caller's process may also die under it.  There is no    *)
(* work directory, lock, cache or LibreOffice here.                        *)
(***************************************************************************)
CONSTANTS
  Callers,     \* threads that call compute()
  Requests,    \* argument lists of compute()
  AnswerOf,    \* [Requests -> answers]: what each request's answer is
  NoRequest,   \* what a caller that never asked has asked
  NoAnswer     \* what a caller without an answer holds

VARIABLES
  status,      \* [Callers -> {"idle", "busy", "answered", "failed"}]
  asked,       \* [Callers -> Requests \cup {NoRequest}]
  answer       \* [Callers -> answers \cup {NoAnswer}]

vars == <<status, asked, answer>>

Init ==
  /\ status = [c \in Callers |-> "idle"]
  /\ asked  = [c \in Callers |-> NoRequest]
  /\ answer = [c \in Callers |-> NoAnswer]

Ask(c, r) ==
  /\ status[c] # "busy"
  /\ status' = [status EXCEPT ![c] = "busy"]
  /\ asked'  = [asked EXCEPT ![c] = r]
  /\ answer' = [answer EXCEPT ![c] = NoAnswer]

Answer(c) ==
  /\ status[c] = "busy"
  /\ status' = [status EXCEPT ![c] = "answered"]
  /\ answer' = [answer EXCEPT ![c] = AnswerOf[asked[c]]]
  /\ UNCHANGED asked

Fail(c) ==
  /\ status[c] = "busy"
  /\ status' = [status EXCEPT ![c] = "failed"]
  /\ UNCHANGED <<asked, answer>>

\* A process dies with every caller in it.
Die(C) ==
  /\ status' = [c \in Callers |-> IF c \in C THEN "idle" ELSE status[c]]
  /\ answer' = [c \in Callers |-> IF c \in C THEN NoAnswer ELSE answer[c]]
  /\ UNCHANGED asked

Next ==
  \/ \E c \in Callers : (\E r \in Requests : Ask(c, r)) \/ Answer(c) \/ Fail(c)
  \/ \E C \in SUBSET Callers : Die(C)

Spec == Init /\ [][Next]_vars
=============================================================================
