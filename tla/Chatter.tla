-------------------------------- MODULE Chatter --------------------------------
(* CoverUp's conversations with the language model (llm.py): every chat sends its  *)
(* messages through one rate limiter, retries what the service refuses for the      *)
(* moment, gives up on what it refuses for good, and answers the functions that a   *)
(* response asks to be called before it asks again.  Chats interleave where they    *)
(* await: the limiter, the response, and the pause before a retry.  A message is    *)
(* its role; the model's request for calls has no text, every other message counts  *)
(* as one token.                                                                    *)
EXTENDS Naturals, Sequences, FiniteSets

CONSTANTS Chats,       \* chats that run concurrently, one per coroutine
          Limit,       \* tokens that the rate limiter holds, 0 means no limiter
          MaxBackoff,  \* --max-backoff
          MaxCalls,    \* bound: function calls in one response
          MaxRounds,   \* bound: responses of a chat that ask for calls
          MaxFailures  \* bound: failures of the service that a chat retries

(* What the code takes for granted about the constants.                             *)
ConstantsType ==
  /\ IsFiniteSet(Chats)
  /\ Limit \in Nat /\ MaxBackoff \in Nat
  /\ MaxCalls \in Nat /\ MaxRounds \in Nat /\ MaxFailures \in Nat

VARIABLES pc,        \* where each chat is
          outcome,   \* what it returned: "none" yet, "response", "nothing" or "raised"
          messages,  \* the conversation, which belongs to the caller
          sleep,     \* the longest pause of the next retry, local to _send_request
          level,     \* tokens in the limiter's bucket
          rounds,    \* bound: responses that asked for calls
          failures   \* bound: failures so far

vars == <<pc, outcome, messages, sleep, level, rounds, failures>>

Asks(k) == [role |-> "assistant", calls |-> k]
Answers(i) == [role |-> "tool", call |-> i]
Prompt == [role |-> "user"]

Smaller(a, b) == IF a < b THEN a ELSE b

(* count_tokens.                                                                   *)
Tokens(c) == Cardinality({i \in DOMAIN messages[c] : messages[c][i].role # "assistant"})

Init ==
  /\ pc = [c \in Chats |-> "idle"]
  /\ outcome = [c \in Chats |-> "none"]
  /\ messages = [c \in Chats |-> <<Prompt>>]
  /\ sleep = [c \in Chats |-> 1]
  /\ level = 0
  /\ rounds = [c \in Chats |-> 0]
  /\ failures = [c \in Chats |-> 0]

Begin(c) ==
  /\ pc[c] = "idle"
  /\ pc' = [pc EXCEPT ![c] = "limiter"]
  /\ UNCHANGED <<outcome, messages, sleep, level, rounds, failures>>

Return(c, what) ==
  /\ pc' = [pc EXCEPT ![c] = "over"]
  /\ outcome' = [outcome EXCEPT ![c] = what]
--------------------------------------------------------------------------------
(* The limiter is a bucket that leaks: it takes a request's tokens as soon as there *)
(* is room for them.  It raises for more than it could ever hold, which ends the    *)
(* chat without a response.                                                         *)
Fits(c) == Limit = 0 \/ level + Tokens(c) <= Limit

Acquire(c) ==
  /\ pc[c] = "limiter"
  /\ Fits(c)
  /\ level' = IF Limit = 0 THEN level ELSE level + Tokens(c)
  /\ pc' = [pc EXCEPT ![c] = "sent"]
  /\ UNCHANGED <<outcome, messages, sleep, rounds, failures>>

TooLarge(c) == Limit # 0 /\ Tokens(c) > Limit

GiveUp(c) ==
  /\ pc[c] = "limiter"
  /\ TooLarge(c)
  /\ Return(c, "nothing")
  /\ UNCHANGED <<messages, sleep, level, rounds, failures>>

Leak ==
  /\ level > 0
  /\ level' = level - 1
  /\ UNCHANGED <<pc, outcome, messages, sleep, rounds, failures>>
--------------------------------------------------------------------------------
(* Overload, a rate limit or a timeout of the service: pause, twice as long each     *)
(* time up to a limit, and try again.                                               *)
Unavailable(c) ==
  /\ pc[c] = "sent"
  /\ failures[c] < MaxFailures
  /\ failures' = [failures EXCEPT ![c] = @ + 1]
  /\ sleep' = [sleep EXCEPT ![c] = Smaller(2 * @, MaxBackoff)]
  /\ pc' = [pc EXCEPT ![c] = "pause"]
  /\ UNCHANGED <<outcome, messages, level, rounds>>

Wake(c) ==
  /\ pc[c] = "pause"
  /\ pc' = [pc EXCEPT ![c] = "limiter"]
  /\ UNCHANGED <<outcome, messages, sleep, level, rounds, failures>>

(* A failed connection is tried again at once.                                     *)
ConnectionFails(c) ==
  /\ pc[c] = "sent"
  /\ failures[c] < MaxFailures
  /\ failures' = [failures EXCEPT ![c] = @ + 1]
  /\ pc' = [pc EXCEPT ![c] = "limiter"]
  /\ UNCHANGED <<outcome, messages, sleep, level, rounds>>

(* A bad request or an unknown error of the service: no response.  A wrong key or a *)
(* used up quota is raised.                                                         *)
Refused(c) ==
  /\ pc[c] = "sent"
  /\ Return(c, "nothing") \/ Return(c, "raised")
  /\ UNCHANGED <<messages, sleep, level, rounds, failures>>
--------------------------------------------------------------------------------
(* A slip: only the first call is answered.                                        *)
AnsweredFirst(n) == [i \in 1 .. Smaller(1, n) |-> Answers(i)]

(* The answers to the first n calls; an error of the function is an answer, too.   *)
Answered(n) == [i \in 1 .. n |-> Answers(i)]

(* A response that asks for nothing is the result.                                 *)
Respond(c) ==
  /\ pc[c] = "sent"
  /\ Return(c, "response")
  /\ UNCHANGED <<messages, sleep, level, rounds, failures>>

(* A response that asks for calls: answer them one after the other and ask again,   *)
(* in a new _send_request.                                                          *)
CallFunctions(c) ==
  /\ pc[c] = "sent"
  /\ rounds[c] < MaxRounds
  /\ rounds' = [rounds EXCEPT ![c] = @ + 1]
  /\ \E k \in 1 .. MaxCalls :
       messages' = [messages EXCEPT ![c] = @ \o <<Asks(k)>> \o Answered(k)]
  /\ sleep' = [sleep EXCEPT ![c] = 1]
  /\ pc' = [pc EXCEPT ![c] = "limiter"]
  /\ UNCHANGED <<outcome, level, failures>>

(* One of the calls names no known function, or its arguments are no JSON: both are *)
(* looked up outside the handler, so that the chat raises halfway through.          *)
CannotCall(c) ==
  /\ pc[c] = "sent"
  /\ rounds[c] < MaxRounds
  /\ \E k \in 1 .. MaxCalls : \E n \in 0 .. k - 1 :
       messages' = [messages EXCEPT ![c] = @ \o <<Asks(k)>> \o Answered(n)]
  /\ Return(c, "raised")
  /\ UNCHANGED <<sleep, level, rounds, failures>>

(* Every chat is over.                                                             *)
AllOver == (\A c \in Chats : pc[c] = "over") /\ level = 0 /\ UNCHANGED vars

Chat(c) ==
  \/ Acquire(c) \/ GiveUp(c)
  \/ Unavailable(c) \/ Wake(c) \/ ConnectionFails(c) \/ Refused(c)
  \/ Respond(c) \/ CallFunctions(c) \/ CannotCall(c)

Next == (\E c \in Chats : Begin(c) \/ Chat(c)) \/ Leak \/ AllOver

(* The event loop goes on with every chat, requests end, and the bucket leaks.  No *)
(* chat need begin.                                                                *)
Fairness == (\A c \in Chats : WF_vars(Chat(c))) /\ WF_vars(Leak)

Spec == Init /\ [][Next]_vars /\ Fairness
--------------------------------------------------------------------------------
TypeOK ==
  /\ pc \in [Chats -> {"idle", "limiter", "sent", "pause", "over"}]
  /\ outcome \in [Chats -> {"none", "response", "nothing", "raised"}]
  /\ sleep \in [Chats -> Nat]
  /\ level \in 0 .. Limit
  /\ rounds \in [Chats -> 0 .. MaxRounds] /\ failures \in [Chats -> 0 .. MaxFailures]

(* What the service demands of a conversation: the answers to all calls, in order,  *)
(* follow the message that asks for them, and nothing else is an answer.            *)
IsWhole(ms) ==
  \A i \in DOMAIN ms :
    /\ ms[i].role = "assistant" =>
         \A k \in 1 .. ms[i].calls : i + k \in DOMAIN ms /\ ms[i + k] = Answers(k)
    /\ ms[i].role = "tool" =>
         LET j == i - ms[i].call
         IN j \in DOMAIN ms /\ ms[j].role = "assistant" /\ ms[i].call <= ms[j].calls

(* Every request that is sent, retried ones included, is a whole conversation that   *)
(* the limiter has room for; one is left half answered only by a chat that raises.   *)
ConversationsAreWhole ==
  /\ TypeOK
  /\ \A c \in Chats :
       /\ ~IsWhole(messages[c]) => outcome[c] = "raised"
       /\ pc[c] = "over" <=> outcome[c] # "none"
       /\ pc[c] = "sent" /\ Limit # 0 => Tokens(c) <= Limit

(* No chat waits for ever: not behind the others at the limiter, which they share,  *)
(* and not with a conversation that has outgrown it, if the service refuses and asks *)
(* for calls only so often.                                                         *)
ChatsEnd == \A c \in Chats : pc[c] = "limiter" ~> pc[c] = "over"
================================================================================
