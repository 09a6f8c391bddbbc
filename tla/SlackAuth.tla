------------------------------ MODULE SlackAuth ------------------------------
(***************************************************************************)
(* SlackAuthMiddleware (internal/server/middleware), check by check, in a  *)
(* server that was configured by Setup: Slack signs a request with its     *)
(* own secret and time, the request travels and may arrive twice, and the  *)
(* clock goes on. The middleware keeps nothing between two requests, so    *)
(* that one of them at a time shows all it does.                           *)
(***************************************************************************)
EXTENDS Setup, Integers

CONSTANTS
    AppSecret,     \* Slack's secret of this app
    Unsigned,      \* the key of a request that is not Slack's
    NoRequest,
    Window,        \* maxTimestampAge
    Skew,          \* how far Slack's clock is ahead or behind
    MaxClock       \* bound: the clock

ASSUME KeyAssumption  == AppSecret \in Secret /\ Unsigned \notin Secret
ASSUME TimeAssumption == {Window, Skew, MaxClock} \subseteq Nat

VARIABLES
    clock,         \* the server's clock
    request,       \* the request under way: when it was sent, its timestamp
                   \* and key, and what can still be read of its body
    check,         \* where the middleware is with it
    answer         \* what the request was just answered, and at which age

authVars == <<clock, request, check, answer>>
vars == <<setupVars, authVars>>

NoAnswer == [code |-> 0, age |-> 0, body |-> FALSE]

AuthInit ==
    /\ clock = 0 /\ request = NoRequest /\ check = "idle"
    /\ answer = NoAnswer

Init == SetupInit /\ AuthInit

\* Age of the request by its timestamp; a clock ahead makes it negative.
Age == clock - request.timestamp

\* Slack, or with the key Unsigned some other client, sends a request.
SendRequest(key, skew) ==
    /\ server = "serving" /\ request = NoRequest
    /\ request' = [sent |-> clock, timestamp |-> clock + skew, key |-> key, body |-> TRUE]
    /\ answer' = NoAnswer
    /\ UNCHANGED <<setupVars, clock, check>>

\* Time passes on the way and while the body is read (ReadTimeout: 15
\* minutes); between the two checks there is nothing to wait for.
Tick ==
    /\ request # NoRequest /\ clock < MaxClock /\ check # "signature"
    /\ clock' = clock + 1 /\ answer' = NoAnswer
    /\ UNCHANGED <<setupVars, request, check>>

Answer(code) ==
    /\ answer' = [code |-> code, age |-> clock - request.sent, body |-> request.body]
    /\ check' = "idle"

\* The body cannot be read to its end: 500.
BodyFails ==
    /\ server = "serving" /\ request # NoRequest /\ check = "idle"
    /\ Answer(500)
    /\ UNCHANGED <<setupVars, clock, request>>

\* Variant: the body is not put back.
ReadBodyOnly ==
    /\ server = "serving" /\ request # NoRequest /\ check = "idle"
    /\ check' = "time"
    /\ request' = [request EXCEPT !.body = FALSE] /\ answer' = NoAnswer
    /\ UNCHANGED <<setupVars, clock>>

\* The body is read and put back for the handler; of the answer to an earlier
\* copy nothing is left.
ReadBody ==
    /\ server = "serving" /\ request # NoRequest /\ check = "idle"
    /\ check' = "time" /\ answer' = NoAnswer
    /\ UNCHANGED <<setupVars, clock, request>>

\* Variant: a request as old as the window is refused too, and a clock that
\* is ahead is not allowed for.
TooOldStrict == Age >= Window \/ Age < 0

\* time.Since(timestamp) > maxTimestampAge
TooOld == Age > Window

\* No timestamp that is a number: 400; an old one: 401.
CheckTime ==
    /\ check = "time"
    /\ \/ request.key = Unsigned /\ Answer(400)
       \/ TooOld /\ Answer(401)
       \/ ~TooOld /\ check' = "signature" /\ UNCHANGED answer
    /\ UNCHANGED <<setupVars, clock, request>>

\* hmac.Equal on what the configured secret makes of timestamp and body.
SignatureMatches == request.key = secret

\* The signature is missing or another: 401; else the handler runs and reads
\* the body.
CheckSignature ==
    /\ check = "signature"
    /\ Answer(IF SignatureMatches THEN 200 ELSE 401)
    /\ UNCHANGED <<setupVars, clock, request>>

\* The request was the last of its copies.
RequestGone ==
    /\ request # NoRequest /\ check = "idle"
    /\ request' = NoRequest /\ clock' = 0 /\ answer' = NoAnswer
    /\ UNCHANGED <<setupVars, check>>

\* With the server its connections end.
ServerGone ==
    /\ StopServer
    /\ request' = NoRequest /\ check' = "idle" /\ clock' = 0 /\ answer' = NoAnswer

AuthStep == ReadBody \/ CheckTime \/ CheckSignature

Next ==
    \/ SetupNext /\ UNCHANGED authVars
    \/ ServerGone
    \/ \E key \in {AppSecret, Unsigned}, skew \in -Skew .. Skew : SendRequest(key, skew)
    \/ Tick \/ BodyFails \/ RequestGone \/ AuthStep

Spec == Init /\ [][Next]_vars

-----------------------------------------------------------------------------
(* Properties. *)

TypeOK ==
    /\ SetupTypeOK
    /\ clock \in 0 .. MaxClock
    /\ request = NoRequest
         \/ request \in [sent : 0 .. MaxClock, timestamp : -Skew .. MaxClock + Skew,
                         key : {AppSecret, Unsigned}, body : BOOLEAN]
    /\ check \in {"idle", "time", "signature"}
    /\ answer \in [code : {0, 200, 400, 401, 500}, age : 0 .. MaxClock, body : BOOLEAN]

\* A request reaches its handler only if it was signed with the configured
\* secret and is no older than the window and the difference of the clocks,
\* and the handler can still read its body (slack_auth.go:38): however long
\* it took to arrive, and however often.
HandledIsGenuine ==
    answer.code = 200 =>
        /\ request # NoRequest => request.key = secret
        /\ answer.age <= Window + Skew
        /\ answer.body

\* From the wizard to the handler: when the secret that was saved last is
\* Slack's, the server is run from where it was saved, and the terminal does
\* not hide it (main.go:90-115), no request of Slack's that arrives in time is
\* refused, whatever runs of the wizard were aborted and wherever else they
\* left a .env.
GenuineIsHandled ==
    /\ saved = AppSecret /\ RunsWhereSaved /\ sysEnv = Unset
    /\ request # NoRequest /\ answer.code \in {400, 401}
    => request.key # AppSecret \/ answer.age + Skew > Window
=============================================================================
