----------------------------- MODULE HtmlClient -----------------------------
(***************************************************************************)
(* The html client of the Template service.                                *)
(*                                                                         *)
(* The page has a text area for a public.toml file and a button for each   *)
(* of the requests Clock, Count and Status.  The three buttons are alike,  *)
(* and each has a flag and sockets of its own: this is one of them.  A     *)
(* click asks the first server of the file, over one WebSocket per address *)
(* that is kept and used again, and locks the button until the answer or   *)
(* an error arrives.  Every request adds its own listeners to the socket;  *)
(* the browser calls all those that a socket has.                          *)
(*                                                                         *)
(* The browser and the conodes are not in the mapped code: a conode serves *)
(* the requests of a connection one after the other, and may be busy with  *)
(* one for ever (Clock waits for a count that need not come); a connection *)
(* that is refused, or fails, raises an error event, and one that is       *)
(* closed (a conode closes it instead of answering with an error) raises   *)
(* none.                                                                   *)
(***************************************************************************)
EXTENDS Naturals, Sequences

CONSTANTS
    Address,        \* the WebSocket addresses of servers
    NoAddress,      \* a text that parses, without a server to ask
    Unparsable,     \* a text that does not parse: the user is told so
    MaxRequest      \* bound on the requests, which are numbered

ASSUME HtmlAssumption ==
    /\ MaxRequest \in Nat
    /\ {NoAddress, Unparsable} \cap Address = {} /\ NoAddress # Unparsable

Request == 1 .. MaxRequest

VARIABLES
    text,           \* what the text area holds
    getting,        \* the button is locked
    requests,       \* how many requests were made
    asked,          \* the address that each request was made to
    state,          \* readyState of the socket of each address
    unsent,         \* per socket, what is sent when it opens
    pending,        \* per socket, the requests that the server has to answer
    hung,           \* the sockets whose server is busy for ever with the first
    listening,      \* per socket, the requests with a message listener
    alarmed,        \* per socket, the requests with an error listener
    got,            \* the request whose answer each request was given; 0 is none
    by,             \* the server that gave it
    misled,         \* history: an error unlocked the button while the last
                    \* request was waiting at another socket
    silent          \* history: the button is locked, and the answer that would
                    \* unlock it is lost, or never comes; an error still may

page == <<text, getting>>
sockets == <<state, unsent, pending, hung, listening, alarmed>>
answers == <<got, by>>
vars == <<page, requests, asked, sockets, answers, misled, silent>>

States == {"none", "connecting", "open", "closing", "closed"}

TypeOK ==
    /\ text \in Address \cup {NoAddress, Unparsable}
    /\ getting \in BOOLEAN
    /\ requests \in 0 .. MaxRequest
    /\ asked \in [Request -> Address \cup {NoAddress}]
    /\ state \in [Address -> States]
    /\ unsent \in [Address -> Seq(Request)]
    /\ pending \in [Address -> Seq(Request)]
    /\ listening \in [Address -> SUBSET Request]
    /\ alarmed \in [Address -> SUBSET Request]
    /\ got \in [Request -> 0 .. MaxRequest]
    /\ by \in [Request -> Address \cup {NoAddress}]
    /\ misled \in BOOLEAN /\ silent \in BOOLEAN
    /\ hung \subseteq Address /\ \A a \in hung : pending[a] # <<>>
    /\ \A a \in Address : /\ unsent[a] # <<>> => state[a] = "connecting"
                          /\ pending[a] # <<>> => state[a] = "open"

Init ==
    /\ text = Unparsable
    /\ getting = FALSE
    /\ requests = 0
    /\ asked = [r \in Request |-> NoAddress]
    /\ state = [a \in Address |-> "none"]
    /\ unsent = [a \in Address |-> <<>>]
    /\ pending = [a \in Address |-> <<>>]
    /\ hung = {}
    /\ listening = [a \in Address |-> {}]
    /\ alarmed = [a \in Address |-> {}]
    /\ got = [r \in Request |-> 0]
    /\ by = [r \in Request |-> NoAddress]
    /\ misled = FALSE /\ silent = FALSE

-----------------------------------------------------------------------------
(* The page.                                                               *)

\* The user pastes another file.
Edit ==
    /\ text' \in (Address \cup {NoAddress, Unparsable}) \ {text}
    /\ UNCHANGED <<getting, requests, asked, sockets, answers, misled, silent>>

\* The button is not locked, and the file parses.
Clicks == ~getting /\ text # Unparsable

\* The flag is set before the address is read, and no address is there: the
\* exception that this raises leaves the flag set.
ClickNoAddress ==
    /\ Clicks /\ text = NoAddress
    /\ getting' = TRUE
    /\ silent' = TRUE
    /\ UNCHANGED <<text, requests, asked, sockets, answers, misled>>

Dead(s) == s \in {"none", "closed"}

\* Mutant: one socket, of the first address, serves them all.
SocketFirst(address) ==
    IF \A a \in Address : Dead(state[a]) THEN address
    ELSE CHOOSE a \in Address : ~Dead(state[a])

\* createSocket: there is one socket per address.
Socket(address) == address

\* createSocket: a socket that is closed is replaced by a new one, which
\* connects; listeners are added; the message is sent now, or when the socket
\* opens.  A socket that is closing is used, and drops the message; one that
\* hangs takes it, behind the request that its server is busy with.
ClickAddress ==
    /\ Clicks /\ text \in Address /\ requests < MaxRequest
    /\ LET r == requests + 1
           a == Socket(text)
           new == Dead(state[a])
           Added(sets) == [b \in Address |->
               IF b = a THEN (IF new THEN {} ELSE sets[a]) \cup {r} ELSE sets[b]]
       IN  /\ requests' = r
           /\ asked' = [asked EXCEPT ![r] = text]
           /\ state' = [state EXCEPT ![a] = IF new THEN "connecting" ELSE @]
           /\ listening' = Added(listening)
           /\ alarmed' = Added(alarmed)
           /\ \/ state'[a] = "connecting"
                 /\ unsent' = [unsent EXCEPT ![a] = Append(@, r)]
                 /\ UNCHANGED <<pending, silent>>
              \/ state'[a] = "open"
                 /\ pending' = [pending EXCEPT ![a] = Append(@, r)]
                 /\ silent' = (a \in hung)
                 /\ UNCHANGED unsent
              \/ state'[a] = "closing"
                 /\ UNCHANGED <<unsent, pending, silent>>
    /\ getting' = TRUE
    /\ UNCHANGED <<text, hung, answers, misled>>

-----------------------------------------------------------------------------
(* The sockets.                                                            *)

\* Mutant: what was sent when the socket opened is kept for the next one.
OpensKept(a) ==
    /\ state[a] = "connecting"
    /\ state' = [state EXCEPT ![a] = "open"]
    /\ pending' = [pending EXCEPT ![a] = unsent[a]]
    /\ UNCHANGED <<page, requests, asked, unsent, hung, listening, alarmed, answers, misled,
                   silent>>

\* The socket opens, and the listeners of "open" send what was waiting.
Opens(a) ==
    /\ state[a] = "connecting"
    /\ state' = [state EXCEPT ![a] = "open"]
    /\ pending' = [pending EXCEPT ![a] = unsent[a]]
    /\ unsent' = [unsent EXCEPT ![a] = <<>>]
    /\ UNCHANGED <<page, requests, asked, hung, listening, alarmed, answers, misled, silent>>

\* The last request waits at this socket.
WaitsAt(a) == getting /\ requests \in listening[a]

\* The server answers the first request that it has.
Serves(a) ==
    /\ state[a] = "open" /\ pending[a] # <<>> /\ a \notin hung
    /\ pending' = [pending EXCEPT ![a] = Tail(@)]
    /\ UNCHANGED <<text, requests, asked, state, unsent, hung, alarmed, misled>>

\* An answer calls all message listeners of the socket, in one task.
Delivers(a) ==
    /\ Serves(a)
    /\ got' = [r \in Request |-> IF r \in listening[a] THEN Head(pending[a]) ELSE got[r]]
    /\ by' = [r \in Request |-> IF r \in listening[a] THEN a ELSE by[r]]
    /\ getting' = (getting /\ listening[a] = {})
    /\ silent' = (silent /\ getting')

\* Mutant: onMessage does not remove itself.
AnswerKept(a) == Delivers(a) /\ UNCHANGED listening

\* onMessage: each listener removes itself, shows the answer and unlocks the
\* button.  The error listener stays.
Answer(a) == Delivers(a) /\ listening' = [listening EXCEPT ![a] = {}]

\* The answer does not decode: each listener has removed itself when its
\* callback raises the exception, before anything is shown and unlocked.
AnswerUndecoded(a) ==
    /\ Serves(a)
    /\ listening' = [listening EXCEPT ![a] = {}]
    /\ silent' = (silent \/ WaitsAt(a))
    /\ UNCHANGED <<getting, answers>>

\* The server waits for a count that does not come (the roster has one server,
\* or one that is down): no answer, no error, and the connection stays open.
Hangs(a) ==
    /\ state[a] = "open" /\ pending[a] # <<>> /\ a \notin hung
    /\ hung' = hung \cup {a}
    /\ silent' = (silent \/ WaitsAt(a))
    /\ UNCHANGED <<page, requests, asked, state, unsent, pending, listening, alarmed,
                   answers, misled>>

\* The server begins to close the connection.
Closing(a) ==
    /\ state[a] = "open"
    /\ state' = [state EXCEPT ![a] = "closing"]
    /\ pending' = [pending EXCEPT ![a] = <<>>]
    /\ hung' = hung \ {a}
    /\ UNCHANGED <<page, requests, asked, unsent, listening, alarmed, answers, misled, silent>>

Closed(a) ==
    /\ ~Dead(state[a])
    /\ state' = [state EXCEPT ![a] = "closed"]
    /\ unsent' = [unsent EXCEPT ![a] = <<>>]
    /\ pending' = [pending EXCEPT ![a] = <<>>]
    /\ hung' = hung \ {a}
    /\ listening' = [listening EXCEPT ![a] = {}]
    /\ alarmed' = [alarmed EXCEPT ![a] = {}]
    /\ UNCHANGED <<text, requests, asked, answers>>

\* Mutant: an error leaves the button locked.
FailsLocked(a) == Closed(a) /\ UNCHANGED <<getting, misled, silent>>

\* onError: each listener removes itself and unlocks the button, whatever it
\* is locked for now.
Fails(a) ==
    /\ Closed(a)
    /\ getting' = (getting /\ alarmed[a] = {})
    /\ misled' = (misled \/ (getting /\ ~getting' /\ ~WaitsAt(a)))
    /\ silent' = (silent /\ getting')

\* The connection is closed without an error: nobody listens to that.
ClosesQuietly(a) ==
    /\ state[a] \in {"open", "closing"}
    /\ Closed(a)
    /\ silent' = (silent \/ WaitsAt(a))
    /\ UNCHANGED <<getting, misled>>

Next ==
    \/ Edit \/ ClickNoAddress \/ ClickAddress
    \/ \E a \in Address :
          \/ Opens(a) \/ Answer(a) \/ AnswerUndecoded(a) \/ Hangs(a)
          \/ Closing(a) \/ Fails(a) \/ ClosesQuietly(a)

Spec == Init /\ [][Next]_vars

\* A connection is opened or refused, and a close that began is ended: the
\* browser gives up in the end.  A server answers what it has, or it hangs.
Fairness ==
    \A a \in Address :
        /\ WF_vars(state[a] = "connecting" /\ (Opens(a) \/ Fails(a)))
        /\ WF_vars(Answer(a) \/ AnswerUndecoded(a) \/ Hangs(a))
        /\ WF_vars(state[a] = "closing" /\ (ClosesQuietly(a) \/ Fails(a)))

FairSpec == Spec /\ Fairness

-----------------------------------------------------------------------------
(* Properties.                                                             *)

\* What is shown for a request comes from the server that it was made to, and
\* answers that request or an earlier one.  As long as no stale error listener
\* unlocked the button too early, it answers that request: the first answer,
\* which calls every listener of a socket, finds only that of its own request,
\* because the flag keeps requests apart (index.html, lines 44-66, and
\* createSocket, lines 98-106).
OwnAnswer ==
    \A r \in Request : got[r] # 0 =>
        /\ by[r] = asked[r]
        /\ got[r] <= r /\ (~misled => got[r] = r)

\* Every time the button is locked, it is unlocked again, unless the answer is
\* lost without an error: the request was made without an address, its
\* connection closed quietly, its server hangs, or what it answered does not
\* decode (index.html, lines 44-66; service.go, line 67).
Unlocks == getting ~> ~getting \/ silent
=============================================================================
