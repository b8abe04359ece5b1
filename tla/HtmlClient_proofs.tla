------------------------- MODULE HtmlClient_proofs -------------------------
(***************************************************************************)
(* The html client, for any servers and any number of requests.            *)
(*                                                                         *)
(* An answer calls all listeners of a socket.  That they get the answer to *)
(* their own request or to an earlier one, because the requests that wait  *)
(* at a socket are in order and listeners are only of those (Waiting), is  *)
(* so whatever unlocks the button.  That there is one listener, of the     *)
(* last request, is so while the lock keeps requests apart (Apart).        *)
(***************************************************************************)
EXTENDS HtmlClient, TLAPS

\* Requests are sent in their order.
Ordered(s, last) ==
    /\ \A i \in 1 .. Len(s) : s[i] <= last
    /\ \A i, j \in 1 .. Len(s) : i < j => s[i] < s[j]

Holds(s, r) == \E i \in 1 .. Len(s) : s[i] = r

\* Listeners are of requests that were made to the socket, and that it has
\* still to be given the answer to.
WaitingAt(a) ==
    /\ Ordered(unsent[a], requests) /\ Ordered(pending[a], requests)
    /\ \A r \in listening[a] :
          /\ r <= requests /\ asked[r] = a
          /\ state[a] = "connecting" => Holds(unsent[a], r)
          /\ state[a] = "open" => Holds(pending[a], r)

Waiting == \A a \in Address : WaitingAt(a)

\* As long as no error unlocks the button too early, only the last request is
\* anywhere in the sockets, and only while the button is locked.
ApartAt(a) ==
    /\ listening[a] # {} => getting /\ listening[a] = {requests}
    /\ unsent[a] # <<>> => listening[a] # {} /\ unsent[a] = <<requests>>
    /\ pending[a] # <<>> => listening[a] # {} /\ pending[a] = <<requests>>

Apart == ~misled => \A a \in Address : ApartAt(a)

Made == \A r \in Request : got[r] # 0 => r <= requests

Inv == TypeOK /\ Waiting /\ Apart /\ Made /\ OwnAnswer

\* Sequences of requests.
LEMMA EmptyOrdered == ASSUME NEW n PROVE Ordered(<<>>, n)
BY DEF Ordered

LEMMA AppendOrdered ==
    ASSUME NEW s \in Seq(Request), NEW n \in Nat, Ordered(s, n), n + 1 \in Request
    PROVE  /\ Append(s, n + 1) \in Seq(Request)
           /\ Ordered(Append(s, n + 1), n + 1)
           /\ Holds(Append(s, n + 1), n + 1)
           /\ \A r \in Request : Holds(s, r) => Holds(Append(s, n + 1), r)
<1> DEFINE t == Append(s, n + 1)
<1> USE HtmlAssumption DEF HtmlAssumption, Request
<1>1. /\ t \in Seq(Request) /\ Len(s) \in Nat /\ Len(t) = Len(s) + 1
      /\ t[Len(s) + 1] = n + 1
      /\ \A i \in 1 .. Len(s) : t[i] = s[i] /\ s[i] \in Request
  OBVIOUS
<1>2. \A i \in 1 .. Len(t) : i \in 1 .. Len(s) \/ i = Len(s) + 1
  BY <1>1
<1> HIDE DEF t
<1>3. Ordered(t, n + 1)
  <2>1. \A i \in 1 .. Len(s) : t[i] < n + 1
    <3>1. \A i \in 1 .. Len(s) : s[i] \in Nat /\ s[i] <= n /\ t[i] = s[i]
      BY <1>1 DEF Ordered
    <3> QED
      BY <3>1
  <2>2. \A i \in 1 .. Len(t) : t[i] <= n + 1
    BY <1>1, <1>2, <2>1, SMTT(30)
  <2>3. ASSUME NEW i \in 1 .. Len(t), NEW j \in 1 .. Len(t), i < j PROVE t[i] < t[j]
    <3>1. i \in 1 .. Len(s)
      BY <1>1, <2>3
    <3>2. CASE j = Len(s) + 1
      BY <1>1, <2>1, <3>1, <3>2
    <3>3. CASE j \in 1 .. Len(s)
      <4>1. s[i] < s[j] /\ t[i] = s[i] /\ t[j] = s[j]
        BY <1>1, <2>3, <3>1, <3>3 DEF Ordered
      <4> QED
        BY <4>1
    <3> QED
      BY <1>2, <3>2, <3>3
  <2> QED
    BY <2>2, <2>3 DEF Ordered
<1>4. Holds(t, n + 1)
  BY <1>1 DEF Holds
<1>5. \A r \in Request : Holds(s, r) => Holds(t, r)
  BY <1>1 DEF Holds
<1> QED
  BY <1>1, <1>3, <1>4, <1>5 DEF t

LEMMA LaterOrdered ==
    ASSUME NEW s \in Seq(Request), NEW n \in Nat, Ordered(s, n)
    PROVE  Ordered(s, n + 1)
<1> \A i \in 1 .. Len(s) : s[i] \in Nat
  BY HtmlAssumption DEF HtmlAssumption, Request
<1> QED
  BY DEF Ordered

LEMMA TailOrdered ==
    ASSUME NEW s \in Seq(Request), NEW n \in Nat, Ordered(s, n), s # <<>>
    PROVE  Tail(s) \in Seq(Request) /\ Ordered(Tail(s), n)
BY HtmlAssumption DEF HtmlAssumption, Ordered, Request

LEMMA HeadFirst ==
    ASSUME NEW s \in Seq(Request), NEW n \in Nat, Ordered(s, n), s # <<>>,
           NEW r \in Request, Holds(s, r)
    PROVE  Head(s) \in Request /\ Head(s) <= r
<1>1. /\ Len(s) \in Nat \ {0} /\ Head(s) = s[1]
      /\ \A i \in 1 .. Len(s) : s[i] \in Request
  OBVIOUS
<1>2. \A i \in 1 .. Len(s) : s[i] \in Nat
  BY <1>1, HtmlAssumption DEF HtmlAssumption, Request
<1>3. PICK i \in 1 .. Len(s) : s[i] = r
  BY DEF Holds
<1>4. i = 1 \/ 1 < i
  BY <1>1
<1> QED
  BY <1>1, <1>2, <1>3, <1>4 DEF Ordered

LEMMA Initially == Init => Inv
<1> SUFFICES ASSUME Init PROVE Inv
  OBVIOUS
<1> USE HtmlAssumption DEF HtmlAssumption, Init
<1>1. TypeOK
  <2>1. <<>> \in Seq(Request)
    OBVIOUS
  <2>2. /\ unsent \in [Address -> Seq(Request)] /\ pending \in [Address -> Seq(Request)]
        /\ \A a \in Address : unsent[a] = <<>> /\ pending[a] = <<>>
    BY <2>1
  <2>3. /\ state \in [Address -> States]
        /\ listening \in [Address -> SUBSET Request]
        /\ alarmed \in [Address -> SUBSET Request]
    BY DEF States
  <2>4. /\ asked \in [Request -> Address \cup {NoAddress}]
        /\ by \in [Request -> Address \cup {NoAddress}]
        /\ got \in [Request -> 0 .. MaxRequest]
    OBVIOUS
  <2>5. text \in Address \cup {NoAddress, Unparsable} /\ requests \in 0 .. MaxRequest
    OBVIOUS
  <2>6. getting \in BOOLEAN /\ misled \in BOOLEAN /\ silent \in BOOLEAN /\ hung = {}
    OBVIOUS
  <2> HIDE DEF Init
  <2> QED
    BY <2>2, <2>3, <2>4, <2>5, <2>6 DEF TypeOK
<1>2. Waiting
  BY EmptyOrdered DEF Waiting, WaitingAt
<1> QED
  BY <1>1, <1>2 DEF Inv, Apart, ApartAt, Made, OwnAnswer

\* A click that makes a request, and each task of a socket.
LEMMA TypeKept == TypeOK /\ [Next]_vars => TypeOK'
<1> SUFFICES ASSUME TypeOK, [Next]_vars PROVE TypeOK'
  OBVIOUS
<1> USE HtmlAssumption DEF HtmlAssumption, page, sockets, answers
<1>1. CASE Edit
  BY <1>1 DEF Edit, TypeOK
<1>2. CASE ClickNoAddress
  BY <1>2 DEF ClickNoAddress, TypeOK
<1>3. CASE ClickAddress
  <2> DEFINE r == requests + 1
  <2>1. r \in Request /\ r \in 0 .. MaxRequest /\ text \in Address
    BY <1>3 DEF ClickAddress, Request, TypeOK
  <2>2. /\ requests' = r /\ getting' = TRUE
        /\ asked' = [asked EXCEPT ![r] = text]
        /\ UNCHANGED <<text, hung, got, by, misled>>
    BY <1>3 DEF ClickAddress, Socket
  <2>3. /\ state' \in [Address -> States]
        /\ listening' \in [Address -> SUBSET Request]
        /\ alarmed' \in [Address -> SUBSET Request]
    BY <1>3, <2>1 DEF ClickAddress, Socket, TypeOK, States
  <2>4. /\ unsent' \in [Address -> Seq(Request)] /\ pending' \in [Address -> Seq(Request)]
        /\ silent' \in BOOLEAN
    <3>1. /\ unsent' \in {unsent, [unsent EXCEPT ![text] = Append(@, r)]}
          /\ pending' \in {pending, [pending EXCEPT ![text] = Append(@, r)]}
          /\ silent' \in {silent, (text \in hung)}
      BY <1>3 DEF ClickAddress, Socket
    <3>2. /\ unsent' \in [Address -> Seq(Request)]
          /\ pending' \in [Address -> Seq(Request)]
      <4>1. ASSUME NEW q \in [Address -> Seq(Request)], NEW e \in Request
            PROVE  [q EXCEPT ![text] = Append(@, e)] \in [Address -> Seq(Request)]
        <5>1. q[text] \in Seq(Request)
          BY <2>1
        <5>2. Append(q[text], e) \in Seq(Request)
          BY <5>1
        <5> QED
          BY <5>2
      <4>2. /\ [unsent EXCEPT ![text] = Append(@, r)] \in [Address -> Seq(Request)]
            /\ [pending EXCEPT ![text] = Append(@, r)] \in [Address -> Seq(Request)]
        BY <2>1, <4>1 DEF TypeOK
      <4>3. unsent \in [Address -> Seq(Request)] /\ pending \in [Address -> Seq(Request)]
        BY DEF TypeOK
      <4> HIDE DEF r
      <4> QED
        BY <3>1, <4>2, <4>3
    <3>3. silent' \in BOOLEAN
      <4>1. (text \in hung) \in BOOLEAN
        OBVIOUS
      <4> QED
        BY <3>1, <4>1 DEF TypeOK
    <3> QED
      BY <3>2, <3>3
  <2>5. \A a \in Address : /\ unsent'[a] # <<>> => state'[a] = "connecting"
                           /\ pending'[a] # <<>> => state'[a] = "open"
    BY <1>3, <2>1 DEF ClickAddress, Socket, Dead, TypeOK
  <2>6. \A a \in hung : pending'[a] # <<>>
    <3>1. Append(pending[text], r) # <<>>
      <4>1. ASSUME NEW s \in Seq(Request) PROVE Append(s, r) # <<>>
        BY <2>1
      <4> QED
        BY <2>1, <4>1 DEF TypeOK
    <3>2. \A a \in Address : pending'[a] \in {pending[a], Append(pending[a], r)}
      BY <1>3, <2>1 DEF ClickAddress, Socket, TypeOK
    <3>3. \A a \in Address : a # text => pending'[a] = pending[a]
      BY <1>3, <2>1 DEF ClickAddress, Socket, TypeOK
    <3> QED
      BY <3>1, <3>2, <3>3 DEF TypeOK
  <2> QED
    BY <2>1, <2>2, <2>3, <2>4, <2>5, <2>6 DEF TypeOK
<1>4. ASSUME NEW a \in Address, Opens(a) PROVE TypeOK'
  BY <1>4 DEF Opens, TypeOK, States
<1>5. ASSUME NEW a \in Address, Answer(a) PROVE TypeOK'
  <2>1. Head(pending[a]) \in Request /\ Tail(pending[a]) \in Seq(Request)
    BY <1>5 DEF Answer, Delivers, Serves, TypeOK
  <2>2. /\ got' \in [Request -> 0 .. MaxRequest] /\ by' \in [Request -> Address \cup {NoAddress}]
        /\ getting' \in BOOLEAN
    <3>1. Head(pending[a]) \in 0 .. MaxRequest
      BY <2>1, HtmlAssumption DEF HtmlAssumption, Request
    <3>2. got \in [Request -> 0 .. MaxRequest] /\ by \in [Request -> Address \cup {NoAddress}]
      BY DEF TypeOK
    <3>3. /\ got' = [s \in Request |-> IF s \in listening[a] THEN Head(pending[a]) ELSE got[s]]
          /\ by' = [s \in Request |-> IF s \in listening[a] THEN a ELSE by[s]]
          /\ getting' = (getting /\ listening[a] = {})
      BY <1>5, Zenon DEF Answer, Delivers
    <3>4. got' \in [Request -> 0 .. MaxRequest]
      BY <3>1, <3>2, <3>3
    <3>5. by' \in [Request -> Address \cup {NoAddress}]
      BY <3>2, <3>3
    <3>6. getting' \in BOOLEAN
      BY <3>3
    <3> QED
      BY <3>4, <3>5, <3>6
  <2> QED
    BY <1>5, <2>1, <2>2 DEF Answer, Delivers, Serves, TypeOK
<1>6. ASSUME NEW a \in Address, Closing(a) PROVE TypeOK'
  BY <1>6 DEF Closing, TypeOK, States
<1>7. ASSUME NEW a \in Address, Fails(a) PROVE TypeOK'
  BY <1>7 DEF Fails, Closed, WaitsAt, TypeOK, States
<1>8. ASSUME NEW a \in Address, ClosesQuietly(a) PROVE TypeOK'
  BY <1>8 DEF ClosesQuietly, Closed, WaitsAt, TypeOK, States
<1>9. ASSUME NEW a \in Address, AnswerUndecoded(a) PROVE TypeOK'
  <2>1. Tail(pending[a]) \in Seq(Request)
    BY <1>9 DEF AnswerUndecoded, Serves, TypeOK
  <2> QED
    BY <1>9, <2>1 DEF AnswerUndecoded, Serves, WaitsAt, TypeOK
<1>10. ASSUME NEW a \in Address, Hangs(a) PROVE TypeOK'
  BY <1>10 DEF Hangs, WaitsAt, TypeOK
<1>11. CASE UNCHANGED vars
  BY <1>11 DEF vars, TypeOK
<1> QED
  BY <1>1, <1>2, <1>3, <1>4, <1>5, <1>6, <1>7, <1>8, <1>9, <1>10, <1>11 DEF Next

LEMMA WaitingKept == TypeOK /\ TypeOK' /\ Waiting /\ [Next]_vars => Waiting'
<1> SUFFICES ASSUME TypeOK, TypeOK', Waiting, [Next]_vars, NEW b \in Address
             PROVE WaitingAt(b)'
  BY DEF Waiting
<1>0. WaitingAt(b)
  BY DEF Waiting
<1>n. requests \in Nat /\ requests + 1 \in Nat
  BY HtmlAssumption DEF HtmlAssumption, TypeOK
<1> USE DEF page, sockets, answers
<1>1. CASE Edit
  BY <1>0, <1>1 DEF Edit, WaitingAt
<1>2. CASE ClickNoAddress
  BY <1>0, <1>2 DEF ClickNoAddress, WaitingAt
<1>3. CASE ClickAddress
  <2> DEFINE r == requests + 1
  <2>1. r \in Request /\ text \in Address
    BY <1>3, HtmlAssumption DEF HtmlAssumption, ClickAddress, Request, TypeOK
  <2>2. requests' = r /\ asked' = [asked EXCEPT ![r] = text]
    BY <1>3 DEF ClickAddress, Socket
  <2>3. Ordered(unsent[b], r) /\ Ordered(pending[b], r)
    BY <1>0, <1>n, LaterOrdered DEF WaitingAt, TypeOK
  <2>4. ASSUME NEW q \in listening[b]
        PROVE  q \in Request /\ q <= r /\ q # r /\ asked'[q] = b
    <3>1. q \in Request /\ q \in Nat /\ q <= requests /\ asked[q] = b
      BY <1>0, HtmlAssumption DEF HtmlAssumption, WaitingAt, TypeOK, Request
    <3> QED
      BY <1>n, <2>2, <3>1 DEF TypeOK
  <2>5. CASE b # text
    <3>1. /\ state'[b] = state[b] /\ listening'[b] = listening[b]
          /\ unsent'[b] = unsent[b] /\ pending'[b] = pending[b]
      BY <1>3, <2>5 DEF ClickAddress, Socket, TypeOK
    <3> QED
      BY <1>0, <2>2, <2>3, <2>4, <3>1 DEF WaitingAt
  <2>6. CASE b = text
    <3>1. asked'[r] = b /\ r <= r
      BY <1>n, <2>1, <2>2, <2>6 DEF TypeOK
    <3>2. /\ Ordered(Append(unsent[b], r), r) /\ Holds(Append(unsent[b], r), r)
          /\ \A q \in Request : Holds(unsent[b], q) => Holds(Append(unsent[b], r), q)
          /\ Ordered(Append(pending[b], r), r) /\ Holds(Append(pending[b], r), r)
          /\ \A q \in Request : Holds(pending[b], q) => Holds(Append(pending[b], r), q)
      BY <1>0, <1>n, <2>1, AppendOrdered DEF WaitingAt, TypeOK
    <3>3. CASE Dead(state[b])
      <4>1. /\ state'[b] = "connecting" /\ listening'[b] = {r}
            /\ unsent'[b] = Append(unsent[b], r) /\ pending'[b] = pending[b]
        BY <1>3, <2>1, <2>6, <3>3 DEF ClickAddress, Socket, TypeOK
      <4> QED
        BY <2>2, <2>3, <3>1, <3>2, <4>1 DEF WaitingAt
    <3>4. CASE ~Dead(state[b])
      <4>1. state'[b] = state[b] /\ listening'[b] = listening[b] \cup {r}
        BY <1>3, <2>1, <2>6, <3>4 DEF ClickAddress, Socket, TypeOK
      <4>2. \/ /\ state[b] = "connecting"
               /\ unsent'[b] = Append(unsent[b], r) /\ pending'[b] = pending[b]
            \/ /\ state[b] = "open"
               /\ unsent'[b] = unsent[b] /\ pending'[b] = Append(pending[b], r)
            \/ /\ state[b] = "closing"
               /\ unsent'[b] = unsent[b] /\ pending'[b] = pending[b]
        BY <1>3, <2>1, <2>6, <3>4, <4>1 DEF ClickAddress, Socket, TypeOK
      <4>3. Ordered(unsent'[b], r) /\ Ordered(pending'[b], r)
        BY <2>3, <3>2, <4>2
      <4>4. ASSUME NEW q \in listening'[b]
            PROVE  /\ q <= r /\ asked'[q] = b
                   /\ state'[b] = "connecting" => Holds(unsent'[b], q)
                   /\ state'[b] = "open" => Holds(pending'[b], q)
        <5>1. CASE q = r
          BY <3>1, <3>2, <4>1, <4>2, <5>1
        <5>2. CASE q \in listening[b]
          <6>1. /\ state[b] = "connecting" => Holds(unsent[b], q)
                /\ state[b] = "open" => Holds(pending[b], q)
            BY <1>0, <5>2 DEF WaitingAt
          <6> QED
            BY <2>4, <3>2, <4>1, <4>2, <5>2, <6>1
        <5> QED
          BY <4>1, <5>1, <5>2
      <4> QED
        BY <2>2, <4>3, <4>4 DEF WaitingAt
    <3> QED
      BY <3>3, <3>4
  <2> QED
    BY <2>5, <2>6
<1>4. ASSUME NEW a \in Address, Opens(a) PROVE WaitingAt(b)'
  <2>1. CASE a = b
    <3>1. /\ state[b] = "connecting" /\ state'[b] = "open"
          /\ pending'[b] = unsent[b] /\ unsent'[b] = <<>>
          /\ UNCHANGED <<requests, asked, listening>>
      BY <1>4, <2>1 DEF Opens, TypeOK
    <3> QED
      BY <1>0, <3>1, EmptyOrdered DEF WaitingAt
  <2>2. CASE a # b
    BY <1>0, <1>4, <2>2 DEF Opens, WaitingAt, TypeOK
  <2> QED
    BY <2>1, <2>2
<1>5. ASSUME NEW a \in Address, Answer(a) \/ AnswerUndecoded(a) PROVE WaitingAt(b)'
  <2>0. Serves(a) /\ listening' = [listening EXCEPT ![a] = {}]
    BY <1>5 DEF Answer, Delivers, AnswerUndecoded
  <2>1. CASE a = b
    <3>1. /\ pending[b] # <<>> /\ pending'[b] = Tail(pending[b])
          /\ listening'[b] = {} /\ UNCHANGED <<requests, unsent>>
      BY <2>0, <2>1 DEF Serves, TypeOK
    <3>2. Ordered(Tail(pending[b]), requests)
      BY <1>0, <1>n, <3>1, TailOrdered DEF WaitingAt, TypeOK
    <3> QED
      BY <1>0, <3>1, <3>2 DEF WaitingAt
  <2>2. CASE a # b
    BY <1>0, <2>0, <2>2 DEF Serves, WaitingAt, TypeOK
  <2> QED
    BY <2>1, <2>2
<1>6. ASSUME NEW a \in Address, Closing(a) PROVE WaitingAt(b)'
  <2>1. CASE a = b
    BY <1>0, <1>6, <2>1, EmptyOrdered DEF Closing, WaitingAt, TypeOK
  <2>2. CASE a # b
    BY <1>0, <1>6, <2>2 DEF Closing, WaitingAt, TypeOK
  <2> QED
    BY <2>1, <2>2
<1>7. ASSUME NEW a \in Address, Closed(a) PROVE WaitingAt(b)'
  <2>1. CASE a = b
    BY <1>0, <1>7, <2>1, EmptyOrdered DEF Closed, WaitingAt, TypeOK
  <2>2. CASE a # b
    BY <1>0, <1>7, <2>2 DEF Closed, WaitingAt, TypeOK
  <2> QED
    BY <2>1, <2>2
<1>8. ASSUME NEW a \in Address, Hangs(a) PROVE WaitingAt(b)'
  BY <1>0, <1>8 DEF Hangs, WaitingAt
<1>9. CASE UNCHANGED vars
  BY <1>0, <1>9 DEF vars, WaitingAt
<1> QED
  BY <1>1, <1>2, <1>3, <1>4, <1>5, <1>6, <1>7, <1>8, <1>9 DEF Next, Fails, ClosesQuietly

LEMMA ApartKept ==
    TypeOK /\ TypeOK' /\ Waiting /\ Apart /\ [Next]_vars => Apart'
<1> SUFFICES ASSUME TypeOK, TypeOK', Waiting, Apart, [Next]_vars, ~misled',
                    NEW b \in Address
             PROVE ApartAt(b)'
  BY DEF Apart
<1> USE DEF page, sockets, answers
<1>0. ~misled /\ \A a \in Address : ApartAt(a)
  <2>1. misled => misled'
    BY DEF Next, vars, Edit, ClickNoAddress, ClickAddress, Opens, Answer, Delivers, Serves,
           AnswerUndecoded, Hangs, Closing, Fails, ClosesQuietly
  <2> QED
    BY <2>1 DEF Apart
\* The sockets other than the one at which the last request waits are idle.
<1>a. ASSUME NEW a \in Address, requests \in listening[a], a # b
      PROVE  listening[b] = {} /\ unsent[b] = <<>> /\ pending[b] = <<>>
  <2>1. asked[requests] = a
    BY <1>a DEF Waiting, WaitingAt
  <2>2. requests \notin listening[b]
    BY <1>a, <2>1 DEF Waiting, WaitingAt
  <2> QED
    BY <1>0, <2>2 DEF ApartAt
<1>1. CASE Edit
  BY <1>0, <1>1 DEF Edit, ApartAt
<1>2. CASE ClickNoAddress
  BY <1>0, <1>2 DEF ClickNoAddress, Clicks, ApartAt
<1>3. CASE ClickAddress
  <2> DEFINE r == requests + 1
  <2>1. /\ listening[b] = {} /\ unsent[b] = <<>> /\ pending[b] = <<>>
        /\ getting' /\ requests' = r /\ text \in Address
    BY <1>0, <1>3 DEF ClickAddress, Clicks, Socket, ApartAt
  <2>2. Append(<<>>, r) = <<r>>
    OBVIOUS
  <2>3. CASE b # text
    BY <1>3, <2>1, <2>3, SMTT(30) DEF ClickAddress, Socket, ApartAt, TypeOK
  <2>4. CASE b = text
    <3>1. listening'[b] = {r}
      BY <1>3, <2>1, <2>4 DEF ClickAddress, Socket, TypeOK
    <3>2. /\ unsent'[b] \in {<<>>, <<r>>} /\ pending'[b] \in {<<>>, <<r>>}
      BY <1>3, <2>1, <2>2, <2>4 DEF ClickAddress, Socket, TypeOK
    <3> QED
      BY <2>1, <3>1, <3>2 DEF ApartAt
  <2> QED
    BY <2>3, <2>4
<1>4. ASSUME NEW a \in Address, Opens(a) PROVE ApartAt(b)'
  <2>1. CASE a = b
    <3>1. /\ pending'[b] = unsent[b] /\ unsent'[b] = <<>>
          /\ UNCHANGED <<requests, getting, listening>>
      BY <1>4, <2>1 DEF Opens, TypeOK
    <3> QED
      BY <1>0, <3>1 DEF ApartAt
  <2>2. CASE a # b
    BY <1>0, <1>4, <2>2 DEF Opens, ApartAt, TypeOK
  <2> QED
    BY <2>1, <2>2
<1>5. ASSUME NEW a \in Address, Answer(a) \/ AnswerUndecoded(a) PROVE ApartAt(b)'
  <2>0. Serves(a) /\ listening' = [listening EXCEPT ![a] = {}]
    BY <1>5 DEF Answer, Delivers, AnswerUndecoded
  <2>1. listening[a] = {requests} /\ pending[a] = <<requests>>
    BY <1>0, <2>0 DEF Serves, ApartAt
  <2>2. CASE a = b
    <3>1. /\ pending'[b] = Tail(pending[b]) /\ listening'[b] = {} /\ unsent'[b] = unsent[b]
      BY <2>0, <2>2 DEF Serves, TypeOK
    <3>2. Tail(<<requests>>) = <<>> /\ state[b] = "open"
      BY <2>0, <2>2 DEF Serves
    <3>3. unsent[b] = <<>>
      BY <3>2 DEF TypeOK
    <3> QED
      BY <2>1, <2>2, <3>1, <3>2, <3>3 DEF ApartAt
  <2>3. CASE a # b
    <3>1. listening[b] = {} /\ unsent[b] = <<>> /\ pending[b] = <<>>
      BY <1>a, <2>1, <2>3
    <3>2. listening'[b] = {} /\ unsent'[b] = <<>> /\ pending'[b] = <<>>
      BY <2>0, <2>3, <3>1 DEF Serves, TypeOK
    <3> QED
      BY <3>2 DEF ApartAt
  <2> QED
    BY <2>2, <2>3
<1>6. ASSUME NEW a \in Address, Closing(a) PROVE ApartAt(b)'
  <2>1. /\ unsent'[b] = unsent[b] /\ pending'[b] \in {<<>>, pending[b]}
        /\ UNCHANGED <<requests, getting, listening>>
    BY <1>6 DEF Closing, TypeOK
  <2> QED
    BY <1>0, <2>1 DEF ApartAt
<1>7. ASSUME NEW a \in Address, Fails(a) PROVE ApartAt(b)'
  <2>1. CASE a = b
    BY <1>7, <2>1 DEF Fails, Closed, ApartAt, TypeOK
  <2>2. CASE a # b
    <3>1. /\ listening'[b] = listening[b] /\ unsent'[b] = unsent[b]
          /\ pending'[b] = pending[b] /\ requests' = requests
      BY <1>7, <2>2 DEF Fails, Closed, TypeOK
    <3>2. CASE getting' = getting
      BY <1>0, <3>1, <3>2 DEF ApartAt
    <3>3. CASE getting /\ ~getting'
      <4>1. requests \in listening[a]
        BY <1>7, <3>3 DEF Fails, WaitsAt
      <4> QED
        BY <1>a, <2>2, <3>1, <4>1 DEF ApartAt
    <3> QED
      BY <1>7, <3>2, <3>3 DEF Fails, TypeOK
  <2> QED
    BY <2>1, <2>2
<1>8. ASSUME NEW a \in Address, ClosesQuietly(a) PROVE ApartAt(b)'
  <2>1. CASE a = b
    BY <1>8, <2>1 DEF ClosesQuietly, Closed, ApartAt, TypeOK
  <2>2. CASE a # b
    BY <1>0, <1>8, <2>2 DEF ClosesQuietly, Closed, ApartAt, TypeOK
  <2> QED
    BY <2>1, <2>2
<1>9. ASSUME NEW a \in Address, Hangs(a) PROVE ApartAt(b)'
  BY <1>0, <1>9 DEF Hangs, ApartAt
<1>10. CASE UNCHANGED vars
  BY <1>0, <1>10 DEF vars, ApartAt
<1> QED
  BY <1>1, <1>2, <1>3, <1>4, <1>5, <1>6, <1>7, <1>8, <1>9, <1>10 DEF Next

\* What an answer gives to those who wait for it; nothing else gives any.
LEMMA AnswersKept ==
    TypeOK /\ TypeOK' /\ Waiting /\ Apart /\ Made /\ OwnAnswer /\ [Next]_vars
    => Made' /\ OwnAnswer'
<1> SUFFICES ASSUME TypeOK, TypeOK', Waiting, Apart, Made, OwnAnswer, [Next]_vars,
                    NEW q \in Request, got'[q] # 0
             PROVE  /\ q <= requests' /\ by'[q] = asked'[q]
                    /\ got'[q] <= q /\ (~misled' => got'[q] = q)
  BY DEF Made, OwnAnswer
<1> USE DEF page, sockets, answers
<1>n. requests \in Nat /\ q \in Nat
  BY HtmlAssumption DEF HtmlAssumption, TypeOK, Request
<1>1. CASE /\ got'[q] = got[q] /\ by'[q] = by[q] /\ (misled => misled')
           /\ \/ requests' = requests /\ asked' = asked
              \/ ClickAddress
  <2>1. /\ got[q] # 0 /\ q <= requests /\ by[q] = asked[q]
        /\ got[q] <= q /\ (~misled' => got[q] = q)
    BY <1>1 DEF Made, OwnAnswer
  <2>2. q <= requests' /\ asked'[q] = asked[q]
    BY <1>1, <1>n, <2>1 DEF ClickAddress, Socket, TypeOK
  <2> QED
    BY <1>1, <2>1, <2>2
<1>2. ASSUME NEW a \in Address, Answer(a), q \in listening[a]
      PROVE  /\ q <= requests' /\ by'[q] = asked'[q]
             /\ got'[q] <= q /\ (~misled' => got'[q] = q)
  <2>1. /\ got'[q] = Head(pending[a]) /\ by'[q] = a /\ pending[a] # <<>>
        /\ state[a] = "open" /\ UNCHANGED <<requests, asked, misled>>
    BY <1>2 DEF Answer, Delivers, Serves
  <2>2. /\ q <= requests /\ asked[q] = a /\ Ordered(pending[a], requests)
        /\ Holds(pending[a], q)
    BY <1>2, <2>1 DEF Waiting, WaitingAt
  <2>3. Head(pending[a]) <= q
    BY <1>n, <2>1, <2>2, HeadFirst DEF TypeOK
  <2>4. ASSUME ~misled PROVE Head(pending[a]) = q
    <3>1. listening[a] = {requests} /\ pending[a] = <<requests>>
      BY <2>1, <2>4 DEF Apart, ApartAt
    <3> QED
      BY <1>2, <3>1
  <2> QED
    BY <2>1, <2>2, <2>3, <2>4
<1>3. CASE \E a \in Address : Answer(a)
  <2> PICK a \in Address : Answer(a)
    BY <1>3
  <2>1. CASE q \in listening[a]
    BY <1>2, <2>1
  <2>2. CASE q \notin listening[a]
    BY <1>1, <2>2 DEF Answer, Delivers, Serves
  <2> QED
    BY <2>1, <2>2
<1>4. CASE \E a \in Address : Fails(a)
  BY <1>1, <1>4 DEF Fails, Closed
<1>5. CASE Edit \/ ClickNoAddress \/ UNCHANGED vars
  BY <1>1, <1>5 DEF Edit, ClickNoAddress, vars
<1>7. CASE ClickAddress
  <2>1. UNCHANGED <<got, by, misled>>
    BY <1>7 DEF ClickAddress
  <2> QED
    BY <1>1, <1>7, <2>1
<1>6. CASE \E a \in Address :
           Opens(a) \/ AnswerUndecoded(a) \/ Hangs(a) \/ Closing(a) \/ ClosesQuietly(a)
  BY <1>1, <1>6 DEF Opens, AnswerUndecoded, Serves, Hangs, Closing, ClosesQuietly, Closed
<1> QED
  BY <1>3, <1>4, <1>5, <1>6, <1>7 DEF Next

LEMMA Invariance == Spec => []Inv
<1>1. Inv /\ [Next]_vars => Inv'
  BY TypeKept, WaitingKept, ApartKept, AnswersKept DEF Inv
<1> QED
  BY Initially, <1>1, PTL DEF Spec

\* The page and its sockets have values of their types, and only a socket that
\* connects has requests that are not sent, only an open one some to answer.
THEOREM HtmlTypeCorrect == Spec => []TypeOK
<1>1. Inv => TypeOK
  BY DEF Inv
<1> QED
  BY Invariance, <1>1, PTL

\* What is shown for a request comes from the server that it was made to, is
\* never the answer to a later one, and is its own unless an error listener
\* that outlived its answer unlocked the button (html/src/index.js, lines
\* 84-115; html/index.html, lines 44-66).
THEOREM AnswersAreOwn == Spec => []OwnAnswer
<1>1. Inv => OwnAnswer
  BY DEF Inv
<1> QED
  BY Invariance, <1>1, PTL
=============================================================================
