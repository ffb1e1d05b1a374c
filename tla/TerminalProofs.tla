----------------------------- MODULE TerminalProofs -----------------------------
(* Theorems about TerminalClient, for every set of terminals and names, every *)
(* thing the users may enter and every bound.                                 *)
EXTENDS TerminalProperties, TLAPS

-----------------------------------------------------------------------------
(* What the lines and the messages are made of.                               *)

LEMMA LineType ==
  /\ UsersLine \in Line /\ [cmd |-> "/quit"] \in Line
  /\ \A x \in Name, k \in MaybeKey : [cmd |-> "text", to |-> x, key |-> k] \in Line
  /\ \A x \in Names :
       /\ [cmd |-> "/getkey", to |-> x] \in Line
       /\ [cmd |-> "/tell", to |-> x] \in Line
       /\ [cmd |-> "/kick", to |-> x] \in Line
  /\ \A s \in Seal : EtellLine(s) \in Line
BY DEF Line, UsersLine, EtellLine, Seal

LEMMA TypeOfLine ==
  \A l \in Line :
    /\ l.cmd \in {"text", "/users", "/quit", "/pubkey", "/getkey", "/tell", "/kick", "/etell"}
    /\ l.cmd = "text" => l.to \in Name /\ l.key \in MaybeKey
    /\ l.cmd = "/pubkey" => l.key \in KeyText
    /\ l.cmd \in {"/getkey", "/tell", "/kick", "/etell"} => l.to \in Names
    /\ l.cmd = "/etell" => l.seal \in Seal
BY DEF Line

LEMMA AnswerType ==
  /\ \A x \in Names, k \in KeyText : [kind |-> "key", of |-> x, key |-> k] \in Answer
  /\ \A x \in Names : [kind |-> "nokey", of |-> x] \in Answer
  /\ \A S \in SUBSET (Names \X BOOLEAN) : [kind |-> "users", list |-> S] \in Answer
BY DEF Answer

LEMMA DeliveryType ==
  /\ Presence \in Delivery
  /\ \A x \in Names, s \in Seal : [kind |-> "sealed", from |-> x, seal |-> s] \in Delivery
  /\ KickClient \notin Delivery
BY DEF Delivery, Presence, KickClient

(* What the kind of a message to a terminal says of its other fields.         *)
LEMMA TypeOfMessage ==
  \A m \in Delivery \cup Answer :
    /\ m.kind = "sealed" => m.from \in Names /\ m.seal \in Seal
    /\ m.kind = "key" => m.of \in Names /\ m.key \in KeyText
    /\ m.kind = "nokey" => m.of \in Names
    /\ m.kind = "users" => m.list \in SUBSET (Names \X BOOLEAN)
BY DEF Delivery, Answer

LEMMA SealType ==
  ASSUME NEW t \in Terminal, NEW x \in Names, NEW nr \in Nat, NEW k \in KeyText
  PROVE  /\ EncryptMessage(t, x, nr, k) \in Seal
         /\ EncryptMessage(t, x, nr, k).by = t /\ EncryptMessage(t, x, nr, k).to = x
         /\ EncryptMessage(t, x, nr, k).nr = nr /\ EncryptMessage(t, x, nr, k).key = k
BY DEF EncryptMessage, Seal

LEMMA PassedOnType ==
  ASSUME NEW t \in Terminal, NEW e \in Entry, e.cmd \notin {"/tell", "/quit"}
  PROVE  PassedOn(t, e) \in Line
<1>1. CASE e.cmd = "/plain"
  <2>1. PassedOn(t, e) = [cmd |-> "/tell", to |-> e.to]
    BY <1>1 DEF PassedOn
  <2>2. e.to \in Names
    BY <1>1 DEF Entry
  <2> QED BY <2>1, <2>2, LineType
<1>2. CASE e.cmd = "/etell"
  <2>1. PassedOn(t, e) = EtellLine(EncryptMessage(t, e.to, 0, e.key))
    BY <1>2 DEF PassedOn
  <2>2. e.to \in Names /\ e.key \in KeyText
    BY <1>2 DEF Entry
  <2>3. EncryptMessage(t, e.to, 0, e.key) \in Seal
    BY <2>2, SealType
  <2> QED BY <2>1, <2>3, LineType
<1>3. CASE e.cmd \notin {"/plain", "/etell"}
  <2>1. PassedOn(t, e) = e
    BY <1>3 DEF PassedOn
  <2> QED BY <1>3, <2>1 DEF Entry, Line
<1> QED BY <1>1, <1>2, <1>3

LEMMA SeqType ==
  ASSUME NEW S, NEW x \in S, NEW s \in Seq(S), NEW r \in Seq(S)
  PROVE  <<x>> \in Seq(S) /\ Append(s, x) \in Seq(S) /\ s \o r \in Seq(S)
OBVIOUS

LEMMA NamesType ==
  /\ Name \subseteq Names /\ Command \subseteq Names
  /\ NoName \notin Names /\ Nobody \notin Terminal
  /\ Keys \subseteq KeyText /\ KeyText = Keys \cup {Garbled} /\ MaybeKey = KeyText \cup {NoKey}
  /\ NoKey \notin KeyText /\ Garbled \notin Keys /\ Terminal \subseteq Keys
  /\ Nick \in [Terminal -> Names]
BY TerminalAssumption, TerminalMarkers DEF Names, Keys, KeyText, MaybeKey

-----------------------------------------------------------------------------
(* What sending and receiving do to the types of the queues.                  *)

LEMMA SendsType ==
  ASSUME TypeOK, NEW t \in Terminal, NEW lns \in Seq(Line), Sends(t, lns)
  PROVE  toServer' \in [Terminal -> Seq(Line)]
<1>1. toServer[t] \o lns \in Seq(Line)
  BY DEF TypeOK
<1> QED BY <1>1 DEF TypeOK, Sends

LEMMA WritesType ==
  ASSUME TypeOK, NEW t \in Terminal, NEW m \in Delivery \cup Answer, Writes(t, m)
  PROVE  toTerm' \in [Terminal -> Seq(Delivery \cup Answer)]
<1>1. Append(toTerm[t], m) \in Seq(Delivery \cup Answer)
  BY DEF TypeOK
<1> QED BY <1>1 DEF TypeOK, Writes

LEMMA DeliveredType ==
  ASSUME TypeOK, NEW S, NEW m \in Delivery \cup {KickClient}
  PROVE  Delivered(S, m) \in [Terminal -> Seq(Delivery \cup {KickClient})]
BY DEF TypeOK, Delivered

LEMMA TakesType ==
  ASSUME TypeOK, NEW t \in Terminal, NEW k, Takes(t, k)
  PROVE  /\ toTerm' \in [Terminal -> Seq(Delivery \cup Answer)]
         /\ Head(toTerm[t]) \in Delivery \cup Answer
         /\ Head(toTerm[t]).kind = k
BY DEF TypeOK, Takes

LEMMA ReadsType ==
  ASSUME TypeOK, NEW t \in Terminal, NEW c, Reads(t, c)
  PROVE  /\ toServer' \in [Terminal -> Seq(Line)]
         /\ Head(toServer[t]) \in Line
BY DEF TypeOK, Reads

LEMMA FlushedType ==
  ASSUME TypeOK, NEW t \in Terminal, NEW x \in Names, NEW k \in KeyText
  PROVE  /\ Flushed(t, x, k) \in Seq(Seal)
         /\ Len(Flushed(t, x, k)) = Len(pending[t][x])
         /\ \A i \in 1..Len(pending[t][x]) :
              Flushed(t, x, k)[i] = EncryptMessage(t, x, pending[t][x][i], k)
         /\ [i \in 1..Len(pending[t][x]) |-> EtellLine(Flushed(t, x, k)[i])] \in Seq(Line)
<1>1. pending[t][x] \in Seq(Nat) /\ Len(pending[t][x]) \in Nat
  BY DEF TypeOK
<1>2. \A i \in 1..Len(pending[t][x]) :
        /\ EncryptMessage(t, x, pending[t][x][i], k) \in Seal
        /\ EtellLine(EncryptMessage(t, x, pending[t][x][i], k)) \in Line
  <2> SUFFICES ASSUME NEW i \in 1..Len(pending[t][x])
               PROVE  /\ EncryptMessage(t, x, pending[t][x][i], k) \in Seal
                      /\ EtellLine(EncryptMessage(t, x, pending[t][x][i], k)) \in Line
    OBVIOUS
  <2>1. pending[t][x][i] \in Nat
    BY <1>1
  <2>2. EncryptMessage(t, x, pending[t][x][i], k) \in Seal
    BY <2>1, SealType
  <2> QED BY <2>2, LineType
<1> QED BY <1>1, <1>2 DEF Flushed

-----------------------------------------------------------------------------
(* Type correctness.                                                          *)

(* An actor past the prompt has a name: what it passes on is well typed.      *)
Named ==
  \A t \in Terminal : conn[t] \in {"chatting", "leaving"} => nick[t] \in Names

TypeInv == TypeOK /\ Named

LEMMA TypeInit == Init => TypeInv
<1> SUFFICES ASSUME Init PROVE TypeInv
  OBVIOUS
<1>1. /\ asked \in [Terminal -> [Names -> Nat]]
      /\ typed \in [Terminal -> Nat]
      /\ pending \in [Terminal -> [Names -> Seq(Nat)]]
      /\ sent \in [Terminal -> [Names -> Seq(Seal)]]
      /\ read \in [Terminal -> Seq([from : Names, seal : Seal])]
  BY DEF Init
<1>2. /\ unread \in [Terminal -> SUBSET Seal]
      /\ missed \in [Terminal -> SUBSET Names]
      /\ peerKeys \in [Terminal -> [Names -> Keys \cup {NoKey}]]
      /\ tui \in [Terminal -> {"off", "on", "over"}]
  BY DEF Init
<1>3. users \in [Terminal -> SUBSET (Names \X BOOLEAN)]
  <2>1. \A t \in Terminal : <<Nick[t], TRUE>> \in Names \X BOOLEAN
    BY NamesType
  <2>2. \A t \in Terminal : {<<Nick[t], TRUE>>} \in SUBSET (Names \X BOOLEAN)
    BY <2>1
  <2> QED BY <2>2 DEF Init
<1>4. /\ toServer \in [Terminal -> Seq(Line)]
      /\ toTerm \in [Terminal -> Seq(Delivery \cup Answer)]
      /\ conn \in [Terminal -> {"none", "login", "chatting", "leaving", "closed"}]
      /\ nick \in [Terminal -> Names \cup {NoName}]
      /\ inbox \in [Terminal -> Seq(Delivery \cup {KickClient})]
      /\ holder \in [Names -> Terminal \cup {Nobody}]
      /\ key \in [Names -> MaybeKey]
      /\ published \in [Terminal -> SUBSET MaybeKey]
  BY DEF Init, MaybeKey
<1>5. Named
  BY DEF Init, Named
<1> QED BY <1>1, <1>2, <1>3, <1>4, <1>5 DEF TypeOK, TypeInv

(* The steps of a terminal: they leave the actors and the server alone,       *)
(* except that a launch opens the connection.                                 *)
LEMMA UserType ==
  ASSUME TypeInv, NEW t \in Terminal, User(t) \/ SyncTicker(t) \/ Disconnected(t)
  PROVE  TypeInv'
<1> USE DEF TypeInv
<1>1. CASE Launch(t)
  <2>1. <<[cmd |-> "text", to |-> Nick[t], key |-> t], UsersLine>> \in Seq(Line)
    BY LineType, TerminalAssumption, NamesType
  <2>2. toServer' \in [Terminal -> Seq(Line)]
    <3> DEFINE lns == <<[cmd |-> "text", to |-> Nick[t], key |-> t], UsersLine>>
    <3>1. Sends(t, lns)
      BY <1>1 DEF Launch
    <3>2. lns \in Seq(Line)
      BY <2>1
    <3> HIDE DEF lns
    <3> QED BY <3>1, <3>2, SendsType
  <2>3. /\ tui' \in [Terminal -> {"off", "on", "over"}]
        /\ conn' \in [Terminal -> {"none", "login", "chatting", "leaving", "closed"}]
        /\ Named'
    BY <1>1 DEF Launch, TypeOK, Named
  <2> QED BY <1>1, <2>2, <2>3 DEF Launch, TypeOK, shownVars, tableVars
<1>2. CASE SyncTicker(t)
  <2>1. toServer' \in [Terminal -> Seq(Line)]
    <3>1. <<UsersLine>> \in Seq(Line)
      BY LineType, SeqType
    <3> QED BY <1>2, <3>1, SendsType DEF SyncTicker
  <2> QED BY <1>2, <2>1 DEF SyncTicker, TypeOK, Named, tuiVars, shownVars, actorVars, tableVars
<1>3. ASSUME Exits(t)
      PROVE  /\ tui' \in [Terminal -> {"off", "on", "over"}]
             /\ toTerm' \in [Terminal -> Seq(Delivery \cup Answer)]
  <2> DEFINE A == Delivery \cup Answer
  <2>1. tui \in [Terminal -> {"off", "on", "over"}] /\ toTerm \in [Terminal -> Seq(A)]
    BY DEF TypeOK
  <2>2. tui' = [tui EXCEPT ![t] = "over"] /\ toTerm' = [toTerm EXCEPT ![t] = <<>>]
    BY <1>3 DEF Exits
  <2> HIDE DEF A
  <2>3. toTerm' \in [Terminal -> Seq(A)]
    BY ONLY <2>1, <2>2
  <2>4. tui' \in [Terminal -> {"off", "on", "over"}]
    BY ONLY <2>1, <2>2
  <2> QED BY <2>3, <2>4 DEF A
<1>4. CASE Disconnected(t) \/ Die(t)
  BY <1>3, <1>4 DEF Disconnected, Die, TypeOK, Named, shownVars, actorVars, tableVars
<1>5. ASSUME NEW e, Enters(t, e)
      PROVE  typed' \in [Terminal -> Nat]
  BY <1>5 DEF Enters, TypeOK
<1>6. CASE Quit(t)
  <2>1. typed' \in [Terminal -> Nat] /\ UNCHANGED <<read, unread, missed, users, peerKeys, actorVars>>
    BY <1>5, <1>6 DEF Quit, Enters
  <2>2. toServer' \in [Terminal -> Seq(Line)]
    <3>1. <<[cmd |-> "/quit"]>> \in Seq(Line)
      BY LineType, SeqType
    <3> QED BY <1>6, <3>1, SendsType DEF Quit
  <2> QED BY <1>3, <1>6, <2>1, <2>2 DEF Quit, TypeOK, Named, actorVars, tableVars
<1>7. ASSUME NEW x \in Names, WhisperTo(t, x)
      PROVE  TypeInv'
  <2>1. typed' \in [Terminal -> Nat] /\ UNCHANGED <<read, unread, missed, users, peerKeys, actorVars>>
    BY <1>5, <1>7 DEF WhisperTo, Enters
  <2>2. /\ asked' \in [Terminal -> [Names -> Nat]]
        /\ pending' \in [Terminal -> [Names -> Seq(Nat)]]
        /\ sent' \in [Terminal -> [Names -> Seq(Seal)]]
        /\ toServer' \in [Terminal -> Seq(Line)]
    <3>1. CASE x = Nick[t]
      BY <1>7, <3>1 DEF WhisperTo, TypeOK
    <3>2. CASE x # Nick[t] /\ peerKeys[t][x] # NoKey
      <4> DEFINE s == EncryptMessage(t, x, asked[t][x] + 1, peerKeys[t][x])
      <4>1. asked[t][x] + 1 \in Nat /\ peerKeys[t][x] \in KeyText
        BY <3>2, NamesType DEF TypeOK
      <4>2. s \in Seal
        BY <4>1, SealType
      <4>3. /\ asked' = [asked EXCEPT ![t][x] = @ + 1]
            /\ Sends(t, <<EtellLine(s)>>)
            /\ sent' = [sent EXCEPT ![t][x] = Append(@, s)]
            /\ UNCHANGED pending
        BY <1>7, <3>2 DEF WhisperTo
      <4>4. <<EtellLine(s)>> \in Seq(Line)
        BY <4>2, LineType
      <4>5. toServer' \in [Terminal -> Seq(Line)]
        BY <4>3, <4>4, SendsType
      <4>6. Append(sent[t][x], s) \in Seq(Seal)
        BY <4>2 DEF TypeOK
      <4> HIDE DEF s
      <4> QED BY <4>1, <4>3, <4>5, <4>6 DEF TypeOK
    <3>3. CASE x # Nick[t] /\ peerKeys[t][x] = NoKey
      <4>1. /\ asked' = [asked EXCEPT ![t][x] = @ + 1]
            /\ pending' = [pending EXCEPT ![t][x] = Append(@, asked[t][x] + 1)]
            /\ Sends(t, <<[cmd |-> "/getkey", to |-> x]>>)
            /\ UNCHANGED sent
        BY <1>7, <3>3 DEF WhisperTo
      <4>2. [cmd |-> "/getkey", to |-> x] \in Line
        BY LineType
      <4>3. <<[cmd |-> "/getkey", to |-> x]>> \in Seq(Line)
        BY <4>2, SeqType
      <4>4. toServer' \in [Terminal -> Seq(Line)]
        BY <4>1, <4>3, SendsType
      <4>5. asked[t][x] + 1 \in Nat
        BY DEF TypeOK
      <4>6. Append(pending[t][x], asked[t][x] + 1) \in Seq(Nat)
        BY <4>5, SeqType DEF TypeOK
      <4> QED BY <4>1, <4>4, <4>5, <4>6 DEF TypeOK
    <3> QED BY <3>1, <3>2, <3>3
  <2> QED BY <1>7, <2>1, <2>2 DEF WhisperTo, TypeOK, Named, actorVars, tableVars
<1>8. ASSUME NEW e \in Typed[t], PassThrough(t, e)
      PROVE  TypeInv'
  <2>1. e \in Entry
    BY TerminalAssumption
  <2>2. PassedOn(t, e) \in Line
    BY <1>8, <2>1, PassedOnType DEF PassThrough
  <2>3. <<PassedOn(t, e)>> \in Seq(Line)
    BY <2>2, SeqType
  <2>4. toServer' \in [Terminal -> Seq(Line)]
    BY <1>8, <2>3, SendsType DEF PassThrough
  <2> QED BY <1>5, <1>8, <2>4 DEF PassThrough, Enters, TypeOK, Named, actorVars, tableVars
<1> QED BY <1>1, <1>2, <1>4, <1>6, <1>7, <1>8 DEF User

LEMMA ServerLineType ==
  ASSUME TypeInv, NEW t \in Terminal, ServerLine(t)
  PROVE  TypeInv'
<1> USE DEF TypeInv
<1> DEFINE m == Head(toTerm[t])
<1>1. ASSUME NEW k, Takes(t, k),
             peerKeys' \in [Terminal -> [Names -> Keys \cup {NoKey}]],
             pending' \in [Terminal -> [Names -> Seq(Nat)]],
             sent' \in [Terminal -> [Names -> Seq(Seal)]],
             read' \in [Terminal -> Seq([from : Names, seal : Seal])],
             unread' \in [Terminal -> SUBSET Seal],
             missed' \in [Terminal -> SUBSET Names],
             users' \in [Terminal -> SUBSET (Names \X BOOLEAN)],
             toServer' \in [Terminal -> Seq(Line)]
      PROVE  TypeInv'
  BY <1>1, TakesType DEF Takes, TypeOK, Named, actorVars, tableVars
<1>2. ASSUME NEW k, Takes(t, k)
      PROVE  m \in Delivery \cup Answer /\ m.kind = k
  BY <1>2, TakesType
<1>3. CASE EncryptedWhisper(t)
  <2>1. m.from \in Names /\ m.seal \in Seal
    BY <1>2, <1>3, TypeOfMessage DEF EncryptedWhisper
  <2>2. /\ read' \in [Terminal -> Seq([from : Names, seal : Seal])]
        /\ unread' \in [Terminal -> SUBSET Seal]
    <3> DEFINE w == [from |-> m.from, seal |-> m.seal]
    <3>1. w \in [from : Names, seal : Seal]
      BY <2>1
    <3>2. /\ read' = [read EXCEPT ![t] = Append(@, w)] \/ UNCHANGED read
          /\ \/ \E q \in Seal : unread' = [unread EXCEPT ![t] = @ \cup {q}]
             \/ UNCHANGED unread
      BY <1>3, <2>1 DEF EncryptedWhisper
    <3> HIDE DEF w, m
    <3>3. Append(read[t], w) \in Seq([from : Names, seal : Seal])
      BY <3>1, SeqType DEF TypeOK
    <3>4. ASSUME NEW SR, read \in [Terminal -> SR], Append(read[t], w) \in SR
          PROVE  read' \in [Terminal -> SR]
      BY <3>2, <3>4
    <3>5. read' \in [Terminal -> Seq([from : Names, seal : Seal])]
      BY <3>3, <3>4 DEF TypeOK
    <3>6. unread \in [Terminal -> SUBSET Seal]
      BY DEF TypeOK
    <3>7. unread' \in [Terminal -> SUBSET Seal]
      BY <3>2, <3>6
    <3> QED BY <3>5, <3>7
  <2> QED BY <1>1, <1>3, <2>2 DEF EncryptedWhisper, TypeOK
<1>4. CASE KeyLine(t)
  <2> DEFINE x == m.of
             k == m.key
  <2>1. Takes(t, "key") /\ x \in Names /\ k \in KeyText
    BY <1>2, <1>4, TypeOfMessage DEF KeyLine
  <2>2. CASE k # Garbled
    <3>1. k \in Keys /\ k \in KeyText
      BY <2>1, <2>2, NamesType
    <3>2. /\ peerKeys' = [peerKeys EXCEPT ![t][x] = k]
          /\ pending' = [pending EXCEPT ![t][x] = <<>>]
          /\ sent' = [sent EXCEPT ![t][x] = @ \o Flushed(t, x, k)]
          /\ Sends(t, [i \in 1..Len(pending[t][x]) |-> EtellLine(Flushed(t, x, k)[i])])
          /\ UNCHANGED <<missed, read, unread, users>>
      BY <1>4, <2>2 DEF KeyLine
    <3>3. sent[t][x] \o Flushed(t, x, k) \in Seq(Seal)
      <4>1. sent[t][x] \in Seq(Seal)
        BY <2>1 DEF TypeOK
      <4>2. Flushed(t, x, k) \in Seq(Seal)
        BY <2>1, <3>1, FlushedType
      <4> HIDE DEF x, k
      <4> QED BY <4>1, <4>2
    <3> DEFINE lns == [i \in 1..Len(pending[t][x]) |-> EtellLine(Flushed(t, x, k)[i])]
    <3> HIDE DEF x, k
    <3>4. toServer' \in [Terminal -> Seq(Line)]
      <4>1. lns \in Seq(Line)
        BY <2>1, <3>1, FlushedType
      <4>2. Sends(t, lns)
        BY <3>2
      <4> HIDE DEF lns
      <4> QED BY <4>1, <4>2, SendsType
    <3>5. /\ peerKeys' \in [Terminal -> [Names -> Keys \cup {NoKey}]]
          /\ pending' \in [Terminal -> [Names -> Seq(Nat)]]
          /\ sent' \in [Terminal -> [Names -> Seq(Seal)]]
      <4> DEFINE fl == Flushed(t, x, k)
      <4> HIDE DEF fl
      <4>1. peerKeys' \in [Terminal -> [Names -> Keys \cup {NoKey}]]
        BY <2>1, <3>1, <3>2 DEF TypeOK
      <4>2. pending' \in [Terminal -> [Names -> Seq(Nat)]]
        BY <2>1, <3>2 DEF TypeOK
      <4>3. sent[t][x] \o fl \in Seq(Seal)
        BY <3>3 DEF fl
      <4>4. sent' = [sent EXCEPT ![t][x] = sent[t][x] \o fl]
        BY <3>2 DEF fl
      <4>5. sent' \in [Terminal -> [Names -> Seq(Seal)]]
        BY <2>1, <4>3, <4>4 DEF TypeOK
      <4> QED BY <4>1, <4>2, <4>5
    <3> QED BY <1>1, <2>1, <3>2, <3>4, <3>5 DEF TypeOK
  <2>3. CASE k = Garbled
    <3>1. /\ missed' = [missed EXCEPT ![t] = @ \cup {x}]
          /\ UNCHANGED <<peerKeys, pending, sent, toServer, read, unread, users>>
      BY <1>4, <2>3 DEF KeyLine
    <3> HIDE DEF x, k
    <3>2. missed' \in [Terminal -> SUBSET Names]
      BY <2>1, <3>1 DEF TypeOK
    <3> QED BY <1>1, <2>1, <3>1, <3>2 DEF TypeOK
  <2> QED BY <2>2, <2>3
<1>5. CASE NoKeyLine(t)
  <2>1. m.of \in Names
    BY <1>2, <1>5, TypeOfMessage DEF NoKeyLine
  <2> QED BY <1>1, <1>5, <2>1 DEF NoKeyLine, TypeOK
<1>6. CASE UserList(t)
  <2>1. m.list \in SUBSET (Names \X BOOLEAN)
    BY <1>2, <1>6, TypeOfMessage DEF UserList
  <2>2. <<Nick[t], TRUE>> \in Names \X BOOLEAN
    BY NamesType
  <2>3. users' \in [Terminal -> SUBSET (Names \X BOOLEAN)]
    BY <1>6, <2>1, <2>2 DEF UserList, TypeOK
  <2> QED BY <1>1, <1>6, <2>3 DEF UserList, TypeOK
<1>7. CASE PresenceNotice(t)
  <2>1. toServer' \in [Terminal -> Seq(Line)]
    <3>1. <<UsersLine>> \in Seq(Line)
      BY LineType, SeqType
    <3> QED BY <1>7, <3>1, SendsType DEF PresenceNotice
  <2> QED BY <1>1, <1>7, <2>1 DEF PresenceNotice, TypeOK
<1> QED BY <1>3, <1>4, <1>5, <1>6, <1>7 DEF ServerLine


(* What the prompt makes of a line.                                           *)
LEMMA PromptType ==
  ASSUME NEW l \in Line
  PROVE  NameIn(l) \in Names /\ KeyIn(l) \in MaybeKey
<1>1. CASE l.cmd = "text"
  BY <1>1, TypeOfLine, NamesType DEF NameIn, KeyIn
<1>2. CASE l.cmd # "text"
  <2>1. l.cmd \in Command
    BY <1>2, TypeOfLine DEF Command
  <2>2. KeyIn(l) \in MaybeKey
    BY <1>2, TypeOfLine, NamesType DEF KeyIn
  <2> QED BY <1>2, <2>1, <2>2, NamesType DEF NameIn, MaybeKey, KeyText
<1> QED BY <1>1, <1>2

(* The steps of an actor and of the server.                                   *)
LEMMA ActorType ==
  ASSUME TypeInv, NEW t \in Terminal, Actor(t) \/ Relay(t) \/ Unregister(t)
  PROVE  TypeInv'
<1> USE DEF TypeInv
<1> DEFINE l == Head(toServer[t])
           Inboxes == [Terminal -> Seq(Delivery \cup {KickClient})]
           Screens == [Terminal -> Seq(Delivery \cup Answer)]
<1>1. ASSUME UNCHANGED tuiVars, UNCHANGED <<conn, nick, holder>>,
             toServer' \in [Terminal -> Seq(Line)], toTerm' \in Screens,
             inbox' \in Inboxes, key' \in [Names -> MaybeKey],
             published' \in [Terminal -> SUBSET MaybeKey]
      PROVE  TypeInv'
  BY <1>1 DEF TypeOK, Named, tuiVars, shownVars
<1>2. ASSUME NEW c, Reads(t, c)
      PROVE  UNCHANGED tuiVars /\ toServer' \in [Terminal -> Seq(Line)] /\ l \in Line
  BY <1>2, ReadsType DEF Reads
<1>3. /\ toTerm \in Screens /\ inbox \in Inboxes /\ key \in [Names -> MaybeKey]
      /\ published \in [Terminal -> SUBSET MaybeKey]
  BY DEF TypeOK
<1>4. ASSUME NEW c, ReadsCommand(t, c)
      PROVE  /\ Reads(t, "chatting") /\ UNCHANGED <<conn, nick>>
             /\ l \in Line /\ l.cmd = c /\ nick[t] \in Names
  BY <1>2, <1>4 DEF ReadsCommand, Reads, Named
<1>5. CASE Register(t)
  <2> DEFINE x == NameIn(l)
             k == KeyIn(l)
  <2>1. UNCHANGED tuiVars /\ toServer' \in [Terminal -> Seq(Line)] /\ l \in Line
    BY <1>2, <1>5 DEF Register
  <2>2. x \in Names /\ k \in MaybeKey
    BY <2>1, PromptType
  <2>3. CASE holder[x] # Nobody
    BY <1>1, <1>3, <1>5, <2>1, <2>3 DEF Register, actorVars, tableVars
  <2>4. CASE holder[x] = Nobody
    <3>1. /\ holder' = [holder EXCEPT ![x] = t]
          /\ key' = [key EXCEPT ![x] = k]
          /\ published' = [published EXCEPT ![t] = @ \cup {k}]
          /\ nick' = [nick EXCEPT ![t] = x]
          /\ conn' = [conn EXCEPT ![t] = "chatting"]
          /\ inbox' = Delivered(Watchers \cup ({t} \cap Watching), Presence)
          /\ UNCHANGED toTerm
      BY <1>5, <2>4 DEF Register
    <3>2. inbox' \in Inboxes
      BY <3>1, DeliveryType, DeliveredType
    <3> HIDE DEF x, k
    <3>3. /\ holder' \in [Names -> Terminal \cup {Nobody}]
          /\ key' \in [Names -> MaybeKey]
          /\ published' \in [Terminal -> SUBSET MaybeKey]
          /\ nick' \in [Terminal -> Names \cup {NoName}]
          /\ conn' \in [Terminal -> {"none", "login", "chatting", "leaving", "closed"}]
          /\ Named'
      BY <2>2, <3>1 DEF TypeOK, Named
    <3> QED BY <2>1, <3>1, <3>2, <3>3 DEF TypeOK, tuiVars, shownVars
  <2> QED BY <2>3, <2>4
<1>6. CASE ListUsers(t)
  <2> DEFINE L == {<<x, key[x] # NoKey>> :
                     x \in {x \in Names : holder[x] # Nobody /\ x # nick[t]}}
  <2>1. L \in SUBSET (Names \X BOOLEAN)
    <3>1. \A x \in Names : <<x, key[x] # NoKey>> \in Names \X BOOLEAN
      OBVIOUS
    <3> QED BY <3>1
  <2>2. [kind |-> "users", list |-> L] \in Answer
    BY <2>1, AnswerType
  <2>3. toTerm' \in Screens
    <3>1. Writes(t, [kind |-> "users", list |-> L]) \/ UNCHANGED toTerm
      BY <1>6 DEF ListUsers
    <3> HIDE DEF L
    <3> QED BY <1>3, <2>2, <3>1, WritesType
  <2> QED BY <1>1, <1>2, <1>3, <1>4, <1>6, <2>3 DEF ListUsers, tableVars
<1>7. CASE GetKey(t)
  <2> DEFINE x == l.to
             m == IF holder[x] # Nobody /\ key[x] # NoKey
                    THEN [kind |-> "key", of |-> x, key |-> key[x]]
                    ELSE [kind |-> "nokey", of |-> x]
  <2>1. x \in Names
    BY <1>4, <1>7, TypeOfLine DEF GetKey
  <2>2. m \in Answer
    BY <1>3, <2>1, AnswerType DEF MaybeKey
  <2>3. Writes(t, m)
    BY <1>7 DEF GetKey
  <2>4. toTerm' \in Screens
    <3> HIDE DEF m
    <3> QED BY <2>2, <2>3, WritesType
  <2> QED BY <1>1, <1>2, <1>3, <1>4, <1>7, <2>4 DEF GetKey, tableVars
<1>8. CASE PublishKey(t)
  <2>1. nick[t] \in Names /\ l.key \in MaybeKey
    BY <1>4, <1>8, TypeOfLine, NamesType DEF PublishKey
  <2>2. key' \in [Names -> MaybeKey]
    BY <1>3, <1>8, <2>1 DEF PublishKey
  <2>3. published' \in [Terminal -> SUBSET MaybeKey]
    <3> DEFINE k == l.key
    <3>1. UNCHANGED published \/ published' = [published EXCEPT ![t] = @ \cup {k}]
      BY <1>8 DEF PublishKey
    <3>2. k \in MaybeKey /\ published \in [Terminal -> SUBSET MaybeKey]
      BY <1>3, <2>1
    <3> QED BY ONLY <3>1, <3>2
  <2> QED BY <1>1, <1>2, <1>3, <1>4, <1>8, <2>2, <2>3 DEF PublishKey
<1>9. CASE EncryptedTell(t)
  <2>1. nick[t] \in Names /\ l.seal \in Seal
    BY <1>4, <1>9, TypeOfLine DEF EncryptedTell
  <2>2. [kind |-> "sealed", from |-> nick[t], seal |-> l.seal] \in Delivery
    BY <2>1, DeliveryType
  <2>3. inbox' \in Inboxes
    BY <1>9, <2>2, DeliveredType DEF EncryptedTell
  <2> QED BY <1>1, <1>2, <1>3, <1>4, <1>9, <2>3 DEF EncryptedTell, tableVars
<1>10. CASE Kick(t)
  <2>1. inbox' \in Inboxes
    BY <1>10, DeliveredType DEF Kick
  <2> QED BY <1>1, <1>2, <1>3, <1>4, <1>10, <2>1 DEF Kick, tableVars
<1>11. CASE PlainLine(t)
  BY <1>1, <1>2, <1>3, <1>4, <1>11 DEF PlainLine, tableVars
<1>12. ASSUME Ends(t), UNCHANGED toTerm
       PROVE  TypeInv'
  <2>1. /\ conn' \in [Terminal -> {"none", "login", "chatting", "leaving", "closed"}]
        /\ Named'
    BY <1>12 DEF Ends, TypeOK, Named
  <2>2. inbox' \in Inboxes
    <3>1. <<>> \in Seq(Delivery \cup {KickClient})
      OBVIOUS
    <3> QED BY <1>3, <1>12, <3>1 DEF Ends
  <2>3. toServer' \in [Terminal -> Seq(Line)]
    <3>1. <<>> \in Seq(Line) /\ toServer \in [Terminal -> Seq(Line)]
      BY DEF TypeOK
    <3> QED BY <1>12, <3>1 DEF Ends
  <2> QED BY <1>12, <2>1, <2>2, <2>3 DEF Ends, TypeOK, tuiVars, shownVars, tableVars
<1>13. CASE Relay(t)
  <2> DEFINE m == Head(inbox[t])
  <2>1. m \in Delivery
    BY <1>13 DEF Relay, TypeOK
  <2>2. toTerm' \in Screens
    <3> HIDE DEF m
    <3> QED BY <1>13, <2>1, WritesType DEF Relay, m
  <2>3. inbox' \in Inboxes
    BY <1>13 DEF Relay, TypeOK
  <2> QED BY <1>1, <1>13, <2>2, <2>3 DEF Relay, TypeOK, tableVars
<1>14. CASE Unregister(t)
  <2>1. nick[t] \in Names
    BY <1>14 DEF Unregister, Named
  <2>2. inbox' \in Inboxes
    BY <1>14, DeliveryType, DeliveredType DEF Unregister
  <2>3. /\ holder' \in [Names -> Terminal \cup {Nobody}]
        /\ key' \in [Names -> MaybeKey]
        /\ conn' \in [Terminal -> {"none", "login", "chatting", "leaving", "closed"}]
        /\ Named'
    BY <1>14, <2>1 DEF Unregister, TypeOK, Named, MaybeKey
  <2> QED BY <1>14, <2>2, <2>3 DEF Unregister, TypeOK, tuiVars, shownVars
<1> QED
  BY <1>5, <1>6, <1>7, <1>8, <1>9, <1>10, <1>11, <1>12, <1>13, <1>14
  DEF Actor, Quits, Eof, Kicked

LEMMA TypeStep == TypeInv /\ [Next]_vars => TypeInv'
<1> SUFFICES ASSUME TypeInv, [Next]_vars PROVE TypeInv'
  OBVIOUS
<1>1. CASE Next
  <2>1. PICK t \in Terminal :
          \/ User(t) \/ SyncTicker(t) \/ ServerLine(t) \/ Disconnected(t)
          \/ Actor(t) \/ Relay(t) \/ Unregister(t)
    BY <1>1 DEF Next
  <2> QED BY <2>1, UserType, ServerLineType, ActorType
<1>2. CASE UNCHANGED vars
  BY <1>2 DEF vars, tuiVars, shownVars, actorVars, tableVars, TypeInv, TypeOK, Named
<1> QED BY <1>1, <1>2

(* Every variable keeps its type: what reaches a queue is what its reader     *)
(* expects, and whoever is past the prompt has a name to pass on.             *)
THEOREM TypeCorrect == Spec => []TypeOK
<1>1. TypeInv => TypeOK
  BY DEF TypeInv
<1> QED BY <1>1, TypeInit, TypeStep, PTL DEF Spec

-----------------------------------------------------------------------------
(* The queue of whispers.                                                     *)

queueVars == <<asked, sent, pending, peerKeys>>

(* WhispersInOrder for one queue.                                             *)
InOrder(t, x) ==
  /\ Len(sent[t][x]) + Len(pending[t][x]) = asked[t][x]
  /\ \A i \in DOMAIN sent[t][x] : sent[t][x][i].nr = i
  /\ \A i \in DOMAIN pending[t][x] : pending[t][x][i] = Len(sent[t][x]) + i
  /\ peerKeys[t][x] # NoKey => pending[t][x] = <<>>

LEMMA QueueTypes ==
  ASSUME TypeOK, NEW t \in Terminal, NEW x \in Names
  PROVE  /\ asked[t][x] \in Nat /\ sent[t][x] \in Seq(Seal) /\ pending[t][x] \in Seq(Nat)
         /\ Len(sent[t][x]) \in Nat /\ Len(pending[t][x]) \in Nat
         /\ DOMAIN sent[t][x] = 1..Len(sent[t][x])
         /\ DOMAIN pending[t][x] = 1..Len(pending[t][x])
<1>1. asked[t][x] \in Nat
  BY DEF TypeOK
<1>2. sent[t][x] \in Seq(Seal)
  BY DEF TypeOK
<1>3. pending[t][x] \in Seq(Nat)
  BY DEF TypeOK
<1>4. Len(sent[t][x]) \in Nat /\ DOMAIN sent[t][x] = 1..Len(sent[t][x])
  BY <1>2
<1>5. Len(pending[t][x]) \in Nat /\ DOMAIN pending[t][x] = 1..Len(pending[t][x])
  BY <1>3
<1> QED BY <1>1, <1>2, <1>3, <1>4, <1>5

(* Numbered whispers, followed by the next ones, are numbered.                *)
LEMMA NumberedAppend ==
  ASSUME NEW S, NEW s \in Seq(S), NEW e \in S, e.nr = Len(s) + 1,
         \A i \in 1..Len(s) : s[i].nr = i
  PROVE  /\ Len(Append(s, e)) = Len(s) + 1
         /\ DOMAIN Append(s, e) = 1..(Len(s) + 1)
         /\ \A i \in 1..(Len(s) + 1) : Append(s, e)[i].nr = i
OBVIOUS

LEMMA NumberedConcat ==
  ASSUME NEW S, NEW s \in Seq(S), NEW r \in Seq(S),
         \A i \in 1..Len(s) : s[i].nr = i,
         \A i \in 1..Len(r) : r[i].nr = Len(s) + i
  PROVE  /\ Len(s \o r) = Len(s) + Len(r)
         /\ DOMAIN (s \o r) = 1..(Len(s) + Len(r))
         /\ \A i \in 1..(Len(s) + Len(r)) : (s \o r)[i].nr = i
<1>1. /\ Len(s \o r) = Len(s) + Len(r)
      /\ DOMAIN (s \o r) = 1..(Len(s) + Len(r))
      /\ Len(s) \in Nat /\ Len(r) \in Nat
  OBVIOUS
<1>2. ASSUME NEW i \in 1..(Len(s) + Len(r))
      PROVE  (s \o r)[i].nr = i
  <2>1. CASE i <= Len(s)
    <3>1. (s \o r)[i] = s[i] /\ i \in 1..Len(s)
      BY <1>1, <2>1
    <3> QED BY <3>1
  <2>2. CASE i > Len(s)
    <3> DEFINE j == i - Len(s)
    <3>1. (s \o r)[i] = r[j] /\ j \in 1..Len(r) /\ Len(s) + j = i
      BY <1>1, <2>2
    <3> HIDE DEF j
    <3> QED BY <3>1
  <2> QED BY <1>1, <2>1, <2>2
<1> QED BY <1>1, <1>2

LEMMA CountedAppend ==
  ASSUME NEW p \in Seq(Nat), NEW n \in Nat, \A i \in 1..Len(p) : p[i] = n + i
  PROVE  /\ Len(Append(p, n + Len(p) + 1)) = Len(p) + 1
         /\ DOMAIN Append(p, n + Len(p) + 1) = 1..(Len(p) + 1)
         /\ \A i \in 1..(Len(p) + 1) : Append(p, n + Len(p) + 1)[i] = n + i
OBVIOUS

(* Only two steps touch the queues.                                           *)
LEMMA QueueFrame ==
  ASSUME Next,
         \A t \in Terminal, x \in Names : ~WhisperTo(t, x),
         \A t \in Terminal : ~(KeyLine(t) /\ Head(toTerm[t]).key # Garbled)
  PROVE  UNCHANGED queueVars
<1>1. PICK t \in Terminal :
        \/ User(t) \/ SyncTicker(t) \/ ServerLine(t) \/ Disconnected(t)
        \/ Actor(t) \/ Relay(t) \/ Unregister(t)
  BY DEF Next
<1>2. CASE User(t) \/ SyncTicker(t) \/ Disconnected(t)
  BY <1>2 DEF User, Launch, Quit, Die, PassThrough, SyncTicker, Disconnected, Enters,
              tuiVars, shownVars, queueVars
<1>3. CASE ServerLine(t)
  BY <1>3 DEF ServerLine, EncryptedWhisper, KeyLine, NoKeyLine, UserList, PresenceNotice,
              Takes, queueVars
<1>4. CASE Actor(t) \/ Relay(t) \/ Unregister(t)
  <2>1. UNCHANGED tuiVars
    BY <1>4 DEF Actor, Register, ListUsers, GetKey, PublishKey, EncryptedTell, Kick,
                PlainLine, Quits, Eof, Kicked, Relay, Unregister, Ends, ReadsCommand, Reads
  <2> QED BY <2>1 DEF tuiVars, shownVars, queueVars
<1> QED BY <1>1, <1>2, <1>3, <1>4

(* A whisper is entered.                                                      *)
LEMMA OrderWhisper ==
  ASSUME TypeInv, WhispersInOrder, NEW t \in Terminal, NEW x \in Names, WhisperTo(t, x)
  PROVE  WhispersInOrder'
<1> USE DEF TypeInv
<1> SUFFICES ASSUME NEW u \in Terminal, NEW y \in Names PROVE InOrder(u, y)'
  BY DEF WhispersInOrder, InOrder
<1>1. InOrder(u, y) /\ InOrder(t, x) /\ UNCHANGED peerKeys
  BY DEF WhispersInOrder, InOrder, WhisperTo, Enters
<1>2. /\ asked[t][x] \in Nat /\ sent[t][x] \in Seq(Seal) /\ pending[t][x] \in Seq(Nat)
      /\ Len(sent[t][x]) \in Nat /\ Len(pending[t][x]) \in Nat
      /\ DOMAIN sent[t][x] = 1..Len(sent[t][x])
      /\ DOMAIN pending[t][x] = 1..Len(pending[t][x])
  BY QueueTypes
<1>3. CASE UNCHANGED <<asked, sent, pending>>
  BY <1>1, <1>3 DEF InOrder
<1>4. CASE peerKeys[t][x] # NoKey /\ x # Nick[t]
  <2> DEFINE s == EncryptMessage(t, x, asked[t][x] + 1, peerKeys[t][x])
  <2>1. /\ asked' = [asked EXCEPT ![t][x] = @ + 1]
        /\ sent' = [sent EXCEPT ![t][x] = Append(@, s)]
        /\ pending' = pending
    BY <1>4 DEF WhisperTo
  <2>2. s.nr = asked[t][x] + 1 /\ s \in Seal
    <3>1. asked[t][x] + 1 \in Nat
      BY <1>2
    <3>2. peerKeys[t][x] \in KeyText
      BY <1>4, NamesType DEF TypeOK
    <3> QED BY <3>1, <3>2, SealType
  <2>3. pending[t][x] = <<>> /\ Len(sent[t][x]) = asked[t][x]
    <3>1. pending[t][x] = <<>>
      BY <1>1, <1>4 DEF InOrder
    <3>2. Len(pending[t][x]) = 0
      BY <3>1
    <3> QED BY <1>1, <1>2, <3>1, <3>2 DEF InOrder
  <2> HIDE DEF s
  <2>4. CASE u = t /\ y = x
    <3>1. /\ asked'[t][x] = asked[t][x] + 1
          /\ sent'[t][x] = Append(sent[t][x], s)
          /\ pending'[t][x] = <<>> /\ peerKeys' = peerKeys
      BY <1>1, <2>1, <2>3 DEF TypeOK
    <3>2. \A i \in 1..Len(sent[t][x]) : sent[t][x][i].nr = i
      BY <1>1, <1>2 DEF InOrder
    <3>3. s.nr = Len(sent[t][x]) + 1
      BY <2>2, <2>3
    <3>4. /\ Len(sent'[t][x]) = asked'[t][x]
          /\ \A i \in DOMAIN sent'[t][x] : sent'[t][x][i].nr = i
      <4> DEFINE r == sent[t][x]
                 q == sent'[t][x]
                 n == asked'[t][x]
      <4>1. r \in Seq(Seal) /\ \A i \in 1..Len(r) : r[i].nr = i
        BY <1>2, <3>2
      <4>2. q = Append(r, s) /\ n = Len(r) + 1 /\ s \in Seal /\ s.nr = Len(r) + 1
        BY <2>2, <2>3, <3>1, <3>3
      <4> HIDE DEF r, q, n
      <4>3. Len(q) = n /\ \A i \in DOMAIN q : q[i].nr = i
        BY <4>1, <4>2, NumberedAppend
      <4> QED BY <4>3 DEF q, n
    <3>5. Len(pending'[t][x]) = 0 /\ DOMAIN pending'[t][x] = {}
      BY <3>1
    <3> QED BY <1>2, <2>4, <3>1, <3>4, <3>5 DEF InOrder
  <2>5. CASE ~(u = t /\ y = x)
    BY <1>1, <2>1, <2>5 DEF InOrder, TypeOK
  <2> QED BY <2>4, <2>5
<1>5. CASE peerKeys[t][x] = NoKey /\ x # Nick[t]
  <2>1. /\ asked' = [asked EXCEPT ![t][x] = @ + 1]
        /\ pending' = [pending EXCEPT ![t][x] = Append(@, asked[t][x] + 1)]
        /\ sent' = sent
    BY <1>5 DEF WhisperTo
  <2>2. CASE u = t /\ y = x
    <3>1. /\ asked'[t][x] = asked[t][x] + 1
          /\ pending'[t][x] = Append(pending[t][x], asked[t][x] + 1)
          /\ sent'[t][x] = sent[t][x] /\ peerKeys'[t][x] = NoKey
      BY <1>1, <1>5, <2>1 DEF TypeOK
    <3>2. /\ \A i \in 1..Len(pending[t][x]) : pending[t][x][i] = Len(sent[t][x]) + i
          /\ asked[t][x] = Len(sent[t][x]) + Len(pending[t][x])
      BY <1>1, <1>2 DEF InOrder
    <3> DEFINE n == Len(sent[t][x])
               p == pending[t][x]
    <3>3. asked[t][x] + 1 = n + Len(p) + 1
      BY <3>2
    <3>4. pending'[t][x] = Append(p, n + Len(p) + 1)
      BY <3>1, <3>3
    <3>5. p \in Seq(Nat) /\ n \in Nat /\ \A i \in 1..Len(p) : p[i] = n + i
      BY <1>2, <3>2
    <3>6. /\ Len(pending'[t][x]) = Len(p) + 1
          /\ \A i \in DOMAIN pending'[t][x] : pending'[t][x][i] = n + i
      <4> DEFINE q == Append(p, n + Len(p) + 1)
      <4> HIDE DEF n, p
      <4>1. /\ Len(q) = Len(p) + 1
            /\ DOMAIN q = 1..(Len(p) + 1)
            /\ \A i \in 1..(Len(p) + 1) : q[i] = n + i
        BY <3>5, CountedAppend
      <4> HIDE DEF q
      <4>2. pending'[t][x] = q
        BY <3>4 DEF q
      <4> QED BY <4>1, <4>2
    <3>7. Len(sent[t][x]) + Len(pending'[t][x]) = asked'[t][x]
      <4>1. Len(pending'[t][x]) = Len(p) + 1 /\ asked'[t][x] = n + Len(p) + 1
        BY <3>1, <3>3, <3>6
      <4>2. n \in Nat /\ Len(p) \in Nat
        BY <1>2
      <4>3. \A i \in Nat, j \in Nat : i + (j + 1) = i + j + 1
        OBVIOUS
      <4>4. n + (Len(p) + 1) = n + Len(p) + 1
        BY <4>2, <4>3
      <4> HIDE DEF p
      <4> QED BY <4>1, <4>4
    <3> QED BY <1>1, <2>2, <3>1, <3>6, <3>7 DEF InOrder
  <2>3. CASE ~(u = t /\ y = x)
    BY <1>1, <2>1, <2>3 DEF InOrder, TypeOK
  <2> QED BY <2>2, <2>3
<1> QED BY <1>3, <1>4, <1>5 DEF WhisperTo

(* A key arrives: what waited for it is sent, in order.                       *)
LEMMA OrderKey ==
  ASSUME TypeInv, WhispersInOrder, NEW t \in Terminal, KeyLine(t),
         Head(toTerm[t]).key # Garbled
  PROVE  WhispersInOrder'
<1> USE DEF TypeInv
<1> DEFINE x == Head(toTerm[t]).of
           k == Head(toTerm[t]).key
<1> SUFFICES ASSUME NEW u \in Terminal, NEW y \in Names PROVE InOrder(u, y)'
  BY DEF WhispersInOrder, InOrder
<1>1. x \in Names /\ k \in Keys /\ k \in KeyText
  <2>1. /\ Head(toTerm[t]) \in Delivery \cup Answer
        /\ Head(toTerm[t]).kind = "key"
    BY TakesType DEF KeyLine
  <2> QED BY <2>1, TypeOfMessage, NamesType
<1>2. /\ peerKeys' = [peerKeys EXCEPT ![t][x] = k]
      /\ pending' = [pending EXCEPT ![t][x] = <<>>]
      /\ sent' = [sent EXCEPT ![t][x] = @ \o Flushed(t, x, k)]
      /\ asked' = asked
  BY DEF KeyLine, Takes
<1>3. InOrder(u, y) /\ InOrder(t, x)
  BY <1>1 DEF WhispersInOrder, InOrder
<1>4. /\ Flushed(t, x, k) \in Seq(Seal)
      /\ Len(Flushed(t, x, k)) = Len(pending[t][x])
      /\ \A i \in 1..Len(pending[t][x]) : Flushed(t, x, k)[i].nr = pending[t][x][i]
  <2>1. \A i \in 1..Len(pending[t][x]) : pending[t][x][i] \in Nat
    BY <1>1, QueueTypes
  <2> HIDE DEF x, k
  <2>2. /\ Flushed(t, x, k) \in Seq(Seal)
        /\ Len(Flushed(t, x, k)) = Len(pending[t][x])
        /\ \A i \in 1..Len(pending[t][x]) :
             Flushed(t, x, k)[i] = EncryptMessage(t, x, pending[t][x][i], k)
    BY <1>1, FlushedType
  <2> QED BY <1>1, <2>1, <2>2, SealType
<1> HIDE DEF x, k
<1>5. /\ asked[t][x] \in Nat /\ sent[t][x] \in Seq(Seal) /\ pending[t][x] \in Seq(Nat)
      /\ Len(sent[t][x]) \in Nat /\ Len(pending[t][x]) \in Nat
      /\ DOMAIN sent[t][x] = 1..Len(sent[t][x])
      /\ DOMAIN pending[t][x] = 1..Len(pending[t][x])
  BY <1>1, QueueTypes
<1>6. CASE u = t /\ y = x
  <2> DEFINE F == Flushed(t, x, k)
  <2>1. /\ sent'[t][x] = sent[t][x] \o F
        /\ pending'[t][x] = <<>> /\ asked'[t][x] = asked[t][x]
    BY <1>1, <1>2 DEF TypeOK
  <2> HIDE DEF F
  <2>2. F \in Seq(Seal) /\ Len(F) = Len(pending[t][x])
    BY <1>4 DEF F
  <2>3. \A i \in 1..Len(pending[t][x]) : F[i].nr = Len(sent[t][x]) + i
    BY <1>3, <1>4, <1>5 DEF InOrder, F
  <2>4. /\ \A i \in 1..Len(sent[t][x]) : sent[t][x][i].nr = i
        /\ asked[t][x] = Len(sent[t][x]) + Len(pending[t][x])
    BY <1>3, <1>5 DEF InOrder
  <2>5. /\ Len(sent'[t][x]) = asked[t][x]
        /\ \A i \in DOMAIN sent'[t][x] : sent'[t][x][i].nr = i
    <3> DEFINE r == sent[t][x]
    <3>1. /\ r \in Seq(Seal) /\ F \in Seq(Seal)
          /\ \A i \in 1..Len(r) : r[i].nr = i
          /\ \A i \in 1..Len(F) : F[i].nr = Len(r) + i
      BY <1>5, <2>2, <2>3, <2>4
    <3>2. sent'[t][x] = r \o F /\ asked[t][x] = Len(r) + Len(F)
      BY <2>1, <2>2, <2>4
    <3> DEFINE q == sent'[t][x]
               n == asked[t][x]
    <3>3. q = r \o F /\ n = Len(r) + Len(F)
      BY <3>2
    <3> HIDE DEF r, q, n
    <3>4. Len(q) = n /\ \A i \in DOMAIN q : q[i].nr = i
      BY <3>1, <3>3, NumberedConcat
    <3> QED BY <3>4 DEF q, n
  <2>6. Len(pending'[t][x]) = 0 /\ DOMAIN pending'[t][x] = {}
    BY <2>1
  <2> QED BY <1>5, <1>6, <2>1, <2>5, <2>6 DEF InOrder
<1>7. CASE ~(u = t /\ y = x)
  BY <1>1, <1>2, <1>3, <1>7 DEF InOrder, TypeOK
<1> QED BY <1>6, <1>7

(* To every name the whispers sent and then those that wait are those that    *)
(* were entered, in their order, and none waits for a key that is known.      *)
THEOREM QueueCorrect == Spec => []WhispersInOrder
<1>1. Init => WhispersInOrder
  BY DEF Init, WhispersInOrder
<1>2. TypeInv /\ WhispersInOrder /\ [Next]_vars => WhispersInOrder'
  <2> SUFFICES ASSUME TypeInv, WhispersInOrder, [Next]_vars PROVE WhispersInOrder'
    OBVIOUS
  <2>1. CASE UNCHANGED queueVars
    BY <2>1 DEF queueVars, WhispersInOrder
  <2>2. CASE UNCHANGED vars
    BY <2>1, <2>2 DEF vars, tuiVars, shownVars, queueVars
  <2>3. CASE Next
    BY <2>1, <2>3, QueueFrame, OrderWhisper, OrderKey
  <2> QED BY <2>2, <2>3
<1> QED BY <1>1, <1>2, TypeInit, TypeStep, PTL DEF Spec

-----------------------------------------------------------------------------
(* Who holds which name.                                                      *)

(* A name is held by the terminal that got it, from the prompt until it is    *)
(* unregistered, and the key of a name is one that a terminal of that name    *)
(* had registered.                                                            *)
Registry ==
  /\ \A t \in Terminal :
       /\ tui[t] = "off" => conn[t] = "none"
       /\ conn[t] \in {"none", "login"} => nick[t] = NoName
       /\ conn[t] \in {"chatting", "leaving"} => holder[nick[t]] = t
  /\ \A x \in Names :
       /\ holder[x] # Nobody => nick[holder[x]] = x /\ conn[holder[x]] \in {"chatting", "leaving"}
       /\ key[x] # NoKey => Published(x, key[x])

(* The elements of a sequence.                                                *)
Elems(s) == {s[i] : i \in DOMAIN s}

(* What a connection asks to pass on is its own, and was typed by hand or     *)
(* sealed with a key that was registered under the name it is for.            *)
GoodLine(t, l) ==
  l.cmd = "/etell" =>
    /\ l.seal.by = t /\ l.seal.to = l.to
    /\ l.seal.nr = 0 \/ Published(l.to, l.seal.key)
LinesGood == \A t \in Terminal : \A l \in Elems(toServer[t]) : GoodLine(t, l)

(* A seal that reaches u: typed by hand, or made with a key registered by u   *)
(* itself or by an earlier holder of its name.                                *)
GoodSeal(u, s) ==
  /\ nick[u] = s.to
  /\ \/ s.nr = 0
     \/ \E v \in Terminal :
          nick[v] = s.to /\ s.key \in published[v] /\ (v = u \/ conn[v] = "closed")

GoodMessage(u, m) ==
  /\ m.kind = "sealed" => GoodSeal(u, m.seal) /\ nick[m.seal.by] = m.from
  /\ m.kind = "key" => Published(m.of, m.key)
InboxGood == \A u \in Terminal : \A m \in Elems(inbox[u]) : GoodMessage(u, m)
ScreenGood == \A u \in Terminal : \A m \in Elems(toTerm[u]) : GoodMessage(u, m)

SealInv ==
  /\ TypeInv /\ Registry /\ LinesGood /\ InboxGood /\ ScreenGood
  /\ SealedAsPublished /\ ReadByAddressee /\ UnreadableHasReason

LEMMA ElemsOfNone == Elems(<<>>) = {}
BY DEF Elems

LEMMA ElemsIn ==
  ASSUME NEW S, NEW s \in Seq(S)
  PROVE  Elems(s) \subseteq S /\ \A i \in DOMAIN s : s[i] \in S
BY DEF Elems

LEMMA ElemsOfAppend ==
  ASSUME NEW S, NEW s \in Seq(S), NEW x \in S
  PROVE  Elems(Append(s, x)) = Elems(s) \cup {x}
<1>1. /\ DOMAIN Append(s, x) = 1..(Len(s) + 1) /\ DOMAIN s = 1..Len(s) /\ Len(s) \in Nat
      /\ Append(s, x)[Len(s) + 1] = x
      /\ \A i \in 1..Len(s) : Append(s, x)[i] = s[i]
  OBVIOUS
<1> DEFINE r == Append(s, x)
<1> HIDE DEF r
<1>2. /\ DOMAIN r = 1..(Len(s) + 1) /\ r[Len(s) + 1] = x
      /\ \A i \in 1..Len(s) : r[i] = s[i]
  BY <1>1 DEF r
<1>3. ASSUME NEW i \in DOMAIN r
      PROVE  r[i] \in Elems(s) \cup {x}
  BY <1>1, <1>2 DEF Elems
<1>4. ASSUME NEW i \in DOMAIN s
      PROVE  s[i] \in Elems(r)
  <2>1. i \in DOMAIN r /\ r[i] = s[i]
    BY <1>1, <1>2
  <2> QED BY <2>1 DEF Elems
<1>5. x \in Elems(r)
  <2>1. Len(s) + 1 \in DOMAIN r
    BY <1>1, <1>2
  <2> QED BY <1>2, <2>1 DEF Elems
<1>6. Elems(r) \subseteq Elems(s) \cup {x}
  BY <1>3 DEF Elems
<1>7. Elems(s) \subseteq Elems(r)
  BY <1>4 DEF Elems
<1> QED BY <1>5, <1>6, <1>7 DEF r

LEMMA ElemsOfConcat ==
  ASSUME NEW S, NEW s \in Seq(S), NEW r \in Seq(S)
  PROVE  Elems(s \o r) \subseteq Elems(s) \cup Elems(r)
<1>1. /\ DOMAIN (s \o r) = 1..(Len(s) + Len(r)) /\ Len(s) \in Nat /\ Len(r) \in Nat
      /\ DOMAIN s = 1..Len(s) /\ DOMAIN r = 1..Len(r)
  OBVIOUS
<1>2. ASSUME NEW i \in DOMAIN (s \o r)
      PROVE  (s \o r)[i] \in Elems(s) \cup Elems(r)
  <2>1. CASE i <= Len(s)
    <3>1. i \in DOMAIN s /\ (s \o r)[i] = s[i]
      BY <1>1, <2>1
    <3> QED BY <3>1 DEF Elems
  <2>2. CASE i > Len(s)
    <3> DEFINE j == i - Len(s)
    <3>1. j \in DOMAIN r /\ (s \o r)[i] = r[j]
      BY <1>1, <2>2
    <3> HIDE DEF j
    <3> QED BY <3>1 DEF Elems
  <2> QED BY <1>1, <2>1, <2>2
<1> QED BY <1>2 DEF Elems

LEMMA ElemsOfTail ==
  ASSUME NEW S, NEW s \in Seq(S), s # <<>>
  PROVE  Elems(Tail(s)) \subseteq Elems(s) /\ Head(s) \in Elems(s)
<1>1. /\ DOMAIN Tail(s) = 1..(Len(s) - 1) /\ DOMAIN s = 1..Len(s)
      /\ Len(s) \in Nat \ {0} /\ Head(s) = s[1]
  OBVIOUS
<1>2. ASSUME NEW i \in DOMAIN Tail(s)
      PROVE  Tail(s)[i] \in Elems(s)
  <2> DEFINE j == i + 1
  <2>1. j \in DOMAIN s /\ Tail(s)[i] = s[j]
    BY <1>1
  <2> HIDE DEF j
  <2> QED BY <2>1 DEF Elems
<1>3. 1 \in DOMAIN s
  BY <1>1
<1> QED BY <1>1, <1>2, <1>3 DEF Elems

LEMMA ElemsOfSingle ==
  ASSUME NEW S, NEW x \in S
  PROVE  Elems(<<x>>) = {x}
BY DEF Elems

(* A name once got is kept, what was published was published, and a           *)
(* connection that has ended stays ended.                                     *)
Stable ==
  \A t \in Terminal :
    /\ nick[t] \in Names => nick'[t] = nick[t]
    /\ published[t] \subseteq published'[t]
    /\ conn[t] = "closed" => conn'[t] = "closed"

LEMMA StablePublished ==
  ASSUME Stable, NEW x \in Names, NEW k, Published(x, k)
  PROVE  Published(x, k)'
BY DEF Published, Stable

LEMMA RegistryRegister ==
  ASSUME TypeInv, Registry, NEW t \in Terminal, Register(t)
  PROVE  Registry' /\ Stable
<1> USE DEF TypeInv
<1> DEFINE l == Head(toServer[t])
           x == NameIn(l)
           k == KeyIn(l)
<1>1. l \in Line /\ conn[t] = "login" /\ UNCHANGED tui
  BY ReadsType DEF Register, Reads, tuiVars
<1>2. x \in Names
  BY <1>1, PromptType
<1>4. CASE holder[x] # Nobody
  BY <1>1, <1>4 DEF Register, actorVars, tableVars, Registry, Stable, Published
<1>5. CASE holder[x] = Nobody
  <2>1. /\ holder' = [holder EXCEPT ![x] = t]
        /\ key' = [key EXCEPT ![x] = k]
        /\ published' = [published EXCEPT ![t] = @ \cup {k}]
        /\ nick' = [nick EXCEPT ![t] = x]
        /\ conn' = [conn EXCEPT ![t] = "chatting"]
    BY <1>5 DEF Register
  <2>2. nick[t] = NoName /\ NoName \notin Names /\ Nobody \notin Terminal
    BY <1>1, NamesType DEF Registry
  <2> HIDE DEF x, k
  <2>3. Stable
    BY <1>1, <2>1, <2>2 DEF Stable, TypeOK
  <2>4. \A u \in Terminal :
          /\ tui'[u] = "off" => conn'[u] = "none"
          /\ conn'[u] \in {"none", "login"} => nick'[u] = NoName
          /\ conn'[u] \in {"chatting", "leaving"} => holder'[nick'[u]] = u
    <3> SUFFICES ASSUME NEW u \in Terminal
                 PROVE  /\ tui'[u] = "off" => conn'[u] = "none"
                        /\ conn'[u] \in {"none", "login"} => nick'[u] = NoName
                        /\ conn'[u] \in {"chatting", "leaving"} => holder'[nick'[u]] = u
      OBVIOUS
    <3>1. CASE u = t
      BY <1>1, <1>2, <2>1, <2>2, <3>1 DEF Registry, TypeOK
    <3>2. CASE u # t
      <4>1. conn'[u] = conn[u] /\ nick'[u] = nick[u] /\ tui'[u] = tui[u]
        BY <1>1, <2>1, <3>2 DEF TypeOK
      <4>2. conn[u] \in {"chatting", "leaving"} =>
              nick[u] \in Names /\ holder[nick[u]] = u /\ nick[u] # x
        BY <1>2, <1>5, <2>2 DEF Registry, Named
      <4>3. conn[u] \in {"chatting", "leaving"} => holder'[nick[u]] = u
        BY <2>1, <4>2 DEF TypeOK
      <4> QED BY <4>1, <4>3 DEF Registry
    <3> QED BY <3>1, <3>2
  <2>5. \A y \in Names : holder'[y] # Nobody =>
          nick'[holder'[y]] = y /\ conn'[holder'[y]] \in {"chatting", "leaving"}
    <3> SUFFICES ASSUME NEW y \in Names, holder'[y] # Nobody
                 PROVE  nick'[holder'[y]] = y /\ conn'[holder'[y]] \in {"chatting", "leaving"}
      OBVIOUS
    <3>1. CASE y = x
      BY <1>2, <2>1, <3>1 DEF TypeOK
    <3>2. CASE y # x
      <4>1. holder'[y] = holder[y] /\ holder[y] \in Terminal
        BY <1>2, <2>1, <3>2 DEF TypeOK
      <4>2. nick[holder[y]] = y /\ conn[holder[y]] \in {"chatting", "leaving"}
        BY <4>1 DEF Registry
      <4>3. holder[y] # t
        BY <1>1, <4>2
      <4> QED BY <2>1, <4>1, <4>2, <4>3 DEF TypeOK
    <3> QED BY <3>1, <3>2
  <2>6. \A y \in Names : key'[y] # NoKey => Published(y, key[y])'
    <3> SUFFICES ASSUME NEW y \in Names, key'[y] # NoKey PROVE Published(y, key[y])'
      OBVIOUS
    <3>1. CASE y = x
      <4>1. key'[x] = k /\ k \in published'[t] /\ nick'[t] = x
        BY <1>2, <2>1 DEF TypeOK
      <4> QED BY <3>1, <4>1 DEF Published
    <3>2. CASE y # x
      <4>1. key'[y] = key[y] /\ Published(y, key[y])
        BY <1>2, <2>1, <3>2 DEF TypeOK, Registry
      <4> QED BY <2>3, <4>1, StablePublished
    <3> QED BY <3>1, <3>2
  <2> QED BY <2>3, <2>4, <2>5, <2>6 DEF Registry
<1> QED BY <1>4, <1>5

LEMMA RegistryStep ==
  ASSUME TypeInv, Registry, Next
  PROVE  Registry' /\ Stable
<1> USE DEF TypeInv
<1>1. PICK t \in Terminal :
        \/ User(t) \/ SyncTicker(t) \/ ServerLine(t) \/ Disconnected(t)
        \/ Actor(t) \/ Relay(t) \/ Unregister(t)
  BY DEF Next
<1>2. CASE Launch(t)
  <2>1. /\ tui[t] = "off" /\ tui' = [tui EXCEPT ![t] = "on"]
        /\ conn' = [conn EXCEPT ![t] = "login"] /\ UNCHANGED <<nick, holder, key, published>>
    BY <1>2 DEF Launch, tableVars
  <2>2. conn[t] = "none" /\ nick[t] = NoName
    BY <2>1 DEF Registry
  <2>3. \A x \in Names : holder[x] # t
    BY <2>2, NamesType DEF Registry
  <2>4. \A u \in Terminal : u # t => conn'[u] = conn[u] /\ tui'[u] = tui[u]
    BY <2>1 DEF TypeOK
  <2>5. conn'[t] = "login" /\ tui'[t] = "on"
    BY <2>1 DEF TypeOK
  <2>6. \A x \in Names : holder[x] # Nobody => holder[x] \in Terminal \ {t}
    BY <2>3 DEF TypeOK
  <2> QED BY <2>1, <2>2, <2>4, <2>5, <2>6 DEF Registry, Stable, Published
<1>3. ASSUME UNCHANGED <<conn, nick, holder, key, published>>,
             \A u \in Terminal : tui'[u] = "off" => tui[u] = "off"
      PROVE  Registry' /\ Stable
  BY <1>3 DEF Registry, Stable, Published
<1>4. ASSUME Exits(t)
      PROVE  \A u \in Terminal : tui'[u] = "off" => tui[u] = "off"
  BY <1>4 DEF Exits, TypeOK
<1>5. CASE (User(t) /\ ~Launch(t)) \/ SyncTicker(t) \/ Disconnected(t)
  BY <1>3, <1>4, <1>5
  DEF User, Quit, Die, PassThrough, WhisperTo, SyncTicker, Disconnected, Enters,
      actorVars, tableVars, tuiVars
<1>6. CASE ServerLine(t)
  BY <1>3, <1>6
  DEF ServerLine, EncryptedWhisper, KeyLine, NoKeyLine, UserList, PresenceNotice, Takes,
      actorVars, tableVars
<1>7. CASE Register(t)
  BY <1>7, RegistryRegister
<1>8. CASE ListUsers(t) \/ GetKey(t) \/ EncryptedTell(t) \/ Kick(t) \/ PlainLine(t) \/ Relay(t)
  <2>1. UNCHANGED <<conn, nick, holder, key, published, tuiVars>>
    BY <1>8 DEF ListUsers, GetKey, EncryptedTell, Kick, PlainLine, Relay, ReadsCommand,
                Reads, tableVars
  <2> QED BY <1>3, <2>1 DEF tuiVars
<1>9. CASE PublishKey(t)
  <2> DEFINE k == Head(toServer[t]).key
             x == nick[t]
  <2>1. /\ UNCHANGED <<conn, nick, holder, tuiVars>> /\ x \in Names
        /\ \/ /\ key' = [key EXCEPT ![x] = k]
              /\ published' = [published EXCEPT ![t] = @ \cup {k}]
           \/ UNCHANGED <<key, published>>
    BY <1>9 DEF PublishKey, ReadsCommand, Reads, Named
  <2> HIDE DEF k
  <2>2. Stable
    <3>1. published \in [Terminal -> SUBSET MaybeKey]
      BY DEF TypeOK
    <3>2. \A u \in Terminal : published[u] \subseteq published'[u]
      BY <2>1, <3>1
    <3> QED BY <2>1, <3>2 DEF Stable
  <2>3. \A y \in Names : key'[y] # NoKey => Published(y, key[y])'
    <3> SUFFICES ASSUME NEW y \in Names, key'[y] # NoKey PROVE Published(y, key[y])'
      OBVIOUS
    <3>1. CASE key'[y] = key[y]
      <4>1. Published(y, key[y])
        BY <3>1 DEF Registry
      <4> QED BY <2>2, <3>1, <4>1, StablePublished
    <3>2. CASE key'[y] # key[y]
      <4>1. y = x /\ key'[y] = k /\ k \in published'[t] /\ nick'[t] = x
        BY <2>1, <3>2 DEF TypeOK
      <4> QED BY <4>1 DEF Published
    <3> QED BY <3>1, <3>2
  <2> QED BY <2>1, <2>2, <2>3 DEF Registry, tuiVars
<1>10. CASE Quits(t) \/ Eof(t) \/ Kicked(t)
  <2>1. /\ UNCHANGED <<nick, holder, key, published, tuiVars>>
        /\ conn' = [conn EXCEPT ![t] = IF conn[t] = "chatting" THEN "leaving" ELSE "closed"]
        /\ conn[t] \in {"login", "chatting"}
    BY <1>10 DEF Quits, Eof, Kicked, Ends, tableVars
  <2>2. UNCHANGED tui
    BY <2>1 DEF tuiVars
  <2>3. \A u \in Terminal : u # t => conn'[u] = conn[u]
    BY <2>1 DEF TypeOK
  <2>4. conn'[t] = IF conn[t] = "chatting" THEN "leaving" ELSE "closed"
    BY <2>1 DEF TypeOK
  <2>5. \A u \in Terminal : conn[u] \in {"chatting", "leaving"} =>
          conn'[u] \in {"chatting", "leaving"}
    BY <2>1, <2>3, <2>4
  <2>6. \A u \in Terminal :
          /\ tui'[u] = "off" => conn'[u] = "none"
          /\ conn'[u] \in {"none", "login"} => nick'[u] = NoName
          /\ conn'[u] \in {"chatting", "leaving"} => holder'[nick'[u]] = u
    <3>1. \A u \in Terminal : u # t => conn'[u] = conn[u] /\ tui'[u] = tui[u] /\ nick'[u] = nick[u]
      BY <2>1, <2>2, <2>3
    <3>2. conn'[t] \in {"leaving", "closed"} /\ tui[t] # "off"
      BY <2>1, <2>4 DEF Registry
    <3>3. conn'[t] = "leaving" => conn[t] = "chatting"
      BY <2>4
    <3>4. UNCHANGED <<nick, holder, tui>>
      BY <2>1, <2>2
    <3> QED BY <3>1, <3>2, <3>3, <3>4 DEF Registry
  <2>7. \A x \in Names : holder'[x] # Nobody =>
          nick'[holder'[x]] = x /\ conn'[holder'[x]] \in {"chatting", "leaving"}
    BY <2>1, <2>5 DEF Registry, TypeOK
  <2>8. Stable
    BY <2>1, <2>3, <2>4 DEF Stable
  <2> QED BY <2>1, <2>6, <2>7, <2>8 DEF Registry, Published
<1>11. CASE Unregister(t)
  <2> DEFINE x == nick[t]
  <2>1. /\ UNCHANGED <<nick, published, tuiVars>> /\ conn[t] = "leaving"
        /\ conn' = [conn EXCEPT ![t] = "closed"]
        /\ holder' = [holder EXCEPT ![x] = Nobody]
        /\ key' = [key EXCEPT ![x] = NoKey]
    BY <1>11 DEF Unregister
  <2>2. x \in Names /\ holder[x] = t /\ UNCHANGED tui
    BY <2>1 DEF Registry, Named, tuiVars
  <2> HIDE DEF x
  <2>3. /\ conn'[t] = "closed" /\ \A u \in Terminal : u # t => conn'[u] = conn[u]
        /\ holder'[x] = Nobody /\ \A y \in Names : y # x => holder'[y] = holder[y]
        /\ key'[x] = NoKey /\ \A y \in Names : y # x => key'[y] = key[y]
    BY <2>1, <2>2 DEF TypeOK
  <2>4. Stable
    BY <2>1, <2>3 DEF Stable
  <2>5. \A u \in Terminal : u # t /\ conn[u] \in {"chatting", "leaving"} =>
          nick[u] \in Names /\ nick[u] # x
    BY <2>2 DEF Registry, Named
  <2>6. \A u \in Terminal :
          /\ tui'[u] = "off" => conn'[u] = "none"
          /\ conn'[u] \in {"none", "login"} => nick'[u] = NoName
          /\ conn'[u] \in {"chatting", "leaving"} => holder'[nick'[u]] = u
    BY <2>1, <2>2, <2>3, <2>5 DEF Registry
  <2>7. \A y \in Names : holder'[y] # Nobody =>
          nick'[holder'[y]] = y /\ conn'[holder'[y]] \in {"chatting", "leaving"}
    <3> SUFFICES ASSUME NEW y \in Names, holder'[y] # Nobody
                 PROVE  nick'[holder'[y]] = y /\ conn'[holder'[y]] \in {"chatting", "leaving"}
      OBVIOUS
    <3>1. y # x /\ holder'[y] = holder[y] /\ holder[y] \in Terminal
      BY <2>3 DEF TypeOK
    <3>2. nick[holder[y]] = y /\ conn[holder[y]] \in {"chatting", "leaving"}
      BY <3>1 DEF Registry
    <3>3. holder[y] # t
      BY <3>1, <3>2 DEF x
    <3> QED BY <2>1, <2>3, <3>1, <3>2, <3>3
  <2>8. \A y \in Names : key'[y] # NoKey => Published(y, key[y])'
    BY <2>1, <2>3, <2>4, StablePublished DEF Registry
  <2> QED BY <2>4, <2>6, <2>7, <2>8 DEF Registry
<1> QED BY <1>1, <1>2, <1>5, <1>6, <1>7, <1>8, <1>9, <1>10, <1>11 DEF Actor

-----------------------------------------------------------------------------
(* Where seals and keys come from.                                            *)

(* What was good stays good, for names and ends are for ever.                 *)
LEMMA StableGood ==
  ASSUME TypeInv, Stable
  PROVE  /\ \A t \in Terminal, l \in Line : GoodLine(t, l) => GoodLine(t, l)'
         /\ \A u \in Terminal, s \in Seal : GoodSeal(u, s) => GoodSeal(u, s)'
         /\ \A u \in Terminal, m \in Delivery \cup Answer \cup {KickClient} :
              GoodMessage(u, m) => GoodMessage(u, m)'
<1>1. \A s \in Seal : s.by \in Terminal /\ s.to \in Names
  BY DEF Seal
<1>2. \A t \in Terminal, l \in Line : GoodLine(t, l) => GoodLine(t, l)'
  BY TypeOfLine, StablePublished DEF GoodLine
<1>3. \A u \in Terminal, s \in Seal : GoodSeal(u, s) => GoodSeal(u, s)'
  BY <1>1 DEF GoodSeal, Stable
<1>4. ASSUME NEW u \in Terminal, NEW m \in Delivery \cup Answer, GoodMessage(u, m)
      PROVE  GoodMessage(u, m)'
  <2>1. CASE m.kind = "sealed"
    <3>1. m.seal \in Seal /\ m.from \in Names
      BY <2>1, TypeOfMessage
    <3>2. GoodSeal(u, m.seal) /\ nick[m.seal.by] = m.from
      BY <1>4, <2>1 DEF GoodMessage
    <3> QED BY <1>1, <1>3, <2>1, <3>1, <3>2 DEF GoodMessage, Stable
  <2>2. CASE m.kind = "key"
    <3>1. m.of \in Names
      BY <2>2, TypeOfMessage
    <3> QED BY <1>4, <2>2, <3>1, StablePublished DEF GoodMessage
  <2>3. CASE m.kind \notin {"sealed", "key"}
    BY <2>3 DEF GoodMessage
  <2> QED BY <2>1, <2>2, <2>3
<1>5. \A u \in Terminal : GoodMessage(u, KickClient)'
  BY DEF GoodMessage, KickClient
<1> QED BY <1>2, <1>3, <1>4, <1>5

LEMMA SendsGood ==
  ASSUME TypeOK, LinesGood, NEW t \in Terminal, NEW lns \in Seq(Line), Sends(t, lns),
         \A l \in Elems(lns) : GoodLine(t, l)
  PROVE  \A u \in Terminal : \A l \in Elems(toServer'[u]) : GoodLine(u, l)
<1>1. toServer \in [Terminal -> Seq(Line)]
  BY DEF TypeOK
<1>2. Elems(toServer[t] \o lns) \subseteq Elems(toServer[t]) \cup Elems(lns)
  BY <1>1, ElemsOfConcat
<1>3. toServer'[t] \in {toServer[t], toServer[t] \o lns}
  BY <1>1 DEF Sends
<1>4. \A u \in Terminal : u # t => toServer'[u] = toServer[u]
  BY <1>1 DEF Sends
<1> QED BY <1>2, <1>3, <1>4 DEF LinesGood

LEMMA ReadsGood ==
  ASSUME TypeOK, LinesGood, NEW t \in Terminal, NEW c, Reads(t, c)
  PROVE  /\ GoodLine(t, Head(toServer[t]))
         /\ \A u \in Terminal : \A l \in Elems(toServer'[u]) : GoodLine(u, l)
<1>1. toServer \in [Terminal -> Seq(Line)] /\ toServer[t] # <<>>
  BY DEF TypeOK, Reads
<1>2. /\ Elems(Tail(toServer[t])) \subseteq Elems(toServer[t])
      /\ Head(toServer[t]) \in Elems(toServer[t])
  BY <1>1, ElemsOfTail
<1>3. toServer'[t] = Tail(toServer[t])
  BY <1>1 DEF Reads
<1>4. \A u \in Terminal : u # t => toServer'[u] = toServer[u]
  BY <1>1 DEF Reads
<1> QED BY <1>2, <1>3, <1>4 DEF LinesGood

(* The head of what a terminal takes is good.                                 *)
LEMMA TakesGood ==
  ASSUME TypeOK, ScreenGood, NEW t \in Terminal, NEW k, Takes(t, k)
  PROVE  /\ GoodMessage(t, Head(toTerm[t]))
         /\ \A u \in Terminal : \A m \in Elems(toTerm'[u]) : GoodMessage(u, m)
<1>1. toTerm \in [Terminal -> Seq(Delivery \cup Answer)] /\ toTerm[t] # <<>>
  BY DEF TypeOK, Takes
<1>2. /\ Elems(Tail(toTerm[t])) \subseteq Elems(toTerm[t])
      /\ Head(toTerm[t]) \in Elems(toTerm[t])
  <2>1. toTerm[t] \in Seq(Delivery \cup Answer)
    BY <1>1
  <2> QED BY <1>1, <2>1, ElemsOfTail
<1>3. toTerm'[t] = Tail(toTerm[t])
  BY <1>1 DEF Takes
<1>4. \A u \in Terminal : u # t => toTerm'[u] = toTerm[u]
  BY <1>1 DEF Takes
<1> QED BY <1>2, <1>3, <1>4 DEF ScreenGood

LEMMA WritesGood ==
  ASSUME TypeOK, ScreenGood, NEW t \in Terminal, NEW m \in Delivery \cup Answer,
         Writes(t, m), GoodMessage(t, m)
  PROVE  \A u \in Terminal : \A q \in Elems(toTerm'[u]) : GoodMessage(u, q)
<1>1. toTerm \in [Terminal -> Seq(Delivery \cup Answer)]
  BY DEF TypeOK
<1>2. Elems(Append(toTerm[t], m)) = Elems(toTerm[t]) \cup {m}
  <2>1. toTerm[t] \in Seq(Delivery \cup Answer)
    BY <1>1
  <2> QED BY <2>1, ElemsOfAppend
<1>3. toTerm'[t] \in {toTerm[t], Append(toTerm[t], m)}
  BY <1>1 DEF Writes
<1>4. \A u \in Terminal : u # t => toTerm'[u] = toTerm[u]
  BY <1>1 DEF Writes
<1> QED BY <1>2, <1>3, <1>4 DEF ScreenGood

LEMMA DeliveredGood ==
  ASSUME TypeOK, InboxGood, NEW S, NEW m \in Delivery \cup {KickClient},
         inbox' = Delivered(S, m), \A u \in S \cap Terminal : GoodMessage(u, m)
  PROVE  \A u \in Terminal : \A q \in Elems(inbox'[u]) : GoodMessage(u, q)
<1> SUFFICES ASSUME NEW u \in Terminal, NEW q \in Elems(inbox'[u])
             PROVE  GoodMessage(u, q)
  OBVIOUS
<1>1. inbox[u] \in Seq(Delivery \cup {KickClient})
  BY DEF TypeOK
<1>2. Elems(Append(inbox[u], m)) = Elems(inbox[u]) \cup {m}
  BY <1>1, ElemsOfAppend
<1>3. inbox'[u] = IF u \in S THEN Append(inbox[u], m) ELSE inbox[u]
  BY DEF Delivered
<1> QED BY <1>2, <1>3 DEF InboxGood

(* The key of a *** KEY line was registered for the name.                     *)
LEMMA KeyLineKey ==
  ASSUME TypeOK, ScreenGood, NEW t \in Terminal, KeyLine(t), Head(toTerm[t]).key # Garbled
  PROVE  /\ Head(toTerm[t]).of \in Names /\ Head(toTerm[t]).key \in Keys
         /\ Published(Head(toTerm[t]).of, Head(toTerm[t]).key)
<1> DEFINE m == Head(toTerm[t])
<1>1. Takes(t, "key")
  BY DEF KeyLine
<1>2. m \in Delivery \cup Answer /\ m.kind = "key" /\ GoodMessage(t, m)
  BY <1>1, TakesType, TakesGood
<1>3. m.of \in Names /\ m.key \in Keys
  BY <1>2, TypeOfMessage, NamesType
<1> QED BY <1>2, <1>3 DEF GoodMessage

LEMMA LinesStep ==
  ASSUME TypeInv, LinesGood, ScreenGood, SealedAsPublished, Next
  PROVE  \A u \in Terminal : \A l \in Elems(toServer'[u]) : GoodLine(u, l)
<1> USE DEF TypeInv
<1> DEFINE Kept == \A u \in Terminal : \A l \in Elems(toServer'[u]) : GoodLine(u, l)
<1>1. PICK t \in Terminal :
        \/ User(t) \/ SyncTicker(t) \/ ServerLine(t) \/ Disconnected(t)
        \/ Actor(t) \/ Relay(t) \/ Unregister(t)
  BY DEF Next
<1>2. ASSUME UNCHANGED toServer
      PROVE  Kept
  BY <1>2 DEF LinesGood
<1>3. ASSUME NEW l \in Line, GoodLine(t, l), Sends(t, <<l>>)
      PROVE  Kept
  <2>1. <<l>> \in Seq(Line) /\ Elems(<<l>>) = {l}
    BY ElemsOfSingle
  <2> QED BY <1>3, <2>1, SendsGood
<1>4. CASE Launch(t)
  <2> DEFINE l == [cmd |-> "text", to |-> Nick[t], key |-> t]
  <2>1. l \in Line /\ UsersLine \in Line
    BY LineType, TerminalAssumption, NamesType
  <2>2. GoodLine(t, l) /\ GoodLine(t, UsersLine)
    BY DEF GoodLine, UsersLine
  <2>3. Sends(t, <<l, UsersLine>>)
    BY <1>4 DEF Launch
  <2> HIDE DEF l
  <2>4. <<l, UsersLine>> \in Seq(Line) /\ Elems(<<l, UsersLine>>) = {l, UsersLine}
    BY <2>1 DEF Elems
  <2> QED BY <2>2, <2>3, <2>4, SendsGood
<1>5. CASE SyncTicker(t) \/ PresenceNotice(t)
  <2>1. GoodLine(t, UsersLine) /\ UsersLine \in Line
    BY LineType DEF GoodLine, UsersLine
  <2>2. Sends(t, <<UsersLine>>)
    BY <1>5 DEF SyncTicker, PresenceNotice
  <2> QED BY <1>3, <2>1, <2>2
<1>6. CASE Quit(t)
  <2>1. GoodLine(t, [cmd |-> "/quit"]) /\ [cmd |-> "/quit"] \in Line
    BY LineType DEF GoodLine
  <2>2. Sends(t, <<[cmd |-> "/quit"]>>)
    BY <1>6 DEF Quit
  <2> QED BY <1>3, <2>1, <2>2
<1>7. ASSUME NEW x \in Names, WhisperTo(t, x)
      PROVE  Kept
  <2>1. CASE x = Nick[t]
    BY <1>2, <1>7, <2>1 DEF WhisperTo
  <2>2. CASE x # Nick[t] /\ peerKeys[t][x] # NoKey
    <3> DEFINE s == EncryptMessage(t, x, asked[t][x] + 1, peerKeys[t][x])
    <3>1. asked[t][x] + 1 \in Nat
      BY QueueTypes
    <3>2. peerKeys[t][x] \in KeyText /\ Published(x, peerKeys[t][x])
      <4>1. peerKeys[t][x] \in Keys \cup {NoKey}
        BY DEF TypeOK
      <4> QED BY <2>2, <4>1, NamesType DEF SealedAsPublished
    <3>3. s \in Seal /\ s.by = t /\ s.to = x /\ s.key = peerKeys[t][x]
      BY <3>1, <3>2, SealType
    <3>4. Sends(t, <<EtellLine(s)>>)
      BY <1>7, <2>2 DEF WhisperTo
    <3> HIDE DEF s
    <3>5. EtellLine(s) \in Line /\ GoodLine(t, EtellLine(s))
      BY <3>2, <3>3, LineType DEF EtellLine, GoodLine
    <3> QED BY <1>3, <3>4, <3>5
  <2>3. CASE x # Nick[t] /\ peerKeys[t][x] = NoKey
    <3> DEFINE l == [cmd |-> "/getkey", to |-> x]
    <3>1. l \in Line /\ GoodLine(t, l)
      BY LineType DEF GoodLine
    <3>2. Sends(t, <<l>>)
      BY <1>7, <2>3 DEF WhisperTo
    <3> HIDE DEF l
    <3> QED BY <1>3, <3>1, <3>2
  <2> QED BY <2>1, <2>2, <2>3
<1>8. ASSUME NEW e \in Typed[t], PassThrough(t, e)
      PROVE  Kept
  <2>1. e \in Entry /\ e.cmd \notin {"/tell", "/quit"}
    BY <1>8, TerminalAssumption DEF PassThrough
  <2>2. GoodLine(t, PassedOn(t, e))
    <3>1. CASE e.cmd = "/plain"
      BY <3>1 DEF PassedOn, GoodLine
    <3>2. CASE e.cmd = "/etell"
      BY <3>2 DEF PassedOn, GoodLine, EtellLine, EncryptMessage
    <3>3. CASE e.cmd \notin {"/plain", "/etell"}
      BY <3>3 DEF PassedOn, GoodLine
    <3> QED BY <3>1, <3>2, <3>3
  <2>3. PassedOn(t, e) \in Line
    BY <2>1, PassedOnType
  <2>4. Sends(t, <<PassedOn(t, e)>>)
    BY <1>8 DEF PassThrough
  <2> QED BY <1>3, <2>2, <2>3, <2>4
<1>9. CASE Die(t) \/ Disconnected(t) \/ EncryptedWhisper(t) \/ NoKeyLine(t) \/ UserList(t)
           \/ Relay(t) \/ Unregister(t)
  BY <1>2, <1>9 DEF Die, Disconnected, EncryptedWhisper, NoKeyLine, UserList, Relay, Unregister
<1>10. CASE KeyLine(t)
  <2> DEFINE x == Head(toTerm[t]).of
             k == Head(toTerm[t]).key
             lns == [i \in 1..Len(pending[t][x]) |-> EtellLine(Flushed(t, x, k)[i])]
  <2>1. CASE k = Garbled
    BY <1>2, <1>10, <2>1 DEF KeyLine
  <2>2. CASE k # Garbled
    <3>1. Sends(t, lns)
      BY <1>10, <2>2 DEF KeyLine
    <3>2. x \in Names /\ k \in KeyText /\ Published(x, k)
      BY <1>10, <2>2, KeyLineKey, NamesType
    <3> HIDE DEF x, k
    <3>3. ASSUME NEW i \in 1..Len(pending[t][x])
          PROVE  GoodLine(t, lns[i])
      <4> DEFINE s == EncryptMessage(t, x, pending[t][x][i], k)
      <4>1. pending[t][x][i] \in Nat
        BY <3>2, QueueTypes
      <4>2. s.by = t /\ s.to = x /\ s.key = k
        BY <3>2, <4>1, SealType
      <4>3. lns[i] = EtellLine(s)
        BY <3>2, FlushedType
      <4> HIDE DEF s, lns
      <4> QED BY <3>2, <4>2, <4>3 DEF GoodLine, EtellLine
    <3>4. \A l \in Elems(lns) : GoodLine(t, l)
      <4>1. DOMAIN lns = 1..Len(pending[t][x])
        OBVIOUS
      <4> HIDE DEF lns
      <4> QED BY <3>3, <4>1 DEF Elems
    <3>5. lns \in Seq(Line)
      BY <3>2, FlushedType
    <3> HIDE DEF lns
    <3> QED BY <3>1, <3>4, <3>5, SendsGood
  <2> QED BY <2>1, <2>2
<1>11. CASE Register(t) \/ ListUsers(t) \/ GetKey(t) \/ PublishKey(t) \/ EncryptedTell(t)
            \/ Kick(t) \/ PlainLine(t)
  <2>1. PICK c : Reads(t, c)
    BY <1>11 DEF Register, ListUsers, GetKey, PublishKey, EncryptedTell, Kick, PlainLine,
                 ReadsCommand
  <2> QED BY <2>1, ReadsGood
<1>12. CASE Quits(t) \/ Eof(t) \/ Kicked(t)
  <2>1. toServer' = [toServer EXCEPT ![t] = <<>>]
    BY <1>12 DEF Quits, Eof, Kicked, Ends
  <2>2. toServer'[t] = <<>> /\ \A u \in Terminal : u # t => toServer'[u] = toServer[u]
    BY <2>1 DEF TypeOK
  <2> QED BY <2>2, ElemsOfNone DEF LinesGood
<1> QED
  BY <1>1, <1>4, <1>5, <1>6, <1>7, <1>8, <1>9, <1>10, <1>11, <1>12
  DEF User, ServerLine, Actor

(* A sealed whisper is passed on to the holder of the name it was sealed for. *)
LEMMA InboxStep ==
  ASSUME TypeInv, Registry, LinesGood, InboxGood, Next
  PROVE  \A u \in Terminal : \A m \in Elems(inbox'[u]) : GoodMessage(u, m)
<1> USE DEF TypeInv
<1> DEFINE Kept == \A u \in Terminal : \A m \in Elems(inbox'[u]) : GoodMessage(u, m)
<1>1. PICK t \in Terminal :
        \/ User(t) \/ SyncTicker(t) \/ ServerLine(t) \/ Disconnected(t)
        \/ Actor(t) \/ Relay(t) \/ Unregister(t)
  BY DEF Next
<1>2. ASSUME UNCHANGED inbox
      PROVE  Kept
  BY <1>2 DEF InboxGood
<1>3. CASE User(t) \/ SyncTicker(t) \/ ServerLine(t) \/ Disconnected(t)
  <2>1. UNCHANGED inbox
    BY <1>3 DEF User, Launch, Quit, Die, WhisperTo, PassThrough, Enters, SyncTicker,
                Disconnected, ServerLine, EncryptedWhisper, KeyLine, NoKeyLine, UserList,
                PresenceNotice, Takes, actorVars
  <2> QED BY <1>2, <2>1
<1>4. CASE ListUsers(t) \/ GetKey(t) \/ PublishKey(t) \/ PlainLine(t)
  BY <1>2, <1>4 DEF ListUsers, GetKey, PublishKey, PlainLine
<1>5. ASSUME NEW S, NEW m \in {Presence, KickClient}, inbox' = Delivered(S, m)
      PROVE  Kept
  <2>1. m \in Delivery \cup {KickClient} /\ \A u \in Terminal : GoodMessage(u, m)
    BY DeliveryType DEF GoodMessage, Presence, KickClient
  <2> QED BY <1>5, <2>1, DeliveredGood
<1>6. CASE Register(t) \/ Kick(t) \/ Unregister(t)
  <2>1. \/ UNCHANGED inbox
        \/ \E S : inbox' = Delivered(S, Presence)
        \/ \E S : inbox' = Delivered(S, KickClient)
    BY <1>6 DEF Register, Kick, Unregister, actorVars
  <2> QED BY <1>2, <1>5, <2>1
<1>7. CASE EncryptedTell(t)
  <2> DEFINE l == Head(toServer[t])
             m == [kind |-> "sealed", from |-> nick[t], seal |-> l.seal]
             S == {holder[l.to]} \cap Chatting
  <2>1. Reads(t, "chatting") /\ l.cmd = "/etell" /\ conn[t] = "chatting"
    BY <1>7 DEF EncryptedTell, ReadsCommand, Reads
  <2>2. l \in Line /\ GoodLine(t, l)
    BY <2>1, ReadsType, ReadsGood
  <2>3. /\ l.seal \in Seal /\ l.to \in Names /\ nick[t] \in Names
        /\ l.seal.by = t /\ l.seal.to = l.to
        /\ l.seal.nr = 0 \/ Published(l.to, l.seal.key)
    BY <2>1, <2>2, TypeOfLine DEF GoodLine, Named
  <2>4. m \in Delivery
    BY <2>3, DeliveryType
  <2>5. inbox' = Delivered(S, m)
    BY <1>7 DEF EncryptedTell
  <2>6. ASSUME NEW u \in S \cap Terminal
        PROVE  GoodMessage(u, m)
    <3>1. u = holder[l.to] /\ nick[u] = l.to
      BY <2>3, NamesType DEF Registry
    <3>2. ASSUME NEW v \in Terminal, nick[v] = l.to
          PROVE  v = u \/ conn[v] = "closed"
      <4>1. conn[v] \notin {"none", "login"}
        BY <2>3, <3>2, NamesType DEF Registry
      <4>2. conn[v] \in {"chatting", "leaving"} => v = u
        BY <2>3, <3>1, <3>2 DEF Registry
      <4>3. conn[v] \in {"none", "login", "chatting", "leaving", "closed"}
        BY DEF TypeOK
      <4> QED BY <4>1, <4>2, <4>3
    <3>6. GoodSeal(u, l.seal)
      BY <2>3, <3>1, <3>2 DEF GoodSeal, Published
    <3> QED BY <2>3, <3>6 DEF GoodMessage
  <2> HIDE DEF m, S
  <2> QED BY <2>4, <2>5, <2>6, DeliveredGood
<1>8. CASE Quits(t) \/ Eof(t) \/ Kicked(t)
  <2>1. inbox' = [inbox EXCEPT ![t] = <<>>]
    BY <1>8 DEF Quits, Eof, Kicked, Ends
  <2>2. inbox'[t] = <<>> /\ \A u \in Terminal : u # t => inbox'[u] = inbox[u]
    BY <2>1 DEF TypeOK
  <2> QED BY <2>2, ElemsOfNone DEF InboxGood
<1>9. CASE Relay(t)
  <2>1. inbox[t] # <<>> /\ inbox' = [inbox EXCEPT ![t] = Tail(inbox[t])]
    BY <1>9 DEF Relay
  <2>2. inbox[t] \in Seq(Delivery \cup {KickClient})
    BY DEF TypeOK
  <2>3. Elems(Tail(inbox[t])) \subseteq Elems(inbox[t])
    BY <2>1, <2>2, ElemsOfTail
  <2>4. inbox'[t] = Tail(inbox[t]) /\ \A u \in Terminal : u # t => inbox'[u] = inbox[u]
    BY <2>1 DEF TypeOK
  <2> QED BY <2>3, <2>4 DEF InboxGood
<1> QED BY <1>1, <1>3, <1>4, <1>6, <1>7, <1>8, <1>9 DEF Actor

(* A key comes with the name it is registered under.                          *)
LEMMA ScreenStep ==
  ASSUME TypeInv, Registry, InboxGood, ScreenGood, Next
  PROVE  \A u \in Terminal : \A m \in Elems(toTerm'[u]) : GoodMessage(u, m)
<1> USE DEF TypeInv
<1> DEFINE Kept == \A u \in Terminal : \A m \in Elems(toTerm'[u]) : GoodMessage(u, m)
<1>1. PICK t \in Terminal :
        \/ User(t) \/ SyncTicker(t) \/ ServerLine(t) \/ Disconnected(t)
        \/ Actor(t) \/ Relay(t) \/ Unregister(t)
  BY DEF Next
<1>2. ASSUME UNCHANGED toTerm
      PROVE  Kept
  BY <1>2 DEF ScreenGood
<1>3. CASE Launch(t) \/ SyncTicker(t) \/ (\E x \in Names : WhisperTo(t, x))
           \/ (\E e \in Typed[t] : PassThrough(t, e))
  BY <1>2, <1>3 DEF Launch, SyncTicker, WhisperTo, PassThrough
<1>4. CASE Quit(t) \/ Die(t) \/ Disconnected(t)
  <2>1. toTerm' = [toTerm EXCEPT ![t] = <<>>]
    BY <1>4 DEF Quit, Die, Disconnected, Exits
  <2>2. toTerm'[t] = <<>> /\ \A u \in Terminal : u # t => toTerm'[u] = toTerm[u]
    BY <2>1 DEF TypeOK
  <2> QED BY <2>2, ElemsOfNone DEF ScreenGood
<1>5. CASE ServerLine(t)
  <2>1. PICK k : Takes(t, k)
    BY <1>5 DEF ServerLine, EncryptedWhisper, KeyLine, NoKeyLine, UserList, PresenceNotice
  <2> QED BY <2>1, TakesGood
<1>6. CASE Register(t) \/ PublishKey(t) \/ EncryptedTell(t) \/ Kick(t) \/ PlainLine(t)
           \/ Quits(t) \/ Eof(t) \/ Kicked(t) \/ Unregister(t)
  BY <1>2, <1>6 DEF Register, PublishKey, EncryptedTell, Kick, PlainLine, Quits, Eof, Kicked,
                    Unregister
<1>7. CASE ListUsers(t)
  <2> DEFINE L == {<<x, key[x] # NoKey>> :
                     x \in {x \in Names : holder[x] # Nobody /\ x # nick[t]}}
             m == [kind |-> "users", list |-> L]
  <2>1. L \in SUBSET (Names \X BOOLEAN)
    <3>1. \A x \in Names : <<x, key[x] # NoKey>> \in Names \X BOOLEAN
      OBVIOUS
    <3> QED BY <3>1
  <2>2. m \in Answer /\ GoodMessage(t, m)
    BY <2>1, AnswerType DEF GoodMessage
  <2>3. Writes(t, m) \/ UNCHANGED toTerm
    BY <1>7 DEF ListUsers
  <2> HIDE DEF m
  <2> QED BY <1>2, <2>2, <2>3, WritesGood
<1>8. CASE GetKey(t)
  <2> DEFINE x == Head(toServer[t]).to
             m == IF holder[x] # Nobody /\ key[x] # NoKey
                    THEN [kind |-> "key", of |-> x, key |-> key[x]]
                    ELSE [kind |-> "nokey", of |-> x]
  <2>1. Head(toServer[t]) \in Line /\ Head(toServer[t]).cmd = "/getkey"
    BY <1>8, ReadsType DEF GetKey, ReadsCommand
  <2>2. x \in Names
    BY <2>1, TypeOfLine
  <2>3. key[x] \in MaybeKey
    BY <2>2 DEF TypeOK
  <2>4. m \in Answer /\ GoodMessage(t, m)
    BY <2>2, <2>3, AnswerType DEF GoodMessage, MaybeKey, Registry
  <2>5. Writes(t, m)
    BY <1>8 DEF GetKey
  <2> HIDE DEF m
  <2> QED BY <2>4, <2>5, WritesGood
<1>9. CASE Relay(t)
  <2> DEFINE m == Head(inbox[t])
  <2>1. inbox[t] # <<>> /\ m # KickClient /\ Writes(t, m)
    BY <1>9 DEF Relay
  <2>2. inbox[t] \in Seq(Delivery \cup {KickClient})
    BY DEF TypeOK
  <2>3. m \in Elems(inbox[t]) /\ m \in Delivery \cup {KickClient}
    BY <2>1, <2>2, ElemsOfTail
  <2>4. GoodMessage(t, m)
    BY <2>3 DEF InboxGood
  <2> HIDE DEF m
  <2> QED BY <2>1, <2>3, <2>4, WritesGood
<1> QED BY <1>1, <1>3, <1>4, <1>5, <1>6, <1>7, <1>8, <1>9 DEF User, Actor

(* A key that is sealed with, or cached, is of the name.                      *)
LEMMA SealedStep ==
  ASSUME TypeInv, SealedAsPublished, ScreenGood, Next, Stable
  PROVE  SealedAsPublished'
<1> USE DEF TypeInv
<1> DEFINE Pub(x, k) == \E u \in Terminal : nick'[u] = x /\ k \in published'[u]
<1>0. ASSUME NEW x \in Names, NEW k, Published(x, k)
      PROVE  Pub(x, k)
  BY <1>0 DEF Published, Stable
<1> HIDE DEF Pub
<1>1. \A t \in Terminal, x \in Names :
        /\ sent[t][x] \in Seq(Seal)
        /\ \A s \in Elems(sent[t][x]) : Pub(x, s.key)
        /\ peerKeys[t][x] # NoKey => Pub(x, peerKeys[t][x])
  <2> SUFFICES ASSUME NEW t \in Terminal, NEW x \in Names
               PROVE  /\ sent[t][x] \in Seq(Seal)
                      /\ \A s \in Elems(sent[t][x]) : Pub(x, s.key)
                      /\ peerKeys[t][x] # NoKey => Pub(x, peerKeys[t][x])
    OBVIOUS
  <2>1. sent[t][x] \in Seq(Seal)
    BY QueueTypes
  <2>2. ASSUME NEW i \in DOMAIN sent[t][x]
        PROVE  Pub(x, sent[t][x][i].key)
    <3>1. Published(x, sent[t][x][i].key)
      BY DEF SealedAsPublished
    <3> QED BY <1>0, <3>1
  <2>3. peerKeys[t][x] # NoKey => Pub(x, peerKeys[t][x])
    BY <1>0 DEF SealedAsPublished
  <2> QED BY <2>1, <2>2, <2>3 DEF Elems
<1>2. SUFFICES \A t \in Terminal, x \in Names :
                 /\ \A s \in Elems(sent'[t][x]) : Pub(x, s.key)
                 /\ peerKeys'[t][x] # NoKey => Pub(x, peerKeys'[t][x])
  BY DEF SealedAsPublished, Published, Elems, Pub
<1>3. CASE UNCHANGED queueVars
  BY <1>1, <1>3 DEF queueVars
<1>4. ASSUME NEW t \in Terminal, NEW x \in Names, WhisperTo(t, x)
      PROVE  \A u \in Terminal, y \in Names :
               /\ \A s \in Elems(sent'[u][y]) : Pub(y, s.key)
               /\ peerKeys'[u][y] # NoKey => Pub(y, peerKeys'[u][y])
  <2>1. UNCHANGED peerKeys
    BY <1>4 DEF WhisperTo, Enters
  <2>2. CASE UNCHANGED sent
    BY <1>1, <2>1, <2>2
  <2>3. CASE peerKeys[t][x] # NoKey /\ x # Nick[t]
    <3> DEFINE s == EncryptMessage(t, x, asked[t][x] + 1, peerKeys[t][x])
    <3>1. sent' = [sent EXCEPT ![t][x] = Append(sent[t][x], s)]
      BY <1>4, <2>3 DEF WhisperTo
    <3>2. asked[t][x] + 1 \in Nat
      BY QueueTypes
    <3>3. peerKeys[t][x] \in KeyText
      BY <2>3, NamesType DEF TypeOK
    <3>4. s \in Seal /\ Pub(x, s.key)
      BY <1>1, <2>3, <3>2, <3>3, SealType
    <3> HIDE DEF s
    <3>5. Elems(Append(sent[t][x], s)) = Elems(sent[t][x]) \cup {s}
      BY <1>1, <3>4, ElemsOfAppend
    <3>6. /\ sent'[t][x] = Append(sent[t][x], s)
          /\ \A u \in Terminal, y \in Names : ~(u = t /\ y = x) => sent'[u][y] = sent[u][y]
      BY <3>1 DEF TypeOK
    <3>7. \A q \in Elems(sent'[t][x]) : Pub(x, q.key)
      BY <1>1, <3>4, <3>5, <3>6
    <3>8. ASSUME NEW u \in Terminal, NEW y \in Names
          PROVE  \A q \in Elems(sent'[u][y]) : Pub(y, q.key)
      BY <1>1, <3>6, <3>7
    <3> QED BY <1>1, <2>1, <3>8
  <2> QED BY <1>4, <2>2, <2>3 DEF WhisperTo
<1>5. ASSUME NEW t \in Terminal, KeyLine(t), Head(toTerm[t]).key # Garbled
      PROVE  \A u \in Terminal, y \in Names :
               /\ \A s \in Elems(sent'[u][y]) : Pub(y, s.key)
               /\ peerKeys'[u][y] # NoKey => Pub(y, peerKeys'[u][y])
  <2> DEFINE x == Head(toTerm[t]).of
             k == Head(toTerm[t]).key
             F == Flushed(t, x, k)
  <2>1. /\ peerKeys' = [peerKeys EXCEPT ![t][x] = k]
        /\ sent' = [sent EXCEPT ![t][x] = sent[t][x] \o F]
    BY <1>5 DEF KeyLine
  <2>2. x \in Names /\ k \in Keys /\ k \in KeyText /\ Published(x, k)
    BY <1>5, KeyLineKey, NamesType
  <2> HIDE DEF x, k
  <2>3. Pub(x, k)
    BY <1>0, <2>2
  <2>4. F \in Seq(Seal) /\ \A s \in Elems(F) : s.key = k
    <3>1. /\ F \in Seq(Seal)
          /\ Len(F) = Len(pending[t][x])
          /\ \A i \in 1..Len(pending[t][x]) : F[i] = EncryptMessage(t, x, pending[t][x][i], k)
      BY <2>2, FlushedType
    <3> HIDE DEF F
    <3>2. DOMAIN F = 1..Len(pending[t][x])
      BY <3>1
    <3>3. \A nr : EncryptMessage(t, x, nr, k).key = k
      BY DEF EncryptMessage
    <3>4. \A i \in DOMAIN F : F[i].key = k
      BY <3>1, <3>2, <3>3
    <3> QED BY <3>1, <3>4 DEF Elems
  <2> HIDE DEF F
  <2>5. Elems(sent[t][x] \o F) \subseteq Elems(sent[t][x]) \cup Elems(F)
    BY <1>1, <2>2, <2>4, ElemsOfConcat
  <2>6. /\ sent'[t][x] = sent[t][x] \o F /\ peerKeys'[t][x] = k
        /\ \A u \in Terminal, y \in Names : ~(u = t /\ y = x) =>
             sent'[u][y] = sent[u][y] /\ peerKeys'[u][y] = peerKeys[u][y]
    BY <2>1, <2>2 DEF TypeOK
  <2>7. \A q \in Elems(sent'[t][x]) : Pub(x, q.key)
    BY <1>1, <2>2, <2>3, <2>4, <2>5, <2>6
  <2>8. ASSUME NEW u \in Terminal, NEW y \in Names
        PROVE  /\ \A q \in Elems(sent'[u][y]) : Pub(y, q.key)
               /\ peerKeys'[u][y] # NoKey => Pub(y, peerKeys'[u][y])
    <3>1. CASE u = t /\ y = x
      BY <2>3, <2>6, <2>7, <3>1
    <3>2. CASE ~(u = t /\ y = x)
      BY <1>1, <2>6, <3>2
    <3> QED BY <3>1, <3>2
  <2> QED BY <2>8
<1> QED BY <1>3, <1>4, <1>5, QueueFrame

(* What the terminals have shown is theirs.                                   *)
LEMMA ShownStep ==
  ASSUME TypeInv, ScreenGood, ReadByAddressee, UnreadableHasReason, Next, Stable
  PROVE  ReadByAddressee' /\ UnreadableHasReason'
<1> USE DEF TypeInv
<1> DEFINE Shown == [from : Names, seal : Seal]
           Read(u, w) == w.seal.key = u /\ nick'[u] = w.seal.to /\ nick'[w.seal.by] = w.from
           Unread(u, s) ==
             /\ s.key # u /\ nick'[u] = s.to
             /\ \/ s.nr = 0
                \/ \E v \in Terminal : nick'[v] = s.to /\ s.key \in published'[v]
                                        /\ (v = u \/ conn'[v] = "closed")
<1>1. \A s \in Seal : s.by \in Terminal /\ s.to \in Names
  BY DEF Seal
<1>2. ASSUME NEW u \in Terminal
      PROVE  /\ read[u] \in Seq(Shown)
             /\ \A w \in Elems(read[u]) : Read(u, w)
             /\ \A s \in unread[u] : Unread(u, s)
  <2>1. read[u] \in Seq(Shown) /\ unread[u] \subseteq Seal
    BY DEF TypeOK
  <2>2. ASSUME NEW i \in DOMAIN read[u]
        PROVE  Read(u, read[u][i])
    <3> DEFINE w == read[u][i]
    <3>1. w \in Shown
      <4> HIDE DEF Shown
      <4> QED BY <2>1, ElemsIn
    <3>2. w.seal.key = u /\ nick[u] = w.seal.to /\ nick[w.seal.by] = w.from
      BY DEF ReadByAddressee
    <3>3. w.seal \in Seal /\ w.from \in Names
      BY <3>1
    <3> HIDE DEF w
    <3>4. Read(u, w)
      BY <1>1, <3>2, <3>3 DEF Stable
    <3> QED BY <3>4 DEF w
  <2>3. ASSUME NEW s \in unread[u]
        PROVE  Unread(u, s)
    <3>1. s \in Seal /\ s.key # u /\ GoodSeal(u, s)
      BY <2>1 DEF UnreadableHasReason, GoodSeal
    <3> QED BY <3>1, StableGood DEF GoodSeal
  <2> HIDE DEF Read
  <2>4. \A w \in Elems(read[u]) : Read(u, w)
    BY <2>2 DEF Elems
  <2> QED BY <2>1, <2>3, <2>4
<1>3. SUFFICES \A u \in Terminal :
                 /\ \A w \in Elems(read'[u]) : Read(u, w)
                 /\ \A s \in unread'[u] : Unread(u, s)
  BY DEF ReadByAddressee, UnreadableHasReason, Elems
<1>4. CASE UNCHANGED <<read, unread>>
  BY <1>2, <1>4
<1>5. ASSUME NEW t \in Terminal, EncryptedWhisper(t)
      PROVE  \A u \in Terminal :
               /\ \A w \in Elems(read'[u]) : Read(u, w)
               /\ \A s \in unread'[u] : Unread(u, s)
  <2> DEFINE m == Head(toTerm[t])
             w == [from |-> m.from, seal |-> m.seal]
  <2>1. Takes(t, "sealed")
    BY <1>5 DEF EncryptedWhisper
  <2>2. m \in Delivery \cup Answer /\ m.kind = "sealed" /\ GoodMessage(t, m)
    BY <2>1, TakesType, TakesGood
  <2>3. m.seal \in Seal /\ m.from \in Names
    BY <2>2, TypeOfMessage
  <2>4. GoodSeal(t, m.seal) /\ nick[m.seal.by] = m.from
    BY <2>2 DEF GoodMessage
  <2>5. nick'[m.seal.by] = m.from
    BY <1>1, <2>3, <2>4 DEF Stable
  <2>6. nick'[t] = m.seal.to
    BY <1>1, <2>3, <2>4 DEF GoodSeal, Stable
  <2>7. m.seal.key # t => Unread(t, m.seal)
    BY <2>3, <2>4, StableGood DEF GoodSeal
  <2>8. CASE m.seal.key = t
    <3>1. read' = [read EXCEPT ![t] = Append(read[t], w)] /\ UNCHANGED unread
      BY <1>5, <2>8 DEF EncryptedWhisper, Decrypts
    <3>2. w \in Shown /\ Read(t, w)
      BY <2>3, <2>5, <2>6, <2>8
    <3> HIDE DEF w, Read, Unread, Shown
    <3>3. Elems(Append(read[t], w)) = Elems(read[t]) \cup {w}
      BY <1>2, <3>2, ElemsOfAppend
    <3>4. read'[t] = Append(read[t], w) /\ \A u \in Terminal : u # t => read'[u] = read[u]
      BY <3>1 DEF TypeOK
    <3> QED BY <1>2, <3>1, <3>2, <3>3, <3>4
  <2>9. CASE m.seal.key # t
    <3>1. unread' = [unread EXCEPT ![t] = @ \cup {m.seal}] /\ UNCHANGED read
      BY <1>5, <2>9 DEF EncryptedWhisper, Decrypts
    <3>2. Unread(t, m.seal)
      BY <2>7, <2>9
    <3> HIDE DEF m, Read, Unread
    <3>3. /\ unread'[t] = unread[t] \cup {m.seal}
          /\ \A u \in Terminal : u # t => unread'[u] = unread[u]
      BY <3>1 DEF TypeOK
    <3> QED BY <1>2, <3>1, <3>2, <3>3
  <2> QED BY <2>8, <2>9
<1>6. CASE \A t \in Terminal : ~EncryptedWhisper(t)
  <2>1. PICK t \in Terminal :
          \/ User(t) \/ SyncTicker(t) \/ ServerLine(t) \/ Disconnected(t)
          \/ Actor(t) \/ Relay(t) \/ Unregister(t)
    BY DEF Next
  <2>2. CASE User(t) \/ SyncTicker(t) \/ Disconnected(t) \/ ServerLine(t)
    <3>1. UNCHANGED <<read, unread>>
      BY <1>6, <2>2 DEF User, Launch, Quit, Die, WhisperTo, PassThrough, Enters, SyncTicker,
                  Disconnected, ServerLine, KeyLine, NoKeyLine, UserList, PresenceNotice,
                  Takes, tuiVars, shownVars
    <3> QED BY <1>4, <3>1
  <2>3. CASE Actor(t) \/ Relay(t) \/ Unregister(t)
    <3>1. UNCHANGED tuiVars
      BY <2>3 DEF Actor, Register, ListUsers, GetKey, PublishKey, EncryptedTell, Kick,
                  PlainLine, Quits, Eof, Kicked, Relay, Unregister, Ends, ReadsCommand, Reads
    <3> QED BY <1>4, <3>1 DEF tuiVars, shownVars
  <2> QED BY <2>1, <2>2, <2>3
<1> QED BY <1>5, <1>6

LEMMA SealInit == Init => SealInv
<1> SUFFICES ASSUME Init PROVE SealInv
  OBVIOUS
<1>1. Registry
  BY NamesType DEF Init, Registry
<1>2. LinesGood /\ InboxGood /\ ScreenGood
  BY ElemsOfNone DEF Init, LinesGood, InboxGood, ScreenGood
<1>3. SealedAsPublished /\ ReadByAddressee /\ UnreadableHasReason
  BY DEF Init, SealedAsPublished, ReadByAddressee, UnreadableHasReason
<1> QED BY <1>1, <1>2, <1>3, TypeInit DEF SealInv

LEMMA SealStep == SealInv /\ [Next]_vars => SealInv'
<1> SUFFICES ASSUME SealInv, [Next]_vars PROVE SealInv'
  OBVIOUS
<1> USE DEF SealInv
<1>1. CASE UNCHANGED vars
  BY <1>1, TypeStep
  DEF vars, tuiVars, shownVars, actorVars, tableVars, Registry, LinesGood, InboxGood,
      ScreenGood, GoodLine, GoodMessage, GoodSeal, Published, SealedAsPublished, ReadByAddressee,
      UnreadableHasReason
<1>2. CASE Next
  <2>1. TypeInv'
    BY <1>2, TypeStep
  <2>2. Registry' /\ Stable
    BY <1>2, RegistryStep
  <2>3. LinesGood'
    <3>1. \A u \in Terminal : \A l \in Elems(toServer'[u]) : l \in Line /\ GoodLine(u, l)
      <4>1. toServer' \in [Terminal -> Seq(Line)]
        BY <2>1 DEF TypeInv, TypeOK
      <4>2. \A u \in Terminal : Elems(toServer'[u]) \subseteq Line
        BY <4>1, ElemsIn
      <4> QED BY <1>2, <4>2, LinesStep
    <3> QED BY <2>2, <3>1, StableGood DEF LinesGood
  <2>4. InboxGood'
    <3>1. \A u \in Terminal : \A m \in Elems(inbox'[u]) :
            m \in Delivery \cup {KickClient} /\ GoodMessage(u, m)
      <4>1. inbox' \in [Terminal -> Seq(Delivery \cup {KickClient})]
        BY <2>1 DEF TypeInv, TypeOK
      <4>2. \A u \in Terminal : Elems(inbox'[u]) \subseteq Delivery \cup {KickClient}
        BY <4>1, ElemsIn
      <4> QED BY <1>2, <4>2, InboxStep
    <3> QED BY <2>2, <3>1, StableGood DEF InboxGood
  <2>5. ScreenGood'
    <3>1. \A u \in Terminal : \A m \in Elems(toTerm'[u]) :
            m \in Delivery \cup Answer /\ GoodMessage(u, m)
      <4>1. toTerm' \in [Terminal -> Seq(Delivery \cup Answer)]
        BY <2>1 DEF TypeInv, TypeOK
      <4>2. \A u \in Terminal : Elems(toTerm'[u]) \subseteq Delivery \cup Answer
        BY <4>1, ElemsIn
      <4> QED BY <1>2, <4>2, ScreenStep
    <3> QED BY <2>2, <3>1, StableGood DEF ScreenGood
  <2> QED BY <1>2, <2>1, <2>2, <2>3, <2>4, <2>5, SealedStep, ShownStep
<1> QED BY <1>1, <1>2

(* Whispers are sealed, and keys are cached, only as they were registered for *)
(* the name by a terminal of that name, whatever the users type or publish.   *)
THEOREM SealedAsPublishedCorrect == Spec => []SealedAsPublished
<1>1. SealInv => SealedAsPublished
  BY DEF SealInv
<1> QED BY <1>1, SealInit, SealStep, PTL DEF Spec

(* Only the addressee reads a whisper, and the name it is shown with is the   *)
(* one its sender is registered under.                                        *)
THEOREM ReadCorrect == Spec => []ReadByAddressee
<1>1. SealInv => ReadByAddressee
  BY DEF SealInv
<1> QED BY <1>1, SealInit, SealStep, PTL DEF Spec

(* What arrives and cannot be opened was typed by hand, or sealed with a key  *)
(* that the receiver or an earlier holder of the name, now gone, registered.  *)
THEOREM UnreadableCorrect == Spec => []UnreadableHasReason
<1>1. SealInv => UnreadableHasReason
  BY DEF SealInv
<1> QED BY <1>1, SealInit, SealStep, PTL DEF Spec

====
