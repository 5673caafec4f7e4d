------------------------- MODULE ConsoleQuietProofs -------------------------
(***************************************************************************)
(* Proofs that a quiet page of the console shows what its server has, for  *)
(* any tables, texts and bounds.  What is shown follows the table through  *)
(* answers that come in any order, so the invariants say of every call     *)
(* that is out what its answer will tell, and of every row that is shown   *)
(* which call will put it right (ListFresh of the providers, AliasesInv of *)
(* the aliases, KeysListed of the keys): without calls, nothing is wrong   *)
(* and nothing is missing, and a list in order with the right elements is  *)
(* the server's list (DescendingOnce).  From the same invariants, and from *)
(* what the calls and the dialogs of a page name (ListTyped, PolicyBounded,*)
(* ModelsNamed, KeysNamed, RoutesNamed), each page keeps its types and has *)
(* one call of a kind out at a time.  The route map has no calls: there    *)
(* the tables are typed (MapInv), and its lists are compared element by    *)
(* element with the gateway's.                                             *)
(***************************************************************************)
EXTENDS ConsoleProofs

(***************************************************************************)
(* What a picked list leaves out: nothing.                                 *)
(***************************************************************************)
LEMMA PickedFound ==
  ASSUME NEW s, IsSequence(s), NEW I \in SUBSET DOMAIN s, NEW i \in I
  PROVE  \E k \in DOMAIN Failover!Picked(s, I) : Failover!Picked(s, I)[k] = s[i]
<1> DEFINE t == Failover!Picked(s, I)
           place == Failover!Ascending(I)
<1>1. /\ DOMAIN t = 1..Cardinality(I) /\ \A k \in DOMAIN t : t[k] = s[place[k]]
  BY PickedElements
<1> HIDE DEF t
<1>2. IsFiniteSet(I) /\ I \subseteq Int
  <2>1. DOMAIN s = 1..Len(s) /\ Len(s) \in Nat
    BY SequenceOf DEF IsSequence
  <2>2. IsFiniteSet(1..Len(s))
    BY <2>1, FS_Interval
  <2> QED
    BY <2>1, <2>2, FS_Subset
<1>3. PICK k \in 1..Cardinality(I) : place[k] = i
  BY <1>2, AscendingPlaces
<1> HIDE DEF place
<1>4. k \in DOMAIN t /\ t[k] = s[i]
  BY <1>1, <1>3
<1> QED
  BY <1>4 DEF t

(* A call of the kind for the row was carried out and is not answered.       *)
OkFor(s, kind, id) ==
  \E i \in DOMAIN s : s[i].kind = kind /\ s[i].at = "ok" /\ s[i].id = id

(* A load was answered, and the page has not heard of it.                    *)
LoadOk(s) == \E i \in DOMAIN s : s[i].kind = "load" /\ s[i].at = "ok"

LEMMA PickedInOrder ==
  ASSUME NEW s, IsSequence(s), NEW I \in SUBSET DOMAIN s,
         NEW j \in DOMAIN Failover!Picked(s, I), NEW k \in DOMAIN Failover!Picked(s, I), j < k
  PROVE  Failover!Ascending(I)[j] < Failover!Ascending(I)[k]
<1>1. DOMAIN Failover!Picked(s, I) = 1..Cardinality(I)
  BY PickedElements
<1>2. IsFiniteSet(I) /\ I \subseteq Int
  <2>1. DOMAIN s = 1..Len(s) /\ Len(s) \in Nat
    BY SequenceOf DEF IsSequence
  <2>2. IsFiniteSet(1..Len(s))
    BY <2>1, FS_Interval
  <2> QED
    BY <2>1, <2>2, FS_Subset
<1> QED
  BY <1>1, <1>2, AscendingPlaces

(***************************************************************************)
(* The providers page: the list it settles on.                             *)
(***************************************************************************)
(* A call whose answer brings the list up to the table t, or asks for it:    *)
(* the list itself unless it was carried out on another table, a switch or a *)
(* write that was carried out, and an import, which goes on until it loads.  *)
Covers(k, t) ==
  \/ k.kind = "list" /\ (k.at = "ok" => k.ans = t)
  \/ k.kind = "toggle" /\ k.at # "sent"
  \/ k.kind \in {"create", "update", "delete"} /\ (k.at = "ok" \/ k.then = "import")

Covered(s, t) == \E j \in DOMAIN s : Covers(s[j], t)
Lists(s)    == {i \in DOMAIN s : s[i].kind = "list"}
IsAt(k)       == k.at \in {"sent", "ok", "error", "unauthorized"}

ListFresh ==
  /\ \A i \in DOMAIN calls : IsAt(calls[i])
  /\ ~signedOut /\ ~excused =>
       /\ AtMostOne(Lists(calls))
       /\ \/ pageError \/ providers = None \/ providers = channels
          \/ Covered(calls, channels)
       /\ \A i \in Lists(calls) : calls[i].at = "ok" => Covered(calls, channels)

LEMMA ListInit == Providers!Init => ListFresh
<1> SUFFICES ASSUME Providers!Init PROVE ListFresh
  OBVIOUS
<1> DEFINE call == [kind |-> "list", ch |-> None, then |-> "shown", val |-> None,
                    at |-> "sent", ans |-> None]
<1>1. calls = <<call>> /\ providers = None
  BY DEF Providers!Init
<1>2. DOMAIN calls = {1} /\ calls[1] = call
  BY <1>1
<1>3. IsAt(call) /\ call.at # "ok"
  BY DEF IsAt
<1> HIDE DEF call
<1> QED
  BY <1>1, <1>2, <1>3 DEF ListFresh, AtMostOne, Lists

LEMMA ListSame ==
  ListFresh /\ UNCHANGED <<channels, providers, pageError, calls, signedOut, excused>> => ListFresh'
BY DEF ListFresh

(* Calls of the user load no list. *)
LEMMA ListSent ==
  ASSUME ListFresh,
         \A j \in DOMAIN calls : j \in DOMAIN calls' /\ calls'[j] = calls[j],
         \A j \in DOMAIN calls' \ DOMAIN calls : calls'[j].kind # "list" /\ calls'[j].at = "sent",
         UNCHANGED <<channels, providers, pageError, signedOut, excused>>
  PROVE  ListFresh'
<1>1. Lists(calls') = Lists(calls)
  BY DEF Lists
<1>2. \A i \in Lists(calls) : i \in DOMAIN calls /\ calls'[i] = calls[i]
  BY DEF Lists
<1>3. Covered(calls, channels) => Covered(calls', channels)
  BY DEF Covered
<1>4. \A i \in DOMAIN calls' : IsAt(calls'[i])
  BY DEF ListFresh, IsAt
<1> QED
  BY <1>1, <1>2, <1>3, <1>4 DEF ListFresh

(* What the server carries out is covered by the call that asked for it. *)
LEMMA ListServed ==
  ASSUME ProvidersInv, ListFresh, NEW i \in DOMAIN calls, Providers!Serve(i)
  PROVE  ListFresh'
<1>1. /\ calls[i].at = "sent" /\ UNCHANGED <<providers, pageError, signedOut>>
      /\ IsChannelCall(calls[i])
  BY DEF Providers!Serve, Providers!pageVars, ProvidersInv, ChannelCalls
<1>2. PICK how, ans :
        /\ Providers!Served(i, how, ans)
        /\ \/ /\ how = "ok" /\ excused' = excused
              /\ calls[i].kind = "list" => ans = channels
              /\ calls[i].kind \notin Providers!Writes => channels' = channels
           \/ /\ how = "error" /\ calls[i].kind \in Providers!Writes
              /\ excused' = (excused \/ calls[i].kind # "toggle")
           \/ how \in {"error", "unauthorized"} /\ UNCHANGED <<channels, excused>>
  BY DEF Providers!Serve
<1> DEFINE e == [calls[i] EXCEPT !.at = how, !.ans = ans]
<1>3. /\ e.kind = calls[i].kind /\ e.then = calls[i].then /\ e.at = how /\ e.ans = ans
      /\ calls' = [calls EXCEPT ![i] = e]
  BY <1>1, <1>2 DEF Providers!Served, IsChannelCall
<1> HIDE DEF e
<1>4. /\ DOMAIN calls' = DOMAIN calls /\ calls'[i] = e
      /\ \A j \in DOMAIN calls \ {i} : calls'[j] = calls[j]
  BY <1>3, Replaced DEF ProvidersInv, ChannelCalls
<1>5. Lists(calls') = Lists(calls)
  BY <1>3, <1>4 DEF Lists
<1>6. \A j \in DOMAIN calls' : IsAt(calls'[j])
  BY <1>2, <1>3, <1>4 DEF ListFresh, IsAt
<1>7. CASE channels' # channels /\ ~excused'
  <2>1. Covers(e, channels')
    BY <1>2, <1>3, <1>7 DEF Covers, Providers!Writes
  <2>2. Covered(calls', channels')
    BY <1>4, <2>1 DEF Covered
  <2>3. ~excused
    BY <1>2, <1>7
  <2> QED
    BY <1>1, <1>5, <1>6, <1>7, <2>2, <2>3 DEF ListFresh
<1>8. CASE channels' = channels /\ ~excused' /\ ~signedOut
  <2>1. ~excused
    BY <1>2, <1>8
  <2>2. Covers(calls[i], channels) => Covers(e, channels)
    BY <1>1, <1>2, <1>3 DEF Covers
  <2>3. Covered(calls, channels) => Covered(calls', channels)
    BY <1>4, <2>2 DEF Covered
  <2>4. ASSUME NEW j \in Lists(calls), calls'[j].at = "ok"
        PROVE  Covered(calls', channels)
    <3>1. CASE j = i
      <4>1. Covers(e, channels)
        BY <1>2, <1>3, <1>4, <2>4, <3>1 DEF Covers, Lists
      <4> QED
        BY <1>4, <4>1 DEF Covered
    <3>2. CASE j # i
      BY <1>4, <1>8, <2>1, <2>3, <2>4, <3>2 DEF ListFresh, Lists
    <3> QED
      BY <3>1, <3>2
  <2> QED
    BY <1>1, <1>5, <1>6, <1>8, <2>1, <2>3, <2>4 DEF ListFresh
<1> QED
  BY <1>1, <1>6, <1>7, <1>8 DEF ListFresh

(* An answer that has nothing to do with the list. *)
LEMMA ListLeft ==
  ASSUME ProvidersInv, ListFresh, NEW i \in DOMAIN calls, calls' = Left(calls, i),
         calls[i].kind # "list", ~Covers(calls[i], channels) \/ excused',
         excused => excused',
         UNCHANGED <<channels, providers, pageError>>, ~signedOut
  PROVE  ListFresh'
<1>1. /\ \A j \in DOMAIN calls' : Place(i, j) \in DOMAIN calls \ {i} /\ calls'[j] = calls[Place(i, j)]
      /\ \A k \in DOMAIN calls \ {i} : \E j \in DOMAIN calls' : Place(i, j) = k /\ calls'[j] = calls[k]
      /\ DOMAIN calls' = 1..Len(calls) - 1 /\ DOMAIN calls = 1..Len(calls) /\ Len(calls) \in Nat
  BY Removed DEF ProvidersInv, ChannelCalls
<1>2. \A j, k \in DOMAIN calls' : Place(i, j) = Place(i, k) => j = k
  BY <1>1 DEF Place
<1>3. \A j \in DOMAIN calls' : IsAt(calls'[j])
  BY <1>1 DEF ListFresh
<1>4. AtMostOne(Lists(calls)) => AtMostOne(Lists(calls'))
  BY <1>1, <1>2 DEF AtMostOne, Lists
<1>5. ~excused' /\ Covered(calls, channels) => Covered(calls', channels)
  BY <1>1 DEF Covered
<1>6. \A j \in Lists(calls') : Place(i, j) \in Lists(calls) /\ calls'[j] = calls[Place(i, j)]
  BY <1>1 DEF Lists
<1> QED
  BY <1>3, <1>4, <1>5, <1>6 DEF ListFresh

(* The answer of the list is shown, and was the only one out. *)
LEMMA ListShown ==
  ASSUME ProvidersInv, ListFresh, NEW i \in DOMAIN calls, Providers!ListAnswered(i)
  PROVE  ListFresh'
<1>1. /\ calls' = Left(calls, i) /\ calls[i].kind = "list" /\ calls[i].at # "sent" /\ ~signedOut
      /\ UNCHANGED <<channels, excused>>
      /\ calls[i].at = "unauthorized" => signedOut'
      /\ calls[i].at = "error" => pageError'
      /\ calls[i].at = "ok" => providers' = calls[i].ans
  BY DEF Providers!ListAnswered, Providers!Answered, Providers!Rest, Providers!WithoutAt, Left,
         Providers!Failed, Providers!Expired
<1>2. /\ \A j \in DOMAIN calls' : Place(i, j) \in DOMAIN calls \ {i} /\ calls'[j] = calls[Place(i, j)]
      /\ \A k \in DOMAIN calls \ {i} : \E j \in DOMAIN calls' : Place(i, j) = k /\ calls'[j] = calls[k]
  BY <1>1, Removed DEF ProvidersInv, ChannelCalls
<1>3. \A j \in DOMAIN calls' : IsAt(calls'[j])
  BY <1>2 DEF ListFresh
<1>4. i \in Lists(calls)
  BY <1>1 DEF Lists
<1>5. SUFFICES ASSUME ~signedOut', ~excused PROVE ListFresh'
  BY <1>1, <1>3 DEF ListFresh
<1>6. Lists(calls') = {}
  BY <1>1, <1>2, <1>4, <1>5 DEF ListFresh, Lists, AtMostOne
<1>7. pageError' \/ providers' = channels \/ Covered(calls', channels)
  <2>1. CASE calls[i].at = "ok" /\ calls[i].ans # channels
    <3>1. Covered(calls, channels) /\ ~Covers(calls[i], channels)
      BY <1>1, <1>4, <1>5, <2>1 DEF ListFresh, Covers
    <3> QED
      BY <1>2, <3>1 DEF Covered
  <2> QED
    BY <1>1, <1>5, <2>1 DEF ListFresh, IsAt
<1> QED
  BY <1>1, <1>3, <1>6, <1>7 DEF ListFresh, AtMostOne

(* An answer after which the list is loaded, or the import goes on. *)
LEMMA ListFollowed ==
  ASSUME ProvidersInv, ListFresh, NEW i \in DOMAIN calls, NEW k, calls' = Append(Left(calls, i), k),
         calls[i].kind # "list", Covers(k, channels), k.at = "sent",
         excused => excused',
         k.kind = "list" /\ ~excused' => \A j \in DOMAIN calls \ {i} : calls[j].kind # "list",
         UNCHANGED <<channels, providers, pageError, signedOut>>
  PROVE  ListFresh'
<1> DEFINE m == Left(calls, i)
           n == Len(m) + 1
<1>1. /\ IsSequence(m) /\ DOMAIN m = 1..Len(calls) - 1 /\ Len(calls) \in Nat
      /\ \A j \in DOMAIN m : Place(i, j) \in DOMAIN calls \ {i} /\ m[j] = calls[Place(i, j)]
  BY Removed DEF ProvidersInv, ChannelCalls
<1>2. \A j, l \in DOMAIN m : Place(i, j) = Place(i, l) => j = l
  BY <1>1 DEF Place
<1> HIDE DEF m
<1>3. /\ Len(m) \in Nat /\ DOMAIN m = 1..Len(m) /\ DOMAIN calls' = 1..n
      /\ (\A j \in 1..Len(m) : calls'[j] = m[j]) /\ calls'[n] = k
  BY <1>1, Appended DEF m
<1>4. DOMAIN calls' = DOMAIN m \cup {n} /\ n \notin DOMAIN m /\ \A j \in DOMAIN m : calls'[j] = m[j]
  BY <1>3
<1> HIDE DEF n
<1>5. \A j \in DOMAIN calls' : IsAt(calls'[j])
  BY <1>1, <1>3, <1>4 DEF ListFresh, IsAt
<1>6. Covered(calls', channels)
  BY <1>3, <1>4 DEF Covered
<1>7. AtMostOne(Lists(calls)) /\ ~excused' => AtMostOne(Lists(calls'))
  BY <1>1, <1>2, <1>3, <1>4 DEF AtMostOne, Lists
<1> QED
  BY <1>5, <1>6, <1>7 DEF ListFresh

LEMMA ListStep == ProvidersInv /\ ListFresh /\ Providers!Next => ListFresh'
<1> SUFFICES ASSUME ProvidersInv, ListFresh, Providers!Next PROVE ListFresh'
  OBVIOUS
<1> USE DEF Providers!pageVars
<1>1. ASSUME UNCHANGED <<channels, providers, pageError, calls, signedOut, excused>>
      PROVE  ListFresh'
  BY <1>1, ListSame
<1>2. ASSUME NEW k, Providers!Operate(<<k>>), k.kind # "list", k.at = "sent"
      PROVE  ListFresh'
  <2>1. calls' = Append(calls, k) /\ UNCHANGED <<channels, providers, pageError, signedOut, excused>>
    BY <1>2, ProvidersSentOne DEF Providers!Operate
  <2>2. /\ DOMAIN calls = 1..Len(calls) /\ DOMAIN calls' = 1..Len(calls) + 1 /\ Len(calls) \in Nat
        /\ (\A j \in 1..Len(calls) : calls'[j] = calls[j]) /\ calls'[Len(calls) + 1] = k
    BY <2>1, Appended DEF ProvidersInv, ChannelCalls
  <2> QED
    BY <1>2, <2>1, <2>2, ListSent
<1>3. \A kind, ch, then, val : /\ Providers!Call(kind, ch, then, val).kind = kind
                               /\ Providers!Call(kind, ch, then, val).at = "sent"
                               /\ Providers!Call(kind, ch, then, val).then = then
  BY DEF Providers!Call
<1>4. CASE Providers!Quietly \/ Providers!ChildTimerFires
  BY <1>1, <1>4 DEF Providers!Quietly, Providers!ChildTimerFires
<1>5. CASE Providers!HandleSubmit
  <2>1. PICK kind \in {"create", "update"} :
          \E ch : Providers!Operate(<<Providers!Call(kind, ch, "submit", None)>>)
    BY <1>5 DEF Providers!HandleSubmit
  <2>2. PICK ch : Providers!Operate(<<Providers!Call(kind, ch, "submit", None)>>)
    BY <2>1
  <2> QED
    BY <1>2, <1>3, <2>1, <2>2
<1>6. CASE Providers!HandleDeleteProvider \/ Providers!HandleTestDialogTest
  BY <1>2, <1>3, <1>6 DEF Providers!HandleDeleteProvider, Providers!HandleTestDialogTest
<1>7. ASSUME NEW ch, Providers!OpenEditDialog(ch) \/ Providers!ToggleSingleProvider(ch)
      PROVE  ListFresh'
  BY <1>2, <1>3, <1>7 DEF Providers!OpenEditDialog, Providers!ToggleSingleProvider
<1>8. CASE Providers!HandleImport
  BY <1>2, <1>3, <1>4, <1>8 DEF Providers!HandleImport
<1>9. CASE Providers!TestAllProviders
  <2>1. UNCHANGED <<channels, providers, pageError, signedOut, excused>>
    BY <1>9 DEF Providers!TestAllProviders
  <2> QED
    BY <1>9, <2>1, ProvidersAllTested, ListSent
<1>10. ASSUME NEW i \in DOMAIN calls, Providers!Answer(i)
       PROVE  ListFresh'
  <2>1. Providers!Rest(i) = Left(calls, i) /\ IsChannelCall(calls[i]) /\ IsAt(calls[i])
    BY DEF Providers!Rest, Providers!WithoutAt, Left, ProvidersInv, ChannelCalls, ListFresh
  <2>2. CASE Providers!ListAnswered(i)
    BY <2>2, ListShown
  <2>3. CASE Providers!DetailAnswered(i)
    <3>1. /\ calls' = Left(calls, i) /\ calls[i].kind = "detail" /\ ~signedOut
          /\ UNCHANGED <<channels, providers, pageError, excused>>
      BY <2>1, <2>3 DEF Providers!DetailAnswered, Providers!Answered
    <3> QED
      BY <3>1, ListLeft DEF Covers
  <2>4. CASE Providers!TestAnswered(i)
    <3>1. /\ calls' = Left(calls, i) /\ calls[i].kind = "test" /\ ~signedOut
          /\ UNCHANGED <<channels, providers, pageError, excused>>
      BY <2>1, <2>4 DEF Providers!TestAnswered, Providers!Answered
    <3> QED
      BY <3>1, ListLeft DEF Covers
  <2>5. ASSUME NEW ch, NEW then, Providers!Reload(Left(calls, i), ch, then), calls[i].kind # "list",
               UNCHANGED <<channels, providers, pageError, signedOut>>
        PROVE  ListFresh'
    <3> DEFINE k == Providers!Call("list", ch, then, None)
    <3>1. /\ calls' = Append(Left(calls, i), k)
          /\ excused' = (excused \/ Providers!ListOut(Left(calls, i)))
      BY <2>5 DEF Providers!Reload
    <3>2. k.kind = "list" /\ k.at = "sent" /\ Covers(k, channels)
      BY <1>3 DEF Covers
    <3> HIDE DEF k
    <3>3. ~Providers!ListOut(Left(calls, i)) => \A j \in DOMAIN calls \ {i} : calls[j].kind # "list"
      <4>1. \A l \in DOMAIN calls \ {i} :
              \E j \in DOMAIN Left(calls, i) : Left(calls, i)[j] = calls[l]
        BY Removed DEF ProvidersInv, ChannelCalls
      <4> QED
        BY <4>1 DEF Providers!ListOut
    <3> QED
      BY <2>5, <3>1, <3>2, <3>3, ListFollowed
  <2>6. CASE Providers!ToggleAnswered(i)
    BY <2>1, <2>5, <2>6 DEF Providers!ToggleAnswered, Providers!Answered
  <2>7. CASE Providers!SubmitAnswered(i)
    <3>1. /\ calls[i].kind \in {"create", "update"} /\ calls[i].then = "submit" /\ ~signedOut
          /\ UNCHANGED <<channels, providers, pageError, signedOut>>
      BY <2>7 DEF Providers!SubmitAnswered, Providers!Answered
    <3>2. CASE Providers!Failed(i)
      <4>1. calls' = Left(calls, i) /\ excused' = excused /\ calls[i].at # "ok"
        BY <2>1, <2>7, <3>2 DEF Providers!SubmitAnswered, Providers!SubmitDone, Providers!Failed
      <4> QED
        BY <3>1, <4>1, ListLeft DEF Covers
    <3>3. CASE ~Providers!Failed(i)
      BY <2>1, <2>5, <2>7, <3>1, <3>3 DEF Providers!SubmitAnswered
    <3> QED
      BY <3>2, <3>3
  <2>8. CASE Providers!DeleteAnswered(i)
    <3>1. /\ calls[i].kind = "delete" /\ ~signedOut
          /\ UNCHANGED <<channels, providers, pageError, signedOut>>
      BY <2>8 DEF Providers!DeleteAnswered, Providers!Answered
    <3>2. calls[i].then = "delete"
      BY <2>1, <3>1 DEF IsChannelCall, Purposes
    <3>3. CASE Providers!Failed(i)
      <4>1. calls' = Left(calls, i) /\ excused' = excused /\ calls[i].at # "ok"
        BY <2>1, <2>8, <3>3 DEF Providers!DeleteAnswered, Providers!Failed
      <4> QED
        BY <3>1, <3>2, <4>1, ListLeft DEF Covers
    <3>4. CASE ~Providers!Failed(i)
      BY <2>1, <2>5, <2>8, <3>1, <3>4 DEF Providers!DeleteAnswered
    <3> QED
      BY <3>3, <3>4
  <2>9. CASE Providers!ImportAnswered(i)
    <3>1. /\ calls[i].kind = "create" /\ ~signedOut
          /\ UNCHANGED <<channels, providers, pageError, signedOut>>
      BY <2>9 DEF Providers!ImportAnswered, Providers!Answered
    <3>2. CASE Providers!Failed(i)
      <4>1. calls' = Left(calls, i) /\ excused'
        BY <2>1, <2>9, <3>2 DEF Providers!ImportAnswered
      <4> QED
        BY <3>1, <4>1, ListLeft
    <3>3. CASE ~Providers!Failed(i) /\ calls[i].val = <<>>
      BY <2>1, <2>5, <2>9, <3>1, <3>3 DEF Providers!ImportAnswered
    <3>4. CASE ~Providers!Failed(i) /\ calls[i].val # <<>>
      <4> DEFINE k == Providers!Call("create", Head(calls[i].val), "import", Tail(calls[i].val))
      <4>1. calls' = Append(Left(calls, i), k) /\ excused' = excused
        BY <2>1, <2>9, <3>4 DEF Providers!ImportAnswered
      <4>2. k.kind = "create" /\ k.at = "sent" /\ Covers(k, channels)
        BY <1>3 DEF Covers
      <4> HIDE DEF k
      <4> QED
        BY <3>1, <4>1, <4>2, ListFollowed
    <3> QED
      BY <3>2, <3>3, <3>4
  <2> QED
    BY <1>10, <2>2, <2>3, <2>4, <2>6, <2>7, <2>8, <2>9 DEF Providers!Answer
<1>11. ASSUME NEW i \in DOMAIN calls, Providers!Serve(i)
       PROVE  ListFresh'
  BY <1>11, ListServed
<1>12. CASE \/ \E d \in Providers!Children : Providers!CloseChild(d)
            \/ Providers!CloseForm \/ Providers!OpenCreateDialog \/ Providers!OpenSyncDialog
            \/ Providers!OpenExport \/ Providers!OpenImport \/ Providers!EditConfigJson
            \/ \E ch \in ListedChannel : Providers!OpenDeleteDialog(ch) \/ Providers!OpenTestDialog(ch)
  BY <1>4, <1>12
  DEF Providers!CloseChild, Providers!CloseForm, Providers!OpenCreateDialog,
      Providers!OpenSyncDialog, Providers!OpenExport, Providers!OpenImport,
      Providers!EditConfigJson, Providers!OpenDeleteDialog, Providers!OpenTestDialog
<1> QED
  BY <1>4, <1>5, <1>6, <1>7, <1>8, <1>9, <1>10, <1>11, <1>12
  DEF Providers!Next, Providers!User, Providers!Respond

LEMMA ListQuiet == ListFresh => Providers!QuietMeansFresh
<1> SUFFICES ASSUME ListFresh, calls = <<>>, Providers!Shown, ~excused
             PROVE  providers = channels
  BY DEF Providers!QuietMeansFresh
<1>1. DOMAIN calls = {}
  BY EmptySeq
<1> QED
  BY <1>1 DEF ListFresh, Covered, Providers!Shown

(***************************************************************************)
(* The routes page: the list it settles on.                                *)
(***************************************************************************)
(* An alias that the page can name: it is not the one being created.         *)
IsOld(s, last, id) == id \in AliasId /\ id <= last /\ ~OkFor(s, "create", id)

Tells(list, t) ==
  /\ \A k \in DOMAIN list : /\ list[k].id \in AliasId /\ t[list[k].id] # None
                            /\ list[k].targets = t[list[k].id].targets
  /\ \A j, k \in DOMAIN list : list[j].id = list[k].id => j = k
  /\ \A id \in AliasId : t[id] # None => \E k \in DOMAIN list : list[k].id = id

(* What a call says about the table, and a row about the table and the calls *)
(* that are out.                                                             *)
AliasSays(k, s, t, last) ==
  /\ k.kind \in {"update", "toggle", "delete"} => IsOld(s, last, k.id)
  /\ k.at = "ok" =>
       /\ k.kind = "load" => Tells(k.rows, t)
       /\ k.kind = "create" => k.id \in AliasId /\ k.id <= last /\ t[k.id] # None
       /\ k.kind \in {"create", "update"} /\ t[k.id] # None => k.val = t[k.id].targets
       /\ k.kind = "delete" => t[k.id] = None

RowSays(row, s, t, last) ==
  /\ IsOld(s, last, row.id)
  /\ t[row.id] = None => OkFor(s, "delete", row.id)
  /\ t[row.id] # None => row.targets = t[row.id].targets \/ OkFor(s, "update", row.id)

AliasesServed == lastId \in Nat /\ \A id \in AliasId : table[id] # None => id <= lastId

AliasesOut ==
  /\ flags \subseteq {"loading", "submitting"}
  /\ OneWhile(OutOf(calls, {"load"}), "loading" \in flags)
  /\ OneWhile(OutOf(calls, {"create", "update"}), "submitting" \in flags)

ShownRows ==
  /\ \A k \in DOMAIN aliases : RowSays(aliases[k], calls, table, lastId)
  /\ \A j, k \in DOMAIN aliases : aliases[j].id = aliases[k].id => j = k
  /\ \A id \in AliasId : table[id] # None =>
       OkFor(calls, "create", id) \/ \E k \in DOMAIN aliases : aliases[k].id = id

(* Without a list no alias can be named and no target chosen.                *)
NothingShown ==
  /\ OutOf(calls, Routes!Writes) = {} /\ dialog.of = None
  /\ \A k \in DOMAIN dialog.targets : dialog.targets[k].provider = Blank

AliasesFresh ==
  ~excused =>
    /\ OutOf(calls, {"load"}) = {} \/ OutOf(calls, Routes!Writes) = {}
    /\ \A i \in DOMAIN calls : AliasSays(calls[i], calls, table, lastId)
    /\ dialog.of # None => IsOld(calls, lastId, dialog.of)
    /\ aliases = None => NothingShown
    /\ aliases # None => ShownRows

AliasesInv == TargetsInv /\ AliasesServed /\ AliasesOut /\ AliasesFresh

LEMMA AliasesInit == Routes!Init => AliasesInv
<1> SUFFICES ASSUME Routes!Init PROVE AliasesInv
  OBVIOUS
<1> DEFINE call == Routes!Call("load", None, None)
<1>1. calls \in Seq({call}) /\ DOMAIN calls = 1..1 /\ calls[1] = call
  BY DEF Routes!Init
<1>2. call.kind = "load" /\ call.at = "sent"
  BY DEF Routes!Call
<1> HIDE DEF call
<1>3. DOMAIN calls = {1} /\ calls[1].kind = "load" /\ calls[1].at = "sent"
  BY <1>1, <1>2
<1>4. AliasesOut
  BY <1>3 DEF Routes!Init, AliasesOut, OneWhile, AtMostOne, OutOf
<1>5. AliasesServed
  <2>1. table \in AliasTables /\ lastId = Cardinality({i \in AliasId : table[i] # None})
    BY DEF Routes!Init, Routes!Cardinality, Cardinality
  <2>2. IsFiniteSet({i \in AliasId : table[i] # None})
    BY AliasesAssumption, FS_Subset
  <2> QED
    BY <2>1, <2>2, AliasesAssumption, FS_CardinalityType DEF AliasesServed
<1>6. aliases = None /\ dialog.of = None /\ DOMAIN dialog.targets = {}
  BY EmptySeq DEF Routes!Init
<1>7. AliasesFresh
  BY <1>3, <1>6 DEF AliasesFresh, NothingShown, AliasSays, OutOf, Routes!Writes
<1> QED
  BY <1>4, <1>5, <1>7, TargetsInit DEF AliasesInv

LEMMA AliasesSame ==
  AliasesInv /\ UNCHANGED <<table, lastId, aliases, dialog, flags, calls, excused>> => AliasesInv'
<1> SUFFICES ASSUME AliasesInv, UNCHANGED <<table, lastId, aliases, dialog, flags, calls, excused>>
             PROVE  AliasesInv'
  OBVIOUS
<1>1. TargetsInv'
  BY TargetsKept DEF AliasesInv
<1> QED
  BY <1>1 DEF AliasesInv, AliasesServed, AliasesOut, AliasesFresh, NothingShown, ShownRows

(* A dialog that opens names an alias that is shown, and what is drafted     *)
(* without a list is blank.                                                  *)
LEMMA AliasesDrafted ==
  ASSUME AliasesInv, TargetsInv', UNCHANGED <<table, lastId, aliases, flags, calls, excused>>,
         ~excused /\ dialog'.of # None => IsOld(calls, lastId, dialog'.of),
         ~excused /\ aliases = None =>
           /\ dialog'.of = None
           /\ \A k \in DOMAIN dialog'.targets : dialog'.targets[k].provider = Blank
  PROVE  AliasesInv'
BY DEF AliasesInv, AliasesServed, AliasesOut, AliasesFresh, NothingShown, ShownRows

(* The user sends a call for an alias that is shown. *)
LEMMA AliasesSent ==
  ASSUME AliasesInv, TargetsInv', NEW kind, NEW id, NEW val, Routes!Operate(kind, id, val),
         UNCHANGED <<aliases, dialog>>,
         \/ kind = "load" /\ "loading" \notin flags /\ flags' = flags \cup {"loading"}
         \/ /\ kind \in {"create", "update"} /\ "submitting" \notin flags
            /\ flags' = flags \cup {"submitting"}
         \/ kind \in {"toggle", "delete", "test"} /\ flags' = flags,
         ~excused /\ kind \in {"update", "toggle", "delete"} => IsOld(calls, lastId, id),
         ~excused /\ kind \in Routes!Writes => aliases # None
  PROVE  AliasesInv'
<1> DEFINE k == Routes!Call(kind, id, val)
           n == Len(calls) + 1
<1>1. /\ calls' = Append(calls, k) /\ UNCHANGED <<table, lastId>>
      /\ excused' = (excused \/ Routes!Crosses(kind))
  BY DEF Routes!Operate, Routes!server
<1>2. k.kind = kind /\ k.id = id /\ k.at = "sent"
  BY DEF Routes!Call
<1> HIDE DEF k
<1>3. IsSequence(calls)
  BY DEF AliasesInv, TargetsInv
<1>4. /\ DOMAIN calls = 1..Len(calls) /\ DOMAIN calls' = 1..n /\ Len(calls) \in Nat
      /\ (\A j \in 1..Len(calls) : calls'[j] = calls[j]) /\ calls'[n] = k
  BY <1>1, <1>3, Appended
<1>5. DOMAIN calls' = DOMAIN calls \cup {n} /\ n \notin DOMAIN calls
      /\ (\A j \in DOMAIN calls : calls'[j] = calls[j]) /\ calls'[n] = k
  BY <1>4
<1> HIDE DEF n
<1>6. \A x, y : OkFor(calls', x, y) <=> OkFor(calls, x, y)
  BY <1>2, <1>5 DEF OkFor
<1>7. \A y : IsOld(calls', lastId', y) <=> IsOld(calls, lastId, y)
  BY <1>1, <1>6 DEF IsOld
<1>8. AliasesOut'
  <2>1. /\ ("loading" \in flags) \in BOOLEAN /\ ("submitting" \in flags) \in BOOLEAN
        /\ OneWhile(OutOf(calls, {"load"}), "loading" \in flags)
        /\ OneWhile(OutOf(calls, {"create", "update"}), "submitting" \in flags)
    BY DEF AliasesInv, AliasesOut
  <2>2. /\ OneWhile(OutOf(calls', {"load"}), "loading" \in flags \/ k.kind \in {"load"})
        /\ OneWhile(OutOf(calls', {"create", "update"}),
                    "submitting" \in flags \/ k.kind \in {"create", "update"})
    BY <1>1, <1>2, <1>3, <2>1, OutAppended
  <2>3. /\ "loading" \in flags' <=> "loading" \in flags \/ k.kind \in {"load"}
        /\ "submitting" \in flags' <=> "submitting" \in flags \/ k.kind \in {"create", "update"}
        /\ flags' \subseteq {"loading", "submitting"}
    BY <1>2 DEF AliasesInv, AliasesOut
  <2> QED
    BY <2>2, <2>3 DEF AliasesOut, OneWhile
<1>9. AliasesFresh'
  <2> SUFFICES ASSUME ~excused' PROVE AliasesFresh'
    BY DEF AliasesFresh
  <2>1. /\ ~excused /\ AliasesFresh
        /\ \A j \in DOMAIN calls : IF kind = "load" THEN calls[j].kind \notin Routes!Writes
                                   ELSE ~(kind \in Routes!Writes /\ calls[j].kind = "load")
    BY <1>1 DEF Routes!Crosses, AliasesInv
  <2>2. OutOf(calls', {"load"}) = {} \/ OutOf(calls', Routes!Writes) = {}
    BY <1>2, <1>5, <2>1 DEF AliasesFresh, OutOf, Routes!Writes
  <2>3. \A j \in DOMAIN calls' : AliasSays(calls'[j], calls', table', lastId')
    BY <1>1, <1>2, <1>5, <1>7, <2>1 DEF AliasesFresh, AliasSays, Routes!Writes
  <2>4. dialog'.of # None => IsOld(calls', lastId', dialog'.of)
    BY <1>7, <2>1 DEF AliasesFresh
  <2>5. aliases' = None => NothingShown'
    BY <1>2, <1>5, <2>1 DEF AliasesFresh, NothingShown, OutOf
  <2>6. aliases' # None => ShownRows'
    BY <1>1, <1>6, <1>7, <2>1 DEF AliasesFresh, ShownRows, RowSays
  <2> QED
    BY <2>2, <2>3, <2>4, <2>5, <2>6 DEF AliasesFresh
<1> QED
  BY <1>1, <1>8, <1>9 DEF AliasesInv, AliasesServed

(***************************************************************************)
(* The server of the routes page.                                          *)
(***************************************************************************)
(* The list the server answers with is that of its aliases. *)
LEMMA AliasesTold == TargetsInv => Tells(Routes!ListOf(table), table)
<1> SUFFICES ASSUME TargetsInv PROVE Tells(Routes!ListOf(table), table)
  OBVIOUS
<1> DEFINE S == {i \in AliasId : table[i] # None}
           ids == Failover!Ascending(S)
           list == Routes!ListOf(table)
<1>1. S \subseteq Int /\ IsFiniteSet(S)
  <2>1. S \in SUBSET AliasId
    OBVIOUS
  <2> HIDE DEF S
  <2> QED
    BY <2>1, AliasesAssumption, FS_Subset
<1>2. ids = Routes!Ascending(S)
  BY DEF Failover!Ascending, Failover!Ordered, Failover!Cardinality,
         Routes!Ascending, Routes!Ordered, Routes!Cardinality
<1>3. list = [k \in DOMAIN ids |-> [id |-> ids[k], enabled |-> table[ids[k]].enabled,
                                    targets |-> table[ids[k]].targets]]
  BY <1>2 DEF Routes!ListOf
<1>4. \A id : id \in S <=> id \in AliasId /\ table[id] # None
  OBVIOUS
<1> HIDE DEF S
<1>5. /\ DOMAIN ids = 1..Cardinality(S) /\ \A k \in 1..Cardinality(S) : ids[k] \in S
      /\ \A j, k \in 1..Cardinality(S) : ids[j] = ids[k] => j = k
      /\ \A id \in S : \E k \in 1..Cardinality(S) : ids[k] = id
  BY <1>1, AscendingPlaces
<1> HIDE DEF ids, list
<1>7. /\ DOMAIN list = 1..Cardinality(S)
      /\ \A k \in DOMAIN list : list[k].id = ids[k] /\ list[k].targets = table[ids[k]].targets
  BY <1>3, <1>5
<1> QED
  BY <1>4, <1>5, <1>7 DEF Tells, list

(* The flags in that list are those stored. *)
LEMMA ListedFlags ==
  ASSUME TargetsInv
  PROVE  \A k \in DOMAIN Routes!ListOf(table) :
           LET row == Routes!ListOf(table)[k] IN
           row.id \in AliasId /\ table[row.id] # None /\ row.enabled = table[row.id].enabled
<1> DEFINE list == Routes!ListOf(table)
           ids == Routes!Ascending({i \in AliasId : table[i] # None})
<1>1. list = [k \in DOMAIN ids |-> [id |-> ids[k], enabled |-> table[ids[k]].enabled,
                                    targets |-> table[ids[k]].targets]]
  BY DEF Routes!ListOf
<1>2. Tells(list, table)
  BY AliasesTold
<1> HIDE DEF ids
<1>3. \A k \in DOMAIN list : list[k].id = ids[k] /\ list[k].enabled = table[ids[k]].enabled
  BY <1>1
<1> HIDE DEF list
<1> QED
  BY <1>2, <1>3 DEF Tells, list

(* The call is settled as e. *)
AliasSettled(i, e) == calls' = [calls EXCEPT ![i] = e] /\ e.kind = calls[i].kind

LEMMA AliasesSettled ==
  ASSUME AliasesInv, NEW i \in DOMAIN calls, NEW e, AliasSettled(i, e), flags' = flags
  PROVE  /\ AliasesOut' /\ \A kinds : OutOf(calls', kinds) = OutOf(calls, kinds)
         /\ DOMAIN calls' = DOMAIN calls /\ calls'[i] = e
         /\ \A j \in DOMAIN calls \ {i} : calls'[j] = calls[j]
<1>1. IsSequence(calls)
  BY DEF AliasesInv, TargetsInv
<1>2. /\ DOMAIN calls' = DOMAIN calls /\ calls'[i] = e
      /\ \A j \in DOMAIN calls \ {i} : calls'[j] = calls[j]
  BY <1>1, Replaced DEF AliasSettled
<1>3. \A kinds : OutOf(calls', kinds) = OutOf(calls, kinds)
  BY <1>2 DEF AliasSettled, OutOf
<1> QED
  BY <1>2, <1>3 DEF AliasesInv, AliasesOut

(* What writes nothing. *)
LEMMA AliasesRead ==
  ASSUME AliasesInv, TargetsInv', NEW i \in DOMAIN calls, NEW e, AliasSettled(i, e),
         calls[i].at = "sent", e.id = calls[i].id,
         e.at # "ok" \/ e.kind = "test" \/ (e.kind = "load" /\ Tells(e.rows, table)),
         UNCHANGED <<table, lastId, excused, aliases, dialog, flags>>
  PROVE  AliasesInv'
<1>1. /\ AliasesOut' /\ \A kinds : OutOf(calls', kinds) = OutOf(calls, kinds)
      /\ DOMAIN calls' = DOMAIN calls /\ calls'[i] = e
      /\ \A j \in DOMAIN calls \ {i} : calls'[j] = calls[j]
  BY AliasesSettled
<1>2. e.kind = calls[i].kind
  BY DEF AliasSettled
<1>3. \A y : \A x \in {"create", "update", "delete"} :
        OkFor(calls', x, y) <=> OkFor(calls, x, y)
  BY <1>1, <1>2 DEF OkFor
<1>4. \A y : IsOld(calls', lastId', y) <=> IsOld(calls, lastId, y)
  BY <1>3 DEF IsOld
<1>5. AliasesFresh'
  <2> SUFFICES ASSUME ~excused PROVE AliasesFresh'
    BY DEF AliasesFresh
  <2>1. AliasesFresh
    BY DEF AliasesInv
  <2>2. \A j \in DOMAIN calls' : AliasSays(calls'[j], calls', table', lastId')
    BY <1>1, <1>2, <1>4, <2>1 DEF AliasesFresh, AliasSays
  <2>3. aliases' = None => NothingShown'
    BY <1>1, <2>1 DEF AliasesFresh, NothingShown
  <2>4. aliases' # None => ShownRows'
    BY <1>3, <1>4, <2>1 DEF AliasesFresh, ShownRows, RowSays
  <2> QED
    BY <1>1, <1>4, <2>1, <2>2, <2>3, <2>4 DEF AliasesFresh
<1> QED
  BY <1>1, <1>5 DEF AliasesInv, AliasesServed

(* What a write does: the alias id becomes row. *)
Written(i, id, row) ==
  /\ id \in AliasId
  /\ \A x \in AliasId : table'[x] = IF x = id THEN row ELSE table[x]
  /\ row = None <=> calls[i].kind = "delete"
  /\ calls[i].kind \in {"create", "update"} => row.targets = calls[i].val
  /\ calls[i].kind = "toggle" => row.targets = table[id].targets
  /\ \/ calls[i].kind = "create" /\ id = lastId + 1 /\ lastId' = lastId + 1
     \/ calls[i].kind # "create" /\ id = calls[i].id /\ lastId' = lastId /\ table[id] # None

WrittenCall(i, id) == [[calls[i] EXCEPT !.at = "ok"] EXCEPT !.id = id]

LEMMA AliasWritten ==
  ASSUME TargetsInv, NEW i \in DOMAIN calls, Routes!ServeWrite(i)
  PROVE  \E id, row :
           /\ Written(i, id, row)
           /\ \/ excused' = excused /\ calls' = [calls EXCEPT ![i] = WrittenCall(i, id)]
              \/ excused' /\ calls' = [calls EXCEPT ![i] = [calls[i] EXCEPT !.at = "error"]]
<1> DEFINE k == calls[i]
           id == IF k.kind = "create" THEN lastId + 1 ELSE k.id
<1>1. /\ k.kind \in Routes!Writes /\ k.at = "sent" /\ IsAliasCall(k)
      /\ DOMAIN table = AliasId
  BY DEF Routes!ServeWrite, TargetsInv
<1>2. k.kind \in {"create", "update", "toggle", "delete"}
  BY <1>1 DEF Routes!Writes
<1>3. \/ excused' = excused /\ calls' = [calls EXCEPT ![i] = WrittenCall(i, id)]
      \/ excused' /\ calls' = [calls EXCEPT ![i] = [calls[i] EXCEPT !.at = "error"]]
  <2>1. [calls EXCEPT ![i].at = "ok", ![i].id = id] = [calls EXCEPT ![i] = WrittenCall(i, id)]
    BY DEF WrittenCall
  <2>2. \/ excused' = excused /\ calls' = [calls EXCEPT ![i].at = "ok", ![i].id = id]
        \/ excused' /\ Routes!Settled(i, "error")
    BY Zenon DEF Routes!ServeWrite
  <2>3. [calls EXCEPT ![i].at = "error"] = [calls EXCEPT ![i] = [calls[i] EXCEPT !.at = "error"]]
    OBVIOUS
  <2> QED
    BY <2>1, <2>2, <2>3 DEF Routes!Settled
<1>4. id \in AliasId /\ (k.kind # "create" => table[id] # None)
  BY <1>1, <1>2 DEF Routes!ServeWrite, IsAliasCall
<1>5. \E row : Written(i, id, row)
  <2>1. CASE k.kind \in {"create", "update"}
    <3> DEFINE row == [enabled |-> TRUE, targets |-> k.val]
    <3>1. /\ table' = [table EXCEPT ![id] = row]
          /\ lastId' = IF k.kind = "create" THEN lastId + 1 ELSE lastId
      BY <2>1 DEF Routes!ServeWrite, Routes!Stored
    <3>2. row \in StoredAliases /\ row.targets = k.val
      BY <1>1, <2>1, TargetsTyped DEF IsAliasCall
    <3> HIDE DEF row
    <3>3. row # None
      BY <3>2, AliasesAssumption
    <3>4. Written(i, id, row)
      BY <1>1, <1>4, <2>1, <3>1, <3>2, <3>3 DEF Written
    <3> QED
      BY <3>4
  <2>2. CASE k.kind = "toggle"
    <3> DEFINE row == [table[id] EXCEPT !.enabled = k.val]
    <3>1. table' = [table EXCEPT ![id] = row] /\ lastId' = lastId
      BY <2>2 DEF Routes!ServeWrite, Routes!Stored
    <3>2. table[id] \in StoredAliases /\ k.val \in BOOLEAN
      BY <1>1, <1>4, <2>2 DEF TargetsInv, IsStored, IsAliasCall
    <3>3. row \in StoredAliases /\ row.targets = table[id].targets
      BY <3>2 DEF StoredAliases
    <3> HIDE DEF row
    <3>4. row # None
      BY <3>3, AliasesAssumption
    <3>5. Written(i, id, row)
      BY <1>1, <1>4, <2>2, <3>1, <3>3, <3>4 DEF Written
    <3> QED
      BY <3>5
  <2>3. CASE k.kind = "delete"
    <3>1. table' = [table EXCEPT ![id] = None] /\ lastId' = lastId
      BY <2>3 DEF Routes!ServeWrite, Routes!Stored
    <3>2. Written(i, id, None)
      BY <1>1, <1>4, <2>3, <3>1 DEF Written
    <3> QED
      BY <3>2
  <2> QED
    BY <1>2, <2>1, <2>2, <2>3
<1> QED
  BY <1>3, <1>5

LEMMA AliasesWritten ==
  ASSUME AliasesInv, TargetsInv', NEW i \in DOMAIN calls, Routes!ServeWrite(i),
         UNCHANGED <<aliases, dialog, flags>>
  PROVE  AliasesInv'
<1> DEFINE k == calls[i]
<1>1. PICK id, row :
        /\ Written(i, id, row)
        /\ \/ excused' = excused /\ calls' = [calls EXCEPT ![i] = WrittenCall(i, id)]
           \/ excused' /\ calls' = [calls EXCEPT ![i] = [calls[i] EXCEPT !.at = "error"]]
  BY AliasWritten DEF AliasesInv
<1>2. /\ DOMAIN k = {"kind", "id", "val", "at", "rows"} /\ k.kind \in Routes!Writes
      /\ k.at = "sent" /\ AliasesServed /\ lastId \in Int /\ \A x \in AliasId : x \in Int
  BY AliasesAssumption DEF AliasesInv, TargetsInv, IsAliasCall, Routes!ServeWrite, AliasesServed
<1>3. AliasesServed'
  BY <1>1, <1>2 DEF AliasesServed, Written
<1>4. PICK e : /\ AliasSettled(i, e)
               /\ excused' \/ (e.at = "ok" /\ e.id = id /\ e.val = k.val /\ excused' = excused)
  <2> DEFINE d == WrittenCall(i, id)
             f == [k EXCEPT !.at = "error"]
  <2>1. d.kind = k.kind /\ d.at = "ok" /\ d.id = id /\ d.val = k.val
    BY <1>2 DEF WrittenCall
  <2>2. f.kind = k.kind
    BY <1>2
  <2> HIDE DEF d, f
  <2>3. \/ excused' = excused /\ calls' = [calls EXCEPT ![i] = d]
        \/ excused' /\ calls' = [calls EXCEPT ![i] = f]
    BY <1>1 DEF d, f
  <2> QED
    BY <2>1, <2>2, <2>3 DEF AliasSettled
<1>5. /\ AliasesOut' /\ \A kinds : OutOf(calls', kinds) = OutOf(calls, kinds)
      /\ DOMAIN calls' = DOMAIN calls /\ calls'[i] = e
      /\ \A j \in DOMAIN calls \ {i} : calls'[j] = calls[j]
  BY <1>4, AliasesSettled
<1>6. AliasesFresh'
  <2> SUFFICES ASSUME ~excused' PROVE AliasesFresh'
    BY DEF AliasesFresh
  <2>1. /\ AliasesFresh /\ ~excused /\ e.kind = k.kind /\ e.at = "ok" /\ e.id = id /\ e.val = k.val
        /\ k.kind \in {"create", "update", "toggle", "delete"}
    BY <1>2, <1>4 DEF AliasesInv, AliasSettled, Routes!Writes
  <2>2. \A x, y : OkFor(calls', x, y) <=> OkFor(calls, x, y) \/ (x = k.kind /\ y = id)
    BY <1>2, <1>5, <2>1 DEF OkFor
  <2>3. \A y : IsOld(calls, lastId, y) => IsOld(calls', lastId', y) /\ (k.kind = "create" => y # id)
    BY <1>1, <1>2, <2>2 DEF IsOld, Written
  <2>4. AliasSays(k, calls, table, lastId) /\ \A j \in DOMAIN calls : AliasSays(calls[j], calls, table, lastId)
    BY <2>1 DEF AliasesFresh
  <2>5. \A j \in DOMAIN calls \ {i} :
          /\ calls[j].kind # "load"
          /\ calls[j].kind \in {"create", "update"} => k.kind \notin {"create", "update"}
    <3>1. i \in OutOf(calls, Routes!Writes)
      BY <1>2 DEF OutOf
    <3>2. OutOf(calls, {"load"}) = {}
      BY <2>1, <3>1 DEF AliasesFresh
    <3>3. AtMostOne(OutOf(calls, {"create", "update"}))
      BY DEF AliasesInv, AliasesOut, OneWhile
    <3> QED
      BY <3>2, <3>3 DEF OutOf, AtMostOne
  <2>6. k.kind # "create" => IsOld(calls, lastId, id)
    BY <1>1, <2>1, <2>4 DEF AliasSays, Written
  <2>7. ASSUME NEW j \in DOMAIN calls'
        PROVE  AliasSays(calls'[j], calls', table', lastId')
    <3>1. CASE j = i
      <4>1. e.kind \in {"update", "toggle", "delete"} => IsOld(calls', lastId', e.id)
        BY <2>1, <2>3, <2>6
      <4>2. e.kind = "create" => e.id <= lastId'
        BY <1>1, <1>2, <2>1 DEF Written
      <4>3. /\ e.id \in AliasId /\ table'[e.id] = row /\ (row = None <=> k.kind = "delete")
            /\ k.kind \in {"create", "update"} => row.targets = e.val
        BY <1>1, <2>1 DEF Written
      <4> QED
        BY <1>5, <2>1, <3>1, <4>1, <4>2, <4>3 DEF AliasSays
    <3>2. CASE j # i
      <4> DEFINE l == calls[j]
      <4>1. j \in DOMAIN calls /\ calls'[j] = l /\ AliasSays(l, calls, table, lastId) /\ l.kind # "load"
        BY <1>5, <2>4, <2>5, <3>2
      <4>2. l.kind \in {"update", "toggle", "delete"} =>
              IsOld(calls', lastId', l.id) /\ l.id \in AliasId
        BY <2>3, <4>1 DEF AliasSays, IsOld
      <4>3. l.kind = "create" /\ l.at = "ok" =>
              /\ l.id \in AliasId /\ l.id <= lastId' /\ table'[l.id] # None
              /\ l.val = table'[l.id].targets
        <5> HAVE l.kind = "create" /\ l.at = "ok"
        <5>1. /\ l.id \in AliasId /\ l.id <= lastId /\ table[l.id] # None
              /\ l.val = table[l.id].targets /\ OkFor(calls, "create", l.id)
          BY <4>1 DEF AliasSays, OkFor
        <5>2. k.kind \notin {"create", "update"} /\ id # l.id
          BY <2>5, <2>6, <3>2, <4>1, <5>1 DEF IsOld
        <5> QED
          BY <1>1, <2>1, <5>1, <5>2 DEF Written
      <4>4. l.kind = "update" /\ l.at = "ok" /\ table'[l.id] # None => l.val = table'[l.id].targets
        <5> HAVE l.kind = "update" /\ l.at = "ok" /\ table'[l.id] # None
        <5>1. l.id \in AliasId /\ (table[l.id] # None => l.val = table[l.id].targets)
          BY <4>1, <4>2 DEF AliasSays
        <5>2. k.kind \notin {"create", "update"}
          BY <2>5, <3>2, <4>1
        <5>3. CASE l.id = id
          BY <1>1, <2>1, <5>1, <5>2, <5>3 DEF Written
        <5>4. CASE l.id # id
          BY <1>1, <5>1, <5>4 DEF Written
        <5> QED
          BY <5>3, <5>4
      <4>5. l.kind = "delete" /\ l.at = "ok" => table'[l.id] = None
        <5> HAVE l.kind = "delete" /\ l.at = "ok"
        <5>1. l.id \in AliasId /\ table[l.id] = None /\ IsOld(calls, lastId, l.id)
          BY <4>1 DEF AliasSays, IsOld
        <5>2. l.id # id
          BY <1>1, <2>3, <5>1 DEF Written
        <5> QED
          BY <1>1, <5>1, <5>2 DEF Written
      <4> QED
        BY <4>1, <4>2, <4>3, <4>4, <4>5 DEF AliasSays
    <3> QED
      BY <3>1, <3>2
  <2>8. dialog'.of # None => IsOld(calls', lastId', dialog'.of)
    BY <2>1, <2>3 DEF AliasesFresh
  <2>9. aliases' # None /\ ShownRows
    <3>1. OutOf(calls, Routes!Writes) # {}
      BY <1>2 DEF OutOf
    <3> QED
      BY <2>1, <3>1 DEF AliasesFresh, NothingShown
  <2>10. ASSUME NEW j \in DOMAIN aliases
         PROVE  RowSays(aliases[j], calls', table', lastId')
    <3> DEFINE r == aliases[j]
    <3>1. RowSays(r, calls, table, lastId)
      BY <2>9 DEF ShownRows
    <3>2. r.id \in AliasId /\ IsOld(calls', lastId', r.id) /\ (k.kind = "create" => r.id # id)
      BY <2>3, <3>1 DEF RowSays, IsOld
    <3>3. CASE r.id = id
      <4>1. /\ table'[r.id] = row /\ (row = None <=> k.kind = "delete") /\ table[r.id] # None
            /\ k.kind = "toggle" => row.targets = table[r.id].targets
        BY <1>1, <3>2, <3>3 DEF Written
      <4>2. k.kind = "delete" => OkFor(calls', "delete", r.id)
        BY <2>2, <3>3
      <4>3. k.kind = "update" => OkFor(calls', "update", r.id)
        BY <2>2, <3>3
      <4>4. k.kind = "toggle" => row.targets = r.targets \/ OkFor(calls', "update", r.id)
        BY <2>2, <3>1, <4>1 DEF RowSays
      <4> QED
        BY <2>1, <3>2, <3>3, <4>1, <4>2, <4>3, <4>4 DEF RowSays
    <3>4. CASE r.id # id
      BY <1>1, <2>2, <3>1, <3>2, <3>4 DEF RowSays, Written
    <3> QED
      BY <3>3, <3>4
  <2>11. ShownRows'
    <3>1. ASSUME NEW x \in AliasId, table'[x] # None
          PROVE  OkFor(calls', "create", x) \/ \E j \in DOMAIN aliases : aliases[j].id = x
      <4>1. table[x] # None \/ (k.kind = "create" /\ x = id)
        BY <1>1, <3>1 DEF Written
      <4> QED
        BY <2>2, <2>9, <4>1 DEF ShownRows
    <3> QED
      BY <2>9, <2>10, <3>1 DEF ShownRows
  <2>12. OutOf(calls', {"load"}) = {} \/ OutOf(calls', Routes!Writes) = {}
    BY <1>5, <2>1 DEF AliasesFresh
  <2> QED
    BY <2>7, <2>8, <2>9, <2>11, <2>12 DEF AliasesFresh
<1> QED
  BY <1>3, <1>5, <1>6 DEF AliasesInv

LEMMA AliasesAreServed ==
  ASSUME AliasesInv, TargetsInv', NEW i \in DOMAIN calls, Routes!Serve(i)
  PROVE  AliasesInv'
<1>1. UNCHANGED <<aliases, dialog, flags>>
  BY DEF Routes!Serve, Routes!rows
<1>2. DOMAIN calls[i] = {"kind", "id", "val", "at", "rows"}
  BY DEF AliasesInv, TargetsInv, IsAliasCall
<1>3. CASE Routes!ServeRead(i)
  <2> DEFINE e == [[calls[i] EXCEPT !.at = "ok"] EXCEPT !.rows = Routes!ListOf(table)]
  <2>1. /\ calls[i].kind = "load" /\ calls[i].at = "sent" /\ UNCHANGED <<table, lastId, excused>>
        /\ calls' = [calls EXCEPT ![i] = e]
    BY <1>3 DEF Routes!ServeRead, Routes!server
  <2>2. e.kind = calls[i].kind /\ e.id = calls[i].id /\ e.rows = Routes!ListOf(table)
    BY <1>2
  <2> HIDE DEF e
  <2>3. Tells(e.rows, table)
    BY <2>2, AliasesTold DEF AliasesInv
  <2> QED
    BY <1>1, <2>1, <2>2, <2>3, AliasesRead DEF AliasSettled
<1>4. CASE Routes!ServeTest(i) \/ Routes!Fail(i)
  <2>1. PICK how : Routes!Settled(i, how) /\ (calls[i].kind = "test" \/ how # "ok")
    BY <1>4 DEF Routes!ServeTest, Routes!Fail
  <2> DEFINE e == [calls[i] EXCEPT !.at = how]
  <2>2. /\ calls[i].at = "sent" /\ UNCHANGED <<table, lastId, excused>>
        /\ calls' = [calls EXCEPT ![i] = e]
    BY <1>4, <2>1 DEF Routes!ServeTest, Routes!Fail, Routes!server, Routes!Settled
  <2>3. e.kind = calls[i].kind /\ e.id = calls[i].id /\ e.at = how
    BY <1>2
  <2> HIDE DEF e
  <2> QED
    BY <1>1, <2>1, <2>2, <2>3, AliasesRead DEF AliasSettled
<1>5. CASE Routes!ServeWrite(i)
  BY <1>1, <1>5, AliasesWritten
<1> QED
  BY <1>3, <1>4, <1>5 DEF Routes!Serve

(***************************************************************************)
(* The answers the routes page gets.                                       *)
(***************************************************************************)
(* What an answer leaves. *)
LEMMA AliasesLeft ==
  ASSUME AliasesInv, NEW i \in DOMAIN calls, Routes!Done(i),
         \/ calls[i].kind = "load" /\ flags' = flags \ {"loading"}
         \/ calls[i].kind \in {"create", "update"} /\ flags' = flags \ {"submitting"}
         \/ calls[i].kind \in {"toggle", "delete", "test"} /\ flags' = flags
  PROVE  /\ UNCHANGED <<table, lastId, excused>> /\ AliasesServed' /\ AliasesOut'
         /\ \A j \in DOMAIN calls' : \E k \in DOMAIN calls \ {i} : calls'[j] = calls[k]
         /\ \A x, y : OkFor(calls', x, y) => OkFor(calls, x, y)
         /\ \A x, y : OkFor(calls, x, y) =>
              OkFor(calls', x, y) \/ (calls[i].at = "ok" /\ calls[i].kind = x /\ calls[i].id = y)
         /\ \A y : IsOld(calls, lastId, y) => IsOld(calls', lastId, y)
<1>1. calls' = Left(calls, i) /\ UNCHANGED <<table, lastId, excused>> /\ IsSequence(calls)
  BY DEF Routes!Done, Routes!WithoutAt, Routes!server, Left, AliasesInv, TargetsInv
<1>2. /\ \A j \in DOMAIN calls' : Place(i, j) \in DOMAIN calls \ {i} /\ calls'[j] = calls[Place(i, j)]
      /\ \A k \in DOMAIN calls \ {i} : \E j \in DOMAIN calls' : Place(i, j) = k /\ calls'[j] = calls[k]
  BY <1>1, Removed
<1>3. \A x, y : OkFor(calls', x, y) => OkFor(calls, x, y)
  BY <1>2 DEF OkFor
<1>4. ASSUME NEW x, NEW y, OkFor(calls, x, y)
      PROVE  OkFor(calls', x, y) \/ (calls[i].at = "ok" /\ calls[i].kind = x /\ calls[i].id = y)
  <2>1. PICK k \in DOMAIN calls : calls[k].kind = x /\ calls[k].at = "ok" /\ calls[k].id = y
    BY <1>4 DEF OkFor
  <2>2. CASE k = i
    BY <2>1, <2>2
  <2>3. CASE k # i
    BY <1>2, <2>1, <2>3 DEF OkFor
  <2> QED
    BY <2>2, <2>3
<1>5. AliasesOut'
  <2>1. /\ ("loading" \in flags) \in BOOLEAN /\ ("submitting" \in flags) \in BOOLEAN
        /\ OneWhile(OutOf(calls, {"load"}), "loading" \in flags)
        /\ OneWhile(OutOf(calls, {"create", "update"}), "submitting" \in flags)
        /\ flags \subseteq {"loading", "submitting"}
    BY DEF AliasesInv, AliasesOut
  <2>2. /\ OneWhile(OutOf(calls', {"load"}), "loading" \in flags /\ calls[i].kind \notin {"load"})
        /\ OneWhile(OutOf(calls', {"create", "update"}),
                    "submitting" \in flags /\ calls[i].kind \notin {"create", "update"})
    BY <1>1, <2>1, OutLeft
  <2>3. /\ "loading" \in flags' <=> "loading" \in flags /\ calls[i].kind \notin {"load"}
        /\ "submitting" \in flags' <=>
             "submitting" \in flags /\ calls[i].kind \notin {"create", "update"}
        /\ flags' \subseteq {"loading", "submitting"}
    BY <2>1
  <2> QED
    BY <2>2, <2>3 DEF AliasesOut, OneWhile
<1>6. \A j \in DOMAIN calls' : \E k \in DOMAIN calls \ {i} : calls'[j] = calls[k]
  BY <1>2
<1>7. \A y : IsOld(calls, lastId, y) => IsOld(calls', lastId, y)
  BY <1>3 DEF IsOld
<1>8. AliasesServed'
  BY <1>1 DEF AliasesInv, AliasesServed
<1> QED
  BY <1>1, <1>3, <1>4, <1>5, <1>6, <1>7, <1>8

(* It remains to show the list. *)
LEMMA AliasesAnswered ==
  ASSUME AliasesInv, TargetsInv', NEW i \in DOMAIN calls, Routes!Done(i),
         \/ calls[i].kind = "load" /\ flags' = flags \ {"loading"}
         \/ calls[i].kind \in {"create", "update"} /\ flags' = flags \ {"submitting"}
         \/ calls[i].kind \in {"toggle", "delete", "test"} /\ flags' = flags,
         dialog'.of = dialog.of, dialog'.targets = dialog.targets,
         ~excused => \/ aliases' = None /\ aliases = None
                     \/ aliases' # None /\ ShownRows'
  PROVE  AliasesInv'
<1>1. /\ UNCHANGED <<table, lastId, excused>> /\ AliasesServed' /\ AliasesOut'
      /\ \A j \in DOMAIN calls' : \E k \in DOMAIN calls \ {i} : calls'[j] = calls[k]
      /\ \A y : IsOld(calls, lastId, y) => IsOld(calls', lastId, y)
  BY AliasesLeft
<1>2. AliasesFresh'
  <2> SUFFICES ASSUME ~excused PROVE AliasesFresh'
    BY <1>1 DEF AliasesFresh
  <2>1. AliasesFresh
    BY DEF AliasesInv
  <2>2. \A kinds : OutOf(calls, kinds) = {} => OutOf(calls', kinds) = {}
    BY <1>1 DEF OutOf
  <2>3. \A j \in DOMAIN calls' : AliasSays(calls'[j], calls', table', lastId')
    BY <1>1, <2>1 DEF AliasesFresh, AliasSays
  <2>4. aliases' = None => NothingShown'
    BY <2>1, <2>2 DEF AliasesFresh, NothingShown
  <2>5. dialog'.of # None => IsOld(calls', lastId', dialog'.of)
    BY <1>1, <2>1 DEF AliasesFresh
  <2>6. OutOf(calls', {"load"}) = {} \/ OutOf(calls', Routes!Writes) = {}
    BY <2>1, <2>2 DEF AliasesFresh
  <2> QED
    BY <2>3, <2>4, <2>5, <2>6 DEF AliasesFresh
<1> QED
  BY <1>1, <1>2 DEF AliasesInv

(* The answer changes nothing of the list. *)
LEMMA AliasesLeftAlone ==
  ASSUME AliasesInv, TargetsInv', NEW i \in DOMAIN calls, Routes!Done(i),
         \/ calls[i].kind = "load" /\ flags' = flags \ {"loading"}
         \/ calls[i].kind \in {"create", "update"} /\ flags' = flags \ {"submitting"}
         \/ calls[i].kind \in {"toggle", "delete", "test"} /\ flags' = flags,
         UNCHANGED <<aliases, dialog>>,
         calls[i].at # "ok" \/ calls[i].kind \in {"toggle", "test"}
  PROVE  AliasesInv'
<1>1. /\ UNCHANGED <<table, lastId, excused>>
      /\ \A x, y : OkFor(calls', x, y) => OkFor(calls, x, y)
      /\ \A x, y : OkFor(calls, x, y) =>
           OkFor(calls', x, y) \/ (calls[i].at = "ok" /\ calls[i].kind = x /\ calls[i].id = y)
      /\ \A y : IsOld(calls, lastId, y) => IsOld(calls', lastId, y)
  BY AliasesLeft
<1>2. \A y : \A x \in {"create", "update", "delete"} : OkFor(calls', x, y) <=> OkFor(calls, x, y)
  BY <1>1
<1>3. ShownRows => ShownRows'
  BY <1>1, <1>2 DEF ShownRows, RowSays
<1>4. ~excused => aliases = None \/ ShownRows
  BY DEF AliasesInv, AliasesFresh
<1> QED
  BY <1>3, <1>4, AliasesAnswered

LEMMA AliasesLoaded ==
  ASSUME AliasesInv, TargetsInv', NEW i \in DOMAIN calls, Routes!LoadAnswered(i)
  PROVE  AliasesInv'
<1>1. /\ Routes!Done(i) /\ calls[i].kind = "load" /\ flags' = flags \ {"loading"}
      /\ dialog' = dialog
  BY DEF Routes!LoadAnswered, Routes!Answered
<1>2. CASE calls[i].at # "ok"
  BY <1>1, <1>2, AliasesLeftAlone DEF Routes!LoadAnswered, Routes!Failed
<1>3. CASE calls[i].at = "ok"
  <2> DEFINE list == calls[i].rows
  <2>1. aliases' = list /\ AreRows(list)
    BY <1>1, <1>3 DEF Routes!LoadAnswered, Routes!Failed, AliasesInv, TargetsInv, IsAliasCall
  <2>2. list # None
    <3> DEFINE S == {list[k] : k \in DOMAIN list}
    <3>1. list \in Seq(S) /\ S \subseteq ListedAliases
      BY <2>1 DEF AreRows, IsListed, IsSequence
    <3> HIDE DEF S, list
    <3> QED
      BY <3>1, SeqMonotonic, AliasesAssumption
  <2>3. /\ UNCHANGED <<table, lastId, excused>> /\ AliasesServed
        /\ \A x, y : OkFor(calls', x, y) => OkFor(calls, x, y)
    BY <1>1, AliasesLeft DEF AliasesInv
  <2>4. ASSUME ~excused
        PROVE  ShownRows'
    <3>1. Tells(list, table)
      BY <1>1, <1>3, <2>4 DEF AliasesInv, AliasesFresh, AliasSays
    <3>2. \A y : ~OkFor(calls', "create", y)
      <4>1. i \in OutOf(calls, {"load"})
        BY <1>1 DEF OutOf
      <4>2. OutOf(calls, Routes!Writes) = {}
        BY <2>4, <4>1 DEF AliasesInv, AliasesFresh
      <4>3. \A y : ~OkFor(calls, "create", y)
        BY <4>2 DEF OkFor, OutOf, Routes!Writes
      <4> QED
        BY <2>3, <4>3
    <3> HIDE DEF list
    <3>3. \A k \in DOMAIN list : RowSays(list[k], calls', table, lastId)
      BY <2>3, <3>1, <3>2 DEF Tells, RowSays, IsOld, AliasesServed
    <3> QED
      BY <2>1, <2>3, <3>1, <3>3 DEF Tells, ShownRows
  <2> QED
    BY <1>1, <2>1, <2>2, <2>4, AliasesAnswered
<1> QED
  BY <1>2, <1>3

LEMMA AliasesSubmitted ==
  ASSUME AliasesInv, TargetsInv', NEW i \in DOMAIN calls, Routes!SubmitAnswered(i)
  PROVE  AliasesInv'
<1> DEFINE k == calls[i]
           row == [id |-> k.id, enabled |-> TRUE, targets |-> k.val]
<1>1. /\ Routes!Done(i) /\ k.kind \in {"create", "update"} /\ flags' = flags \ {"submitting"}
  BY DEF Routes!SubmitAnswered, Routes!Answered
<1>2. CASE k.at # "ok"
  BY <1>1, <1>2, AliasesLeftAlone DEF Routes!SubmitAnswered, Routes!Failed
<1>3. CASE k.at = "ok"
  <2>1. /\ dialog' = [dialog EXCEPT !.open = FALSE]
        /\ aliases # None =>
             aliases' = IF k.kind = "create" THEN Append(aliases, row) ELSE Routes!Replaced(row)
    BY <1>1, <1>3 DEF Routes!SubmitAnswered, Routes!Failed
  <2>2. dialog'.of = dialog.of /\ dialog'.targets = dialog.targets
    BY <2>1 DEF AliasesInv, TargetsInv
  <2>3. /\ UNCHANGED <<table, lastId, excused>>
        /\ \A x, y : OkFor(calls', x, y) => OkFor(calls, x, y)
        /\ \A x, y : OkFor(calls, x, y) => OkFor(calls', x, y) \/ (k.kind = x /\ k.id = y)
        /\ \A y : IsOld(calls, lastId, y) => IsOld(calls', lastId, y)
    BY <1>1, AliasesLeft
  <2>4. ASSUME ~excused
        PROVE  aliases' # None /\ ShownRows'
    <3>1. /\ AliasesFresh /\ aliases # None /\ ShownRows /\ AreRows(aliases)
          /\ AliasSays(k, calls, table, lastId)
      <4>1. i \in OutOf(calls, Routes!Writes)
        BY <1>1 DEF OutOf, Routes!Writes
      <4> QED
        BY <2>4, <4>1 DEF AliasesInv, AliasesFresh, NothingShown, TargetsInv
    <3>2. k.id \in AliasId /\ (table[k.id] # None => k.val = table[k.id].targets)
      BY <1>1, <1>3, <3>1 DEF AliasSays, IsOld
    <3>3. row.id = k.id /\ row.targets = k.val
      OBVIOUS
    <3> HIDE DEF row
    <3>4. IsSequence(aliases)
      BY <3>1 DEF AreRows
    <3>5. ASSUME NEW s, IsSequence(s), s # <<>>, aliases' = s, \A j \in DOMAIN s : IsListed(s[j])
          PROVE  aliases' # None
      <4> DEFINE S == {s[j] : j \in DOMAIN s}
      <4>1. s \in Seq(S) /\ S \subseteq ListedAliases
        BY <3>5 DEF IsListed, IsSequence
      <4> HIDE DEF S
      <4> QED
        BY <3>5, <4>1, SeqMonotonic, AliasesAssumption
    <3>6. IsListed(row)
      BY <1>1, <1>3, <3>2, TargetsTyped DEF AliasesInv, TargetsInv, IsAliasCall, IsListed, ListedAliases, row
    <3>7. CASE k.kind = "create"
      <4> DEFINE n == Len(aliases) + 1
      <4>1. aliases' = Append(aliases, row)
        BY <2>1, <3>1, <3>7
      <4>2. /\ IsSequence(aliases') /\ DOMAIN aliases = 1..Len(aliases) /\ DOMAIN aliases' = 1..n
            /\ Len(aliases) \in Nat /\ aliases'[n] = row
            /\ \A j \in 1..Len(aliases) : aliases'[j] = aliases[j]
        BY <3>4, <4>1, Appended
      <4>3. /\ DOMAIN aliases' = DOMAIN aliases \cup {n} /\ n \notin DOMAIN aliases
            /\ aliases'[n] = row /\ \A j \in DOMAIN aliases : aliases'[j] = aliases[j]
        BY <4>2
      <4> HIDE DEF n
      <4>4. aliases' # None
        <5>1. \A j \in DOMAIN aliases' : IsListed(aliases'[j])
          BY <3>1, <3>6, <4>3 DEF AreRows
        <5>2. aliases' # <<>>
          BY <4>3, EmptySeq
        <5> QED
          BY <3>5, <4>2, <5>1, <5>2
      <4>5. k.id <= lastId /\ table[k.id] # None /\ OkFor(calls, "create", k.id)
        BY <1>3, <3>1, <3>7 DEF AliasSays, OkFor
      <4>6. ~OkFor(calls', "create", k.id)
        <5>1. /\ calls' = Left(calls, i) /\ IsSequence(calls)
              /\ AtMostOne(OutOf(calls, {"create", "update"}))
          BY <1>1 DEF Routes!Done, Routes!WithoutAt, Left, AliasesInv, TargetsInv, AliasesOut, OneWhile
        <5>2. \A j \in DOMAIN calls \ {i} : calls[j].kind # "create"
          BY <3>7, <5>1 DEF AtMostOne, OutOf
        <5>3. \A j \in DOMAIN calls' : Place(i, j) \in DOMAIN calls \ {i} /\ calls'[j] = calls[Place(i, j)]
          BY <5>1, Removed
        <5> QED
          BY <5>2, <5>3 DEF OkFor
      <4>7. RowSays(row, calls', table, lastId)
        BY <3>2, <3>3, <4>5, <4>6 DEF RowSays, IsOld
      <4>8. \A j \in DOMAIN aliases : /\ RowSays(aliases[j], calls', table, lastId)
                                      /\ aliases[j].id # row.id
        <5>1. \A j \in DOMAIN aliases : RowSays(aliases[j], calls, table, lastId)
          BY <3>1 DEF ShownRows
        <5>2. \A y : OkFor(calls, "delete", y) => OkFor(calls', "delete", y)
          BY <2>3, <3>7
        <5>3. \A y : OkFor(calls, "update", y) => OkFor(calls', "update", y)
          BY <2>3, <3>7
        <5> QED
          BY <2>3, <3>3, <4>5, <5>1, <5>2, <5>3 DEF RowSays, IsOld
      <4>9. \A y \in AliasId : table[y] # None =>
              OkFor(calls', "create", y) \/ \E j \in DOMAIN aliases' : aliases'[j].id = y
        BY <2>3, <3>1, <3>3, <4>3 DEF ShownRows
      <4>10. ShownRows'
        <5>1. \A j \in DOMAIN aliases' : RowSays(aliases'[j], calls', table, lastId)
          BY <4>3, <4>7, <4>8
        <5>2. \A j, l \in DOMAIN aliases' : aliases'[j].id = aliases'[l].id => j = l
          BY <3>1, <4>3, <4>8 DEF ShownRows
        <5> QED
          BY <2>3, <4>9, <5>1, <5>2 DEF ShownRows
      <4> QED
        BY <4>4, <4>10
    <3>8. CASE k.kind = "update"
      <4>1. aliases' = [j \in DOMAIN aliases |-> IF aliases[j].id = row.id THEN row ELSE aliases[j]]
        BY <2>1, <3>1, <3>8 DEF Routes!Replaced
      <4>2. /\ DOMAIN aliases' = DOMAIN aliases
            /\ \A j \in DOMAIN aliases :
                 aliases'[j] = IF aliases[j].id = row.id THEN row ELSE aliases[j]
        BY <4>1
      <4>3. \A j \in DOMAIN aliases : aliases'[j].id = aliases[j].id
        BY <4>2
      <4>4. aliases' # None
        <5>1. CASE DOMAIN aliases = {}
          <6>1. aliases' = aliases
            <7>1. aliases = [j \in DOMAIN aliases |-> aliases[j]]
              BY <3>4 DEF IsSequence
            <7> QED
              BY <4>1, <5>1, <7>1
          <6> QED
            BY <3>1, <6>1
        <5>2. CASE DOMAIN aliases # {}
          <6>1. DOMAIN aliases = 1..Len(aliases) /\ Len(aliases) \in Nat
            BY <3>4, SequenceOf DEF IsSequence
          <6>2. aliases' = [j \in 1..Len(aliases) |-> aliases'[j]]
            BY <4>1, <6>1
          <6>3. IsSequence(aliases')
            BY <6>1, <6>2, OnPlaces
          <6>4. aliases' # <<>>
            BY <4>2, <5>2, EmptySeq
          <6>5. \A j \in DOMAIN aliases' : IsListed(aliases'[j])
            BY <3>1, <3>6, <4>2 DEF AreRows
          <6> QED
            BY <3>5, <6>3, <6>4, <6>5
        <5> QED
          BY <5>1, <5>2
      <4>5. ASSUME NEW j \in DOMAIN aliases
            PROVE  RowSays(aliases'[j], calls', table, lastId)
        <5>1. RowSays(aliases[j], calls, table, lastId)
          BY <3>1 DEF ShownRows
        <5>2. OkFor(calls, "delete", aliases[j].id) => OkFor(calls', "delete", aliases[j].id)
          BY <2>3, <3>8
        <5>3. CASE aliases[j].id = row.id
          BY <2>3, <3>2, <3>3, <4>2, <5>1, <5>2, <5>3 DEF RowSays
        <5>4. CASE aliases[j].id # row.id
          <6>1. OkFor(calls, "update", aliases[j].id) => OkFor(calls', "update", aliases[j].id)
            BY <2>3, <3>3, <5>4
          <6> QED
            BY <2>3, <4>2, <5>1, <5>2, <5>4, <6>1 DEF RowSays
        <5> QED
          BY <5>3, <5>4
      <4>6. \A y : OkFor(calls, "create", y) => OkFor(calls', "create", y)
        BY <2>3, <3>8
      <4>7. ShownRows'
        BY <2>3, <3>1, <4>2, <4>3, <4>5, <4>6 DEF ShownRows
      <4> QED
        BY <4>4, <4>7
    <3> QED
      BY <1>1, <3>7, <3>8
  <2> QED
    BY <1>1, <2>2, <2>4, AliasesAnswered
<1> QED
  BY <1>2, <1>3

LEMMA AliasesDeleted ==
  ASSUME AliasesInv, TargetsInv', NEW i \in DOMAIN calls, Routes!DeleteAnswered(i)
  PROVE  AliasesInv'
<1> DEFINE k == calls[i]
           I == {j \in DOMAIN aliases : aliases[j].id # k.id}
<1>1. Routes!Done(i) /\ k.kind = "delete" /\ UNCHANGED <<dialog, flags>>
  BY DEF Routes!DeleteAnswered, Routes!Answered
<1>2. CASE k.at # "ok"
  BY <1>1, <1>2, AliasesLeftAlone DEF Routes!DeleteAnswered, Routes!Failed
<1>3. CASE k.at = "ok"
  <2>1. aliases # None => aliases' = Routes!Picked(aliases, I)
    BY <1>3 DEF Routes!DeleteAnswered, Routes!Failed, Routes!Removed
  <2>2. /\ UNCHANGED <<table, lastId, excused>>
        /\ \A x, y : OkFor(calls', x, y) => OkFor(calls, x, y)
        /\ \A x, y : OkFor(calls, x, y) => OkFor(calls', x, y) \/ (k.kind = x /\ k.id = y)
        /\ \A y : IsOld(calls, lastId, y) => IsOld(calls', lastId, y)
    BY <1>1, AliasesLeft
  <2>3. ASSUME ~excused
        PROVE  aliases' # None /\ ShownRows'
    <3>1. /\ aliases # None /\ ShownRows /\ AreRows(aliases) /\ AliasSays(k, calls, table, lastId)
      <4>1. i \in OutOf(calls, Routes!Writes)
        BY <1>1 DEF OutOf, Routes!Writes
      <4> QED
        BY <2>3, <4>1 DEF AliasesInv, AliasesFresh, NothingShown, TargetsInv
    <3>2. table[k.id] = None
      BY <1>1, <1>3, <3>1 DEF AliasSays
    <3>3. I \in SUBSET DOMAIN aliases /\ \A j : j \in I <=> j \in DOMAIN aliases /\ aliases[j].id # k.id
      OBVIOUS
    <3> HIDE DEF I
    <3>4. aliases' = Failover!Picked(aliases, I)
      BY <2>1, <3>1 DEF Failover!Picked, Failover!Ascending, Failover!Ordered, Failover!Cardinality,
                  Routes!Picked, Routes!Ascending, Routes!Ordered, Routes!Cardinality
    <3> DEFINE place == Failover!Ascending(I)
    <3>5. /\ IsSequence(aliases')
          /\ \A l \in DOMAIN aliases' : place[l] \in I /\ aliases'[l] = aliases[place[l]]
          /\ \A j, l \in DOMAIN aliases' : place[j] = place[l] => j = l
      BY <3>1, <3>3, <3>4, PickedElements DEF AreRows
    <3>6. \A j \in I : \E l \in DOMAIN aliases' : aliases'[l] = aliases[j]
      BY <3>1, <3>3, <3>4, PickedFound DEF AreRows
    <3> HIDE DEF place
    <3>7. aliases' # None
      <4> DEFINE S == {aliases'[j] : j \in DOMAIN aliases'}
      <4>1. aliases' \in Seq(S) /\ S \subseteq ListedAliases
        BY <3>1, <3>3, <3>5, SMTT(40) DEF AreRows, IsListed, IsSequence
      <4> HIDE DEF S
      <4> QED
        BY <4>1, SeqMonotonic, AliasesAssumption
    <3>8. \A j \in I : RowSays(aliases[j], calls', table, lastId)
      <4>1. \A j \in I : RowSays(aliases[j], calls, table, lastId) /\ aliases[j].id # k.id
        BY <3>1, <3>3 DEF ShownRows
      <4>2. \A y : OkFor(calls, "delete", y) /\ y # k.id => OkFor(calls', "delete", y)
        BY <2>2
      <4>3. \A y : OkFor(calls, "update", y) => OkFor(calls', "update", y)
        BY <1>1, <2>2
      <4> QED
        BY <2>2, <4>1, <4>2, <4>3 DEF RowSays
    <3>9. \A j, l \in DOMAIN aliases' : aliases'[j].id = aliases'[l].id => j = l
      BY <3>1, <3>3, <3>5 DEF ShownRows
    <3>10. \A y \in AliasId : table[y] # None =>
             OkFor(calls', "create", y) \/ \E j \in DOMAIN aliases' : aliases'[j].id = y
      <4>1. SUFFICES ASSUME NEW y \in AliasId, table[y] # None
                     PROVE  OkFor(calls', "create", y) \/ \E j \in DOMAIN aliases' : aliases'[j].id = y
        OBVIOUS
      <4>2. OkFor(calls, "create", y) => OkFor(calls', "create", y)
        BY <1>1, <2>2
      <4>3. y # k.id
        BY <3>2, <4>1
      <4> QED
        BY <3>1, <3>3, <3>6, <4>1, <4>2, <4>3 DEF ShownRows
    <3>11. \A l \in DOMAIN aliases' : RowSays(aliases'[l], calls', table, lastId)
      BY <3>5, <3>8
    <3>12. ShownRows'
      BY <2>2, <3>9, <3>10, <3>11 DEF ShownRows
    <3> QED
      BY <3>7, <3>12
  <2> QED
    BY <1>1, <2>3, AliasesAnswered
<1> QED
  BY <1>2, <1>3

LEMMA AliasesStep == AliasesInv /\ Routes!Next => AliasesInv'
<1> SUFFICES ASSUME AliasesInv, Routes!Next PROVE AliasesInv'
  OBVIOUS
<1>1. TargetsInv /\ TargetsInv' /\ AliasesFresh
  BY TargetsStep DEF AliasesInv
<1>2. ASSUME NEW id, Routes!Row(id), ~excused
      PROVE  aliases # None /\ IsOld(calls, lastId, id)
  BY <1>1, <1>2 DEF Routes!Row, AliasesFresh, ShownRows, RowSays
<1>3. CASE Routes!Load
  BY <1>1, <1>3, AliasesSent DEF Routes!Load, Routes!rows, Routes!Writes
<1>4. ASSUME dialog'.of = dialog.of, UNCHANGED <<table, lastId, aliases, flags, calls, excused>>,
             ~excused /\ aliases = None =>
               \A k \in DOMAIN dialog'.targets : dialog'.targets[k].provider = Blank
      PROVE  AliasesInv'
  BY <1>1, <1>4, AliasesDrafted DEF AliasesFresh, NothingShown
<1>5. CASE Routes!OpenCreate
  <2> DEFINE e == Routes!EmptyTarget
             t == <<e>>
  <2>1. /\ UNCHANGED <<table, lastId, aliases, flags, calls, excused>>
        /\ dialog' = [open |-> TRUE, of |-> None, targets |-> t]
    BY <1>5 DEF Routes!OpenCreate, Routes!Quietly, Routes!rows, Routes!server
  <2>2. e.provider = Blank
    BY DEF Routes!EmptyTarget
  <2> HIDE DEF e
  <2>3. DOMAIN t = {1} /\ t[1] = e
    OBVIOUS
  <2> HIDE DEF t
  <2>4. dialog'.of = None /\ dialog'.targets = t
    BY <2>1
  <2> QED
    BY <1>1, <2>1, <2>2, <2>3, <2>4, AliasesDrafted
<1>6. CASE Routes!CloseDialog
  <2>1. /\ UNCHANGED <<table, lastId, aliases, flags, calls, excused>>
        /\ dialog' = [dialog EXCEPT !.open = FALSE]
    BY <1>6 DEF Routes!CloseDialog, Routes!Quietly, Routes!rows, Routes!server
  <2>2. dialog'.of = dialog.of /\ dialog'.targets = dialog.targets
    BY <1>1, <2>1 DEF TargetsInv
  <2> QED
    BY <1>1, <1>4, <2>1, <2>2 DEF AliasesFresh, NothingShown
<1>7. CASE Routes!HandleSubmit
  <2>1. /\ "submitting" \notin flags /\ flags' = flags \cup {"submitting"} /\ Routes!Complete
        /\ Routes!Operate(IF dialog.of = None THEN "create" ELSE "update", dialog.of, dialog.targets)
        /\ UNCHANGED <<aliases, dialog>>
    BY <1>7 DEF Routes!HandleSubmit, Routes!CanSubmit, Routes!rows
  <2>2. ~excused => aliases # None
    <3>1. AreTargets(dialog.targets)
      BY <1>1 DEF TargetsInv
    <3>2. \E k \in DOMAIN dialog.targets : dialog.targets[k].provider # Blank
      <4>1. DOMAIN dialog.targets # {}
        <5>1. /\ DOMAIN dialog.targets = 1..Len(dialog.targets) /\ Len(dialog.targets) \in Nat
              /\ dialog.targets \in Seq({dialog.targets[k] : k \in DOMAIN dialog.targets})
          BY <3>1, SequenceOf DEF AreTargets, IsSequence
        <5>2. dialog.targets # <<>>
          BY <2>1 DEF Routes!Complete
        <5> QED
          BY <5>1, <5>2, EmptySeq
      <4> QED
        BY <2>1, <4>1 DEF Routes!Complete, Routes!Range
    <3> QED
      BY <1>1, <3>2 DEF AliasesFresh, NothingShown
  <2>3. ~excused /\ dialog.of # None => IsOld(calls, lastId, dialog.of)
    BY <1>1 DEF AliasesFresh
  <2> QED
    BY <1>1, <2>1, <2>2, <2>3, AliasesSent
<1>8. CASE Routes!AliasForm
  <2> DEFINE s == dialog.targets
  <2>1. /\ DOMAIN dialog = {"open", "of", "targets"} /\ IsSequence(s)
        /\ ~excused /\ aliases = None => \A k \in DOMAIN s : s[k].provider = Blank
    BY <1>1 DEF TargetsInv, AreTargets, AliasesFresh, NothingShown
  <2>2. ASSUME NEW t, Routes!EditTarget(t),
               ~excused /\ aliases = None => \A k \in DOMAIN t : t[k].provider = Blank
        PROVE  AliasesInv'
    <3>1. /\ dialog' = [dialog EXCEPT !.targets = t]
          /\ UNCHANGED <<table, lastId, aliases, flags, calls, excused>>
      BY <2>2 DEF Routes!EditTarget, Routes!Edit, Routes!server, Routes!rows
    <3>2. dialog'.targets = t /\ dialog'.of = dialog.of
      BY <2>1, <3>1
    <3> QED
      BY <1>4, <2>2, <3>1, <3>2
  <2>3. CASE Routes!AddTarget
    <3> DEFINE e == Routes!EmptyTarget
               t == Append(s, e)
    <3>1. Routes!EditTarget(t)
      BY <2>3 DEF Routes!AddTarget
    <3>2. e.provider = Blank
      BY DEF Routes!EmptyTarget
    <3> HIDE DEF e, s
    <3>3. /\ DOMAIN t = 1..Len(s) + 1 /\ Len(s) \in Nat /\ DOMAIN s = 1..Len(s)
          /\ (\A k \in 1..Len(s) : t[k] = s[k]) /\ t[Len(s) + 1] = e
      BY <2>1, Appended
    <3>4. \A k \in DOMAIN t : (k \in DOMAIN s /\ t[k] = s[k]) \/ t[k] = e
      BY <3>3
    <3> HIDE DEF t
    <3>5. ~excused /\ aliases = None => \A k \in DOMAIN t : t[k].provider = Blank
      BY <2>1, <3>2, <3>4
    <3> QED
      BY <2>2, <3>1, <3>5
  <2>4. ASSUME NEW k \in DOMAIN s, Routes!RemoveTarget(k)
        PROVE  AliasesInv'
    <3> DEFINE t == Left(s, k)
    <3>1. Routes!EditTarget(t)
      BY <2>4 DEF Routes!RemoveTarget, Routes!WithoutAt, Left
    <3>2. \A j \in DOMAIN t : Place(k, j) \in DOMAIN s /\ t[j] = s[Place(k, j)]
      BY <2>1, Removed
    <3> HIDE DEF t
    <3> QED
      BY <2>1, <2>2, <3>1, <3>2
  <2>5. ASSUME NEW k \in DOMAIN s, NEW c \in Routes!Channels, Routes!ChooseProvider(k, c)
        PROVE  AliasesInv'
    <3>1. aliases # None /\ \E t : Routes!EditTarget(t)
      BY <2>5 DEF Routes!ChooseProvider
    <3> QED
      BY <2>2, <3>1
  <2>6. ASSUME NEW k \in DOMAIN s, NEW m, Routes!ChooseModel(k, m)
        PROVE  AliasesInv'
    <3>1. s[k].provider # Blank /\ \E t : Routes!EditTarget(t)
      BY <2>6 DEF Routes!ChooseModel
    <3>2. ~(~excused /\ aliases = None)
      BY <2>1, <3>1
    <3> QED
      BY <2>2, <3>1, <3>2
  <2> QED
    BY <1>8, <2>3, <2>4, <2>5, <2>6 DEF Routes!AliasForm
<1>9. ASSUME NEW id \in AliasId, Routes!OpenEdit(id)
      PROVE  AliasesInv'
  <2>1. /\ UNCHANGED <<table, lastId, aliases, flags, calls, excused>> /\ Routes!Row(id)
        /\ dialog' = [open |-> TRUE, of |-> id, targets |-> Routes!RowOf(id).targets]
    BY <1>9 DEF Routes!OpenEdit, Routes!Quietly, Routes!rows, Routes!server
  <2>2. dialog'.of = id
    BY <2>1
  <2> QED
    BY <1>1, <1>2, <2>1, <2>2, AliasesDrafted
<1>10. ASSUME NEW id \in AliasId, Routes!HandleToggle(id)
       PROVE  AliasesInv'
  BY <1>1, <1>2, <1>10, AliasesSent DEF Routes!HandleToggle
<1>11. ASSUME NEW id \in AliasId, Routes!HandleDelete(id)
       PROVE  AliasesInv'
  BY <1>1, <1>2, <1>11, AliasesSent DEF Routes!HandleDelete
<1>12. ASSUME NEW id \in AliasId, Routes!HandleTest(id)
       PROVE  AliasesInv'
  BY <1>1, <1>2, <1>12, AliasesSent DEF Routes!HandleTest, Routes!Writes
<1>13. ASSUME NEW i \in DOMAIN calls, Routes!Serve(i)
       PROVE  AliasesInv'
  BY <1>1, <1>13, AliasesAreServed
<1>14. ASSUME NEW i \in DOMAIN calls, Routes!ToggleAnswered(i) \/ Routes!TestAnswered(i)
       PROVE  AliasesInv'
  <2>1. /\ Routes!Done(i) /\ calls[i].kind \in {"toggle", "test"} /\ UNCHANGED <<aliases, dialog, flags>>
    BY <1>14 DEF Routes!ToggleAnswered, Routes!TestAnswered, Routes!Answered
  <2> QED
    BY <1>1, <2>1, AliasesLeftAlone
<1>15. ASSUME NEW i \in DOMAIN calls, Routes!Answer(i)
       PROVE  AliasesInv'
  BY <1>1, <1>14, <1>15, AliasesLoaded, AliasesSubmitted, AliasesDeleted DEF Routes!Answer
<1> QED
  BY <1>3, <1>5, <1>6, <1>7, <1>8, <1>9, <1>10, <1>11, <1>12, <1>13, <1>15
  DEF Routes!Next, Routes!User

(***************************************************************************)
(* The routes page: the enabled flags it was told.                         *)
(***************************************************************************)
(* A list that was loaded has the flags the page was told, a save that was   *)
(* carried out told it TRUE, and a row has the flag the page was told unless *)
(* an answer is under way that sets it.                                      *)
FlagComes(s, id) == OkFor(s, "update", id) \/ LoadOk(s)

CallFlags(k, t) ==
  k.at = "ok" =>
    /\ k.kind = "load" => \A j \in DOMAIN k.rows : k.rows[j].enabled = t[k.rows[j].id]
    /\ k.kind \in {"create", "update"} => t[k.id] = TRUE

RowFlag(row, s, t) == row.enabled = t[row.id] \/ FlagComes(s, row.id)

FlagsTold ==
  /\ DOMAIN told = AliasId
  /\ ~excused =>
       /\ \A i \in DOMAIN calls : CallFlags(calls[i], told)
       /\ aliases # None => \A k \in DOMAIN aliases : RowFlag(aliases[k], calls, told)

LEMMA FlagsInit == Routes!Init => FlagsTold
<1> SUFFICES ASSUME Routes!Init PROVE FlagsTold
  OBVIOUS
<1> DEFINE call == Routes!Call("load", None, None)
<1>1. calls \in Seq({call}) /\ DOMAIN calls = 1..1 /\ calls[1] = call
  BY DEF Routes!Init
<1>2. call.at = "sent"
  BY DEF Routes!Call
<1> HIDE DEF call
<1>3. \A i \in DOMAIN calls : calls[i].at # "ok"
  BY <1>1, <1>2
<1>4. aliases = None /\ DOMAIN told = AliasId
  BY DEF Routes!Init
<1> QED
  BY <1>3, <1>4 DEF FlagsTold, CallFlags

(* What keeps the flags as they were told: no answer to a load or a save is  *)
(* new, and each row is told or was there, its answer still under way.       *)
LEMMA FlagsKept ==
  ASSUME FlagsTold, told' = told, excused => excused',
         \A j \in DOMAIN calls' :
           \/ calls'[j].at # "ok" \/ calls'[j].kind \notin {"load", "create", "update"}
           \/ \E i \in DOMAIN calls : calls'[j] = calls[i],
         ~excused' /\ aliases' # None => \A k \in DOMAIN aliases' :
           \/ aliases'[k].enabled = told[aliases'[k].id]
           \/ /\ aliases # None /\ \E l \in DOMAIN aliases : aliases'[k] = aliases[l]
              /\ FlagComes(calls, aliases'[k].id) => FlagComes(calls', aliases'[k].id)
  PROVE  FlagsTold'
<1> SUFFICES ASSUME ~excused'
             PROVE  /\ \A j \in DOMAIN calls' : CallFlags(calls'[j], told')
                    /\ aliases' # None => \A k \in DOMAIN aliases' : RowFlag(aliases'[k], calls', told')
  BY DEF FlagsTold
<1>1. /\ \A i \in DOMAIN calls : CallFlags(calls[i], told)
      /\ aliases # None => \A k \in DOMAIN aliases : RowFlag(aliases[k], calls, told)
  BY DEF FlagsTold
<1>2. \A j \in DOMAIN calls' : CallFlags(calls'[j], told')
  BY <1>1 DEF CallFlags
<1>3. aliases' # None => \A k \in DOMAIN aliases' : RowFlag(aliases'[k], calls', told')
  BY <1>1 DEF RowFlag
<1> QED
  BY <1>2, <1>3

LEMMA FlagsSame == FlagsTold /\ UNCHANGED <<told, aliases, calls, excused>> => FlagsTold'
BY FlagsKept

LEMMA FlagsSent ==
  ASSUME AliasesInv, FlagsTold, NEW kind, NEW id, NEW val, Routes!Operate(kind, id, val),
         aliases' = aliases
  PROVE  FlagsTold'
<1> DEFINE k == Routes!Call(kind, id, val)
           n == Len(calls) + 1
<1>1. calls' = Append(calls, k) /\ told' = told /\ (excused => excused')
  BY DEF Routes!Operate
<1>2. k.at = "sent"
  BY DEF Routes!Call
<1> HIDE DEF k
<1>3. IsSequence(calls)
  BY DEF AliasesInv, TargetsInv
<1>4. /\ DOMAIN calls = 1..Len(calls) /\ DOMAIN calls' = 1..n /\ Len(calls) \in Nat
      /\ (\A j \in 1..Len(calls) : calls'[j] = calls[j]) /\ calls'[n] = k
  BY <1>1, <1>3, Appended
<1>5. DOMAIN calls' = DOMAIN calls \cup {n} /\ (\A j \in DOMAIN calls : calls'[j] = calls[j])
      /\ calls'[n] = k
  BY <1>4
<1> HIDE DEF n
<1>6. \A y : FlagComes(calls, y) => FlagComes(calls', y)
  BY <1>5 DEF FlagComes, OkFor, LoadOk
<1> QED
  BY <1>1, <1>2, <1>5, <1>6, FlagsKept

(* The server settles a call. *)
LEMMA FlagsServed ==
  ASSUME AliasesInv, FlagsTold, NEW i \in DOMAIN calls, Routes!Serve(i)
  PROVE  FlagsTold'
<1> DEFINE k == calls[i]
<1>1. aliases' = aliases /\ k.at = "sent" /\ IsSequence(calls)
      /\ DOMAIN k = {"kind", "id", "val", "at", "rows"} /\ DOMAIN told = AliasId
  BY DEF Routes!Serve, Routes!rows, Routes!ServeRead, Routes!ServeWrite, Routes!ServeTest,
         Routes!Fail, AliasesInv, TargetsInv, IsAliasCall, FlagsTold
<1>2. ASSUME NEW e, calls' = [calls EXCEPT ![i] = e]
      PROVE  /\ DOMAIN calls' = DOMAIN calls /\ calls'[i] = e
             /\ \A j \in DOMAIN calls \ {i} : calls'[j] = calls[j]
             /\ \A y : FlagComes(calls, y) => FlagComes(calls', y)
  <2>1. /\ DOMAIN calls' = DOMAIN calls /\ calls'[i] = e
        /\ \A j \in DOMAIN calls \ {i} : calls'[j] = calls[j]
    BY <1>1, <1>2, Replaced
  <2> QED
    BY <1>1, <2>1 DEF FlagComes, OkFor, LoadOk
<1>3. CASE Routes!ServeTest(i) \/ Routes!Fail(i)
  <2>1. PICK how : Routes!Settled(i, how) /\ (k.kind = "test" \/ how # "ok")
    BY <1>3 DEF Routes!ServeTest, Routes!Fail
  <2> DEFINE e == [k EXCEPT !.at = how]
  <2>2. calls' = [calls EXCEPT ![i] = e] /\ told' = told /\ excused' = excused
    BY <1>3, <2>1 DEF Routes!ServeTest, Routes!Fail, Routes!Settled
  <2>3. e.at # "ok" \/ e.kind \notin {"load", "create", "update"}
    BY <1>1, <2>1
  <2> HIDE DEF e
  <2> QED
    BY <1>1, <1>2, <2>2, <2>3, FlagsKept
<1>4. CASE Routes!ServeRead(i)
  <2> DEFINE e == [[k EXCEPT !.at = "ok"] EXCEPT !.rows = Routes!ListOf(table)]
  <2>1. /\ k.kind = "load" /\ calls' = [calls EXCEPT ![i] = e] /\ excused' = excused
        /\ told' = [id \in AliasId |-> IF table[id] = None THEN None ELSE table[id].enabled]
    BY <1>4 DEF Routes!ServeRead
  <2>2. e.kind = "load" /\ e.at = "ok" /\ e.rows = Routes!ListOf(table)
    BY <1>1, <2>1
  <2> HIDE DEF e
  <2>3. ASSUME ~excused
        PROVE  \A j \in DOMAIN calls' : CallFlags(calls'[j], told')
    <3>1. OutOf(calls, Routes!Writes) = {} /\ AtMostOne(OutOf(calls, {"load"}))
      BY <2>1, <2>3 DEF AliasesInv, AliasesFresh, AliasesOut, OneWhile, OutOf
    <3>2. \A j \in DOMAIN calls \ {i} : calls[j].kind \notin {"load", "create", "update"}
      BY <2>1, <3>1 DEF OutOf, AtMostOne, Routes!Writes
    <3>3. \A j \in DOMAIN e.rows : e.rows[j].enabled = told'[e.rows[j].id]
      BY <2>1, <2>2, ListedFlags DEF AliasesInv
    <3> QED
      BY <1>2, <2>1, <2>2, <3>2, <3>3 DEF CallFlags
  <2>4. LoadOk(calls')
    BY <1>2, <2>1, <2>2 DEF LoadOk
  <2> QED
    BY <2>1, <2>3, <2>4 DEF FlagsTold, RowFlag, FlagComes
<1>5. CASE Routes!ServeWrite(i)
  <2>1. PICK id, row :
          /\ Written(i, id, row)
          /\ \/ excused' = excused /\ calls' = [calls EXCEPT ![i] = WrittenCall(i, id)]
             \/ excused' /\ calls' = [calls EXCEPT ![i] = [calls[i] EXCEPT !.at = "error"]]
    BY <1>5, AliasWritten DEF AliasesInv
  <2>2. /\ k.kind \in {"create", "update", "toggle", "delete"} /\ id \in AliasId
        /\ k.kind = "create" => id = lastId + 1
        /\ told' = IF k.kind \in {"create", "update"} THEN [told EXCEPT ![id] = TRUE] ELSE told
    BY <1>5, <2>1 DEF Routes!ServeWrite, Routes!Writes, Written
  <2>3. DOMAIN told' = AliasId
    BY <1>1, <2>2
  <2> SUFFICES ASSUME ~excused'
               PROVE  /\ \A j \in DOMAIN calls' : CallFlags(calls'[j], told')
                      /\ aliases' # None => \A j \in DOMAIN aliases' : RowFlag(aliases'[j], calls', told')
    BY <2>3 DEF FlagsTold
  <2> DEFINE e == WrittenCall(i, id)
  <2>4. ~excused /\ calls' = [calls EXCEPT ![i] = e]
    BY <2>1
  <2>5. e.kind = k.kind /\ e.at = "ok" /\ e.id = id
    BY <1>1 DEF WrittenCall
  <2> HIDE DEF e
  <2>6. /\ \A j \in DOMAIN calls : CallFlags(calls[j], told)
        /\ aliases # None => \A j \in DOMAIN aliases : RowFlag(aliases[j], calls, told)
        /\ AliasesFresh
    BY <2>4 DEF FlagsTold, AliasesInv
  <2>7. \A j \in DOMAIN calls \ {i} :
          /\ calls[j].kind # "load"
          /\ calls[j].kind \in {"create", "update"} => k.kind \notin {"create", "update"}
    <3>1. i \in OutOf(calls, Routes!Writes)
      BY <2>2 DEF OutOf, Routes!Writes
    <3>2. OutOf(calls, {"load"}) = {}
      BY <2>4, <2>6, <3>1 DEF AliasesFresh
    <3>3. AtMostOne(OutOf(calls, {"create", "update"}))
      BY DEF AliasesInv, AliasesOut, OneWhile
    <3> QED
      BY <3>2, <3>3 DEF OutOf, AtMostOne
  <2>8. ASSUME NEW j \in DOMAIN calls'
        PROVE  CallFlags(calls'[j], told')
    <3>1. CASE j = i
      BY <1>1, <1>2, <2>2, <2>4, <2>5, <3>1 DEF CallFlags
    <3>2. CASE j # i
      <4>1. j \in DOMAIN calls /\ calls'[j] = calls[j] /\ CallFlags(calls[j], told)
        BY <1>2, <2>4, <2>6, <3>2
      <4> QED
        BY <2>2, <2>7, <3>2, <4>1 DEF CallFlags
    <3> QED
      BY <3>1, <3>2
  <2>9. ASSUME aliases # None, NEW j \in DOMAIN aliases
        PROVE  RowFlag(aliases[j], calls', told')
    <3> DEFINE r == aliases[j]
    <3>1. RowFlag(r, calls, told) /\ IsOld(calls, lastId, r.id)
      BY <2>4, <2>6, <2>9 DEF AliasesFresh, ShownRows, RowSays
    <3>2. FlagComes(calls, r.id) => FlagComes(calls', r.id)
      BY <1>2, <2>4
    <3>3. CASE k.kind = "update" /\ r.id = id
      <4>1. OkFor(calls', "update", r.id)
        BY <1>2, <2>4, <2>5, <3>3 DEF OkFor
      <4> QED
        BY <4>1 DEF RowFlag, FlagComes
    <3>4. CASE ~(k.kind = "update" /\ r.id = id)
      <4>1. k.kind = "create" => r.id # id
        BY <2>2, <3>1, AliasesAssumption DEF IsOld, AliasesInv, AliasesServed
      <4>2. told'[r.id] = told[r.id]
        BY <1>1, <2>2, <3>1, <3>4, <4>1 DEF IsOld
      <4> QED
        BY <3>1, <3>2, <4>2 DEF RowFlag
    <3> QED
      BY <3>3, <3>4
  <2> QED
    BY <1>1, <2>8, <2>9
<1> QED
  BY <1>3, <1>4, <1>5 DEF Routes!Serve

(* What an answer leaves of the flags that are under way. *)
LEMMA FlagsLeft ==
  ASSUME AliasesInv, NEW i \in DOMAIN calls, Routes!Done(i)
  PROVE  /\ told' = told /\ excused' = excused
         /\ \A j \in DOMAIN calls' : \E l \in DOMAIN calls : calls'[j] = calls[l]
         /\ \A y : FlagComes(calls, y) =>
              \/ FlagComes(calls', y)
              \/ calls[i].at = "ok" /\ calls[i].kind = "load"
              \/ calls[i].at = "ok" /\ calls[i].kind = "update" /\ calls[i].id = y
<1>1. calls' = Left(calls, i) /\ UNCHANGED <<told, excused>> /\ IsSequence(calls)
  BY DEF Routes!Done, Routes!WithoutAt, Left, AliasesInv, TargetsInv
<1>2. /\ \A j \in DOMAIN calls' : Place(i, j) \in DOMAIN calls \ {i} /\ calls'[j] = calls[Place(i, j)]
      /\ \A l \in DOMAIN calls \ {i} : \E j \in DOMAIN calls' : Place(i, j) = l /\ calls'[j] = calls[l]
  BY <1>1, Removed
<1>3. ASSUME NEW y, NEW l \in DOMAIN calls, calls[l].at = "ok",
             calls[l].kind = "load" \/ (calls[l].kind = "update" /\ calls[l].id = y)
      PROVE  \/ FlagComes(calls', y)
             \/ calls[i].at = "ok" /\ calls[i].kind = "load"
             \/ calls[i].at = "ok" /\ calls[i].kind = "update" /\ calls[i].id = y
  <2>1. CASE l = i
    BY <1>3, <2>1
  <2>2. CASE l # i
    BY <1>2, <1>3, <2>2 DEF FlagComes, OkFor, LoadOk
  <2> QED
    BY <2>1, <2>2
<1>4. \A y : FlagComes(calls, y) => \E l \in DOMAIN calls :
        calls[l].at = "ok" /\ (calls[l].kind = "load" \/ (calls[l].kind = "update" /\ calls[l].id = y))
  BY DEF FlagComes, OkFor, LoadOk
<1>5. \A j \in DOMAIN calls' : \E l \in DOMAIN calls : calls'[j] = calls[l]
  BY <1>2
<1> QED
  BY <1>1, <1>3, <1>4, <1>5

LEMMA FlagsAnswered ==
  ASSUME AliasesInv, AliasesInv', FlagsTold, NEW i \in DOMAIN calls, Routes!Answer(i)
  PROVE  FlagsTold'
<1> DEFINE k == calls[i]
<1>1. Routes!Done(i)
  BY DEF Routes!Answer, Routes!LoadAnswered, Routes!SubmitAnswered, Routes!ToggleAnswered,
         Routes!DeleteAnswered, Routes!TestAnswered
<1>2. /\ told' = told /\ excused' = excused
      /\ \A j \in DOMAIN calls' : \E l \in DOMAIN calls : calls'[j] = calls[l]
      /\ \A y : FlagComes(calls, y) =>
           \/ FlagComes(calls', y)
           \/ k.at = "ok" /\ k.kind = "load"
           \/ k.at = "ok" /\ k.kind = "update" /\ k.id = y
  BY <1>1, FlagsLeft
<1>3. ASSUME aliases' = aliases, k.at # "ok" \/ k.kind \notin {"load", "update"}
      PROVE  FlagsTold'
  BY <1>2, <1>3, FlagsKept
<1>4. CASE Routes!LoadAnswered(i)
  <2>1. CASE k.at # "ok"
    BY <1>3, <1>4, <2>1 DEF Routes!LoadAnswered, Routes!Failed
  <2>2. CASE k.at = "ok"
    <3>1. aliases' = k.rows /\ (~excused => CallFlags(k, told)) /\ k.kind = "load"
      BY <1>4, <2>2 DEF Routes!LoadAnswered, Routes!Failed, Routes!Answered, FlagsTold
    <3>2. ~excused => \A j \in DOMAIN aliases' : aliases'[j].enabled = told[aliases'[j].id]
      BY <2>2, <3>1 DEF CallFlags
    <3> QED
      BY <1>2, <3>2, FlagsKept
  <2> QED
    BY <2>1, <2>2
<1>5. CASE Routes!SubmitAnswered(i)
  <2>1. CASE k.at # "ok"
    BY <1>3, <1>5, <2>1 DEF Routes!SubmitAnswered, Routes!Failed
  <2>2. CASE k.at = "ok"
    <3> DEFINE row == [id |-> k.id, enabled |-> TRUE, targets |-> k.val]
    <3>1. /\ k.kind \in {"create", "update"}
          /\ aliases # None =>
               aliases' = IF k.kind = "create" THEN Append(aliases, row) ELSE Routes!Replaced(row)
      BY <1>5, <2>2 DEF Routes!SubmitAnswered, Routes!Failed, Routes!Answered
    <3>2. row.id = k.id /\ row.enabled = TRUE
      OBVIOUS
    <3> HIDE DEF row
    <3>3. ASSUME ~excused
          PROVE  aliases # None /\ IsSequence(aliases) /\ row.enabled = told[row.id]
      <4>1. i \in OutOf(calls, Routes!Writes)
        BY <3>1 DEF OutOf, Routes!Writes
      <4> QED
        BY <2>2, <3>1, <3>2, <3>3, <4>1
        DEF AliasesInv, AliasesFresh, NothingShown, TargetsInv, AreRows, FlagsTold, CallFlags
    <3>4. ASSUME ~excused, NEW j \in DOMAIN aliases'
          PROVE  \/ aliases'[j].enabled = told[aliases'[j].id]
                 \/ /\ aliases # None /\ \E l \in DOMAIN aliases : aliases'[j] = aliases[l]
                    /\ FlagComes(calls, aliases'[j].id) => FlagComes(calls', aliases'[j].id)
      <4>1. CASE k.kind = "create"
        <5>1. aliases' = Append(aliases, row) /\ IsSequence(aliases)
          BY <3>1, <3>3, <3>4, <4>1
        <5>2. aliases'[j] = row \/ \E l \in DOMAIN aliases : aliases'[j] = aliases[l]
          BY <3>4, <5>1, Appended
        <5> QED
          BY <1>2, <3>3, <3>4, <4>1, <5>2
      <4>2. CASE k.kind = "update"
        <5>1. aliases' = [l \in DOMAIN aliases |-> IF aliases[l].id = row.id THEN row ELSE aliases[l]]
          BY <3>1, <3>3, <3>4, <4>2 DEF Routes!Replaced
        <5>2. j \in DOMAIN aliases
              /\ aliases'[j] = IF aliases[j].id = row.id THEN row ELSE aliases[j]
          BY <3>4, <5>1
        <5> QED
          BY <1>2, <3>2, <3>3, <3>4, <4>2, <5>2
      <4> QED
        BY <3>1, <4>1, <4>2
    <3> QED
      BY <1>2, <3>4, FlagsKept
  <2> QED
    BY <2>1, <2>2
<1>6. CASE Routes!ToggleAnswered(i) \/ Routes!TestAnswered(i)
  BY <1>3, <1>6 DEF Routes!ToggleAnswered, Routes!TestAnswered, Routes!Answered
<1>7. CASE Routes!DeleteAnswered(i)
  <2>0. k.kind = "delete"
    BY <1>7 DEF Routes!DeleteAnswered, Routes!Answered
  <2>1. CASE k.at # "ok" \/ aliases = None
    BY <1>3, <1>7, <2>0, <2>1 DEF Routes!DeleteAnswered, Routes!Failed
  <2>2. CASE k.at = "ok" /\ aliases # None
    <3> DEFINE I == {j \in DOMAIN aliases : aliases[j].id # k.id}
    <3>1. aliases' = Routes!Picked(aliases, I) /\ IsSequence(aliases)
      BY <1>7, <2>2 DEF Routes!DeleteAnswered, Routes!Failed, Routes!Removed, AliasesInv, TargetsInv,
         AreRows
    <3>2. I \in SUBSET DOMAIN aliases
      OBVIOUS
    <3> HIDE DEF I
    <3>3. aliases' = Failover!Picked(aliases, I)
      BY <3>1 DEF Failover!Picked, Failover!Ascending, Failover!Ordered, Failover!Cardinality,
                  Routes!Picked, Routes!Ascending, Routes!Ordered, Routes!Cardinality
    <3>4. \A j \in DOMAIN aliases' : \E l \in DOMAIN aliases : aliases'[j] = aliases[l]
      BY <3>1, <3>2, <3>3, PickedElements
    <3> QED
      BY <1>2, <2>0, <2>2, <3>4, FlagsKept
  <2> QED
    BY <2>1, <2>2
<1> QED
  BY <1>4, <1>5, <1>6, <1>7 DEF Routes!Answer

LEMMA FlagsStep == AliasesInv /\ FlagsTold /\ Routes!Next => FlagsTold'
<1> SUFFICES ASSUME AliasesInv, FlagsTold, Routes!Next PROVE FlagsTold'
  OBVIOUS
<1>1. AliasesInv'
  BY AliasesStep
<1>2. ASSUME Routes!Quietly \/ Routes!Edit, aliases' = aliases
      PROVE  FlagsTold'
  BY <1>2, FlagsSame DEF Routes!Quietly, Routes!Edit
<1>3. CASE Routes!Load
  BY <1>3, FlagsSent DEF Routes!Load, Routes!rows
<1>4. CASE Routes!OpenCreate \/ Routes!CloseDialog \/ \E id \in AliasId : Routes!OpenEdit(id)
  BY <1>2, <1>4 DEF Routes!OpenCreate, Routes!CloseDialog, Routes!OpenEdit, Routes!rows
<1>5. CASE Routes!HandleSubmit
  <2>1. /\ aliases' = aliases
        /\ Routes!Operate(IF dialog.of = None THEN "create" ELSE "update", dialog.of, dialog.targets)
    BY <1>5 DEF Routes!HandleSubmit, Routes!rows
  <2> QED
    BY <2>1, FlagsSent
<1>6. CASE Routes!AliasForm
  <2>1. Routes!Edit
    BY <1>6 DEF Routes!AliasForm, Routes!AddTarget, Routes!RemoveTarget, Routes!ChooseProvider,
       Routes!ChooseModel, Routes!EditTarget
  <2> QED
    BY <1>2, <2>1 DEF Routes!Edit, Routes!rows
<1>7. ASSUME NEW id \in AliasId,
             Routes!HandleToggle(id) \/ Routes!HandleDelete(id) \/ Routes!HandleTest(id)
      PROVE  FlagsTold'
  <2>1. aliases' = aliases /\ \E kind, val : Routes!Operate(kind, id, val)
    BY <1>7 DEF Routes!HandleToggle, Routes!HandleDelete, Routes!HandleTest
  <2> QED
    BY <2>1, FlagsSent
<1>8. ASSUME NEW i \in DOMAIN calls, Routes!Serve(i) \/ Routes!Answer(i)
      PROVE  FlagsTold'
  BY <1>1, <1>8, FlagsServed, FlagsAnswered
<1> QED
  BY <1>3, <1>4, <1>5, <1>6, <1>7, <1>8 DEF Routes!Next, Routes!User

LEMMA AliasesQuiet == AliasesInv /\ FlagsTold => Routes!QuietMeansFresh
<1> DEFINE list == Routes!ListOf(table)
<1> SUFFICES ASSUME AliasesInv, FlagsTold, calls = <<>>, aliases # None, ~excused
             PROVE  Routes!Range(aliases) = {Routes!Told(row) : row \in Routes!Range(list)}
  BY DEF Routes!QuietMeansFresh
<1>1. Tells(list, table) /\ ShownRows /\ AreRows(list) /\ AreRows(aliases)
  BY AliasesTold, ListedTargets DEF AliasesInv, AliasesFresh, TargetsInv
<1>2. (\A x, y : ~OkFor(calls, x, y)) /\ ~LoadOk(calls)
  BY EmptySeq DEF OkFor, LoadOk
<1>3. \A k \in DOMAIN aliases : aliases[k].enabled = told[aliases[k].id]
  BY <1>2 DEF FlagsTold, RowFlag, FlagComes
<1> HIDE DEF list
<1>4. Tells(aliases, table)
  BY <1>1, <1>2 DEF ShownRows, RowSays, IsOld, Tells
<1>5. ASSUME NEW j \in DOMAIN list, NEW k \in DOMAIN aliases, list[j].id = aliases[k].id
      PROVE  aliases[k] = Routes!Told(list[j])
  <2>1. aliases[k].targets = list[j].targets
    BY <1>1, <1>4, <1>5 DEF Tells
  <2>2. /\ aliases[k] = [id |-> aliases[k].id, enabled |-> aliases[k].enabled,
                         targets |-> aliases[k].targets]
        /\ list[j] = [id |-> list[j].id, enabled |-> list[j].enabled, targets |-> list[j].targets]
    BY <1>1 DEF AreRows, IsListed, ListedAliases
  <2>3. [list[j] EXCEPT !.enabled = aliases[k].enabled] =
          [id |-> list[j].id, enabled |-> aliases[k].enabled, targets |-> list[j].targets]
    BY <2>2
  <2> QED
    BY <1>3, <1>5, <2>1, <2>2, <2>3 DEF Routes!Told
<1>6. \A k \in DOMAIN aliases : \E j \in DOMAIN list : list[j].id = aliases[k].id
  BY <1>1, <1>4 DEF Tells
<1>7. \A j \in DOMAIN list : \E k \in DOMAIN aliases : list[j].id = aliases[k].id
  BY <1>1, <1>4 DEF Tells
<1>8. Routes!Range(aliases) \subseteq {Routes!Told(row) : row \in Routes!Range(list)}
  BY <1>5, <1>6 DEF Routes!Range
<1>9. {Routes!Told(row) : row \in Routes!Range(list)} \subseteq Routes!Range(aliases)
  BY <1>5, <1>7 DEF Routes!Range
<1>10. Routes!Range(aliases) = {Routes!Told(row) : row \in Routes!Range(list)}
  BY <1>8, <1>9, Zenon
<1> QED
  BY <1>10

(***************************************************************************)
(* The keys page: the types of what it holds and sends.                    *)
(***************************************************************************)
KeyText == KeyName \cup {Blank}

IsKeyCall(k) ==
  /\ DOMAIN k = {"kind", "id", "val", "at", "rows"}
  /\ k.at \in {"sent", "ok", "error", "unauthorized"}
  /\ k.kind \in Keys!Edited \cup {"delete"} => k.id \in KeyId
  /\ k.at = "sent" =>
       /\ k.kind = "create" => k.val \in [name : KeyText, quota : Int \cup {None}]
       /\ k.kind = "rename" => k.val \in KeyText
       /\ k.kind = "models" => k.val \in SUBSET KeyModel
       /\ k.kind = "quota"  => k.val \in Int \cup {None}
  /\ k.at = "ok" =>
       /\ k.kind = "load"   => k.rows \in Seq(ListedKeys)
       /\ k.kind = "create" => k.id \in KeyId /\ k.rows \in StoredKeys
       /\ k.kind \in Keys!Edited => k.val \in KeyText

IsKeyDialog(d) ==
  /\ DOMAIN d = {"op", "id", "draft"}
  /\ d.op \in Keys!Edited => d.id \in KeyId
  /\ d.op = "rename" => d.draft \in KeyText
  /\ d.op = "models" => d.draft \in SUBSET KeyModel
  /\ d.op = "quota"  => d.draft \in Int \cup {Blank}

KeyTypes ==
  /\ IsSequence(calls) /\ \A i \in DOMAIN calls : IsKeyCall(calls[i])
  /\ table \in [KeyId -> StoredKeys \cup {None}]
  /\ keys # None => keys \in Seq(ListedKeys)
  /\ dialog # None => IsKeyDialog(dialog)
  /\ newKey \in [name : KeyText, quota : Int \cup {Blank}]

LEMMA KeyTypesInit == Keys!Init => KeyTypes
<1> SUFFICES ASSUME Keys!Init PROVE KeyTypes
  OBVIOUS
<1> DEFINE call == Keys!Call("load", None, None)
<1>1. calls \in Seq({call}) /\ DOMAIN calls = 1..1 /\ calls[1] = call
  BY DEF Keys!Init
<1>2. IsKeyCall(call)
  BY DEF Keys!Call, IsKeyCall, Keys!Edited
<1> HIDE DEF call
<1>3. IsSequence(calls) /\ \A i \in DOMAIN calls : calls[i] = call
  BY <1>1, SequenceOf
<1>4. table \in [KeyId -> StoredKeys \cup {None}]
  <2>1. DOMAIN table = KeyId /\ \A id \in KeyId : table[id] # None => table[id] \in StoredKeys
    BY KeysAssumption DEF Keys!Init
  <2>2. table = [id \in KeyId |-> table[id]]
    BY KeysAssumption DEF Keys!Init
  <2> QED
    BY <2>1, <2>2
<1>5. keys = None /\ dialog = None /\ newKey \in [name : KeyText, quota : Int \cup {Blank}]
  BY DEF Keys!Init, KeyText
<1> QED
  BY <1>2, <1>3, <1>4, <1>5 DEF KeyTypes

LEMMA KeyTypesKept ==
  KeyTypes /\ UNCHANGED <<calls, table, keys, dialog, newKey>> => KeyTypes'
BY DEF KeyTypes

(* The user sends a call. *)
LEMMA KeyTypesSent ==
  ASSUME KeyTypes, NEW kind, NEW id, NEW val, Keys!Operate(kind, id, val),
         kind \in Keys!Edited \cup {"delete"} => id \in KeyId,
         kind = "create" => val \in [name : KeyText, quota : Int \cup {None}],
         kind = "rename" => val \in KeyText,
         kind = "models" => val \in SUBSET KeyModel,
         kind = "quota"  => val \in Int \cup {None},
         UNCHANGED <<keys, newKey>>, dialog' # None => IsKeyDialog(dialog')
  PROVE  KeyTypes'
<1> DEFINE call == Keys!Call(kind, id, val)
<1>1. calls' = Append(calls, call) /\ table' = table
  BY DEF Keys!Operate, Keys!server
<1>2. IsKeyCall(call)
  BY DEF Keys!Call, IsKeyCall
<1> HIDE DEF call
<1>3. IsSequence(calls)
  BY DEF KeyTypes
<1>4. /\ IsSequence(calls') /\ DOMAIN calls = 1..Len(calls) /\ Len(calls) \in Nat
      /\ DOMAIN calls' = 1..Len(calls) + 1
      /\ (\A j \in 1..Len(calls) : calls'[j] = calls[j]) /\ calls'[Len(calls) + 1] = call
  BY <1>1, <1>3, Appended
<1>5. \A j \in DOMAIN calls' : (j \in DOMAIN calls /\ calls'[j] = calls[j]) \/ calls'[j] = call
  BY <1>4
<1> QED
  BY <1>1, <1>2, <1>4, <1>5 DEF KeyTypes

(* The list the server answers with is that of its keys, the newest first.   *)
LEMMA KeysTold ==
  ASSUME table \in [KeyId -> StoredKeys \cup {None}]
  PROVE  LET S == {id \in KeyId : table[id] # None}
             list == Keys!ListOf(table) IN
         /\ S \subseteq Int /\ IsFiniteSet(S)
         /\ list \in Seq(ListedKeys) /\ DOMAIN list = DOMAIN Failover!Descending(S)
         /\ \A k \in DOMAIN list :
              /\ list[k].id \in S /\ list[k].id = Failover!Descending(S)[k]
              /\ list[k].name = table[list[k].id].name /\ list[k].quota = table[list[k].id].quota
              /\ list[k].models = table[list[k].id].models
         /\ \A id \in S : \E k \in DOMAIN list : list[k].id = id
         /\ \A j, k \in DOMAIN list : j < k => list[j].id > list[k].id
<1> DEFINE S == {id \in KeyId : table[id] # None}
           n == Cardinality(S)
           ids == Failover!Descending(S)
           list == Keys!ListOf(table)
<1>1. S \subseteq Int /\ IsFiniteSet(S)
  <2>1. S \in SUBSET KeyId
    OBVIOUS
  <2> HIDE DEF S
  <2> QED
    BY <2>1, KeysAssumption, FS_Subset, FS_CardinalityType
<1>2. ids = Keys!Descending(S)
  BY DEF Failover!Descending, Failover!Ordered, Failover!Cardinality,
         Keys!Descending, Keys!Ordered, Keys!Cardinality
<1>3. list = [k \in DOMAIN ids |-> [id |-> ids[k], name |-> table[ids[k]].name,
                                    quota |-> table[ids[k]].quota, models |-> table[ids[k]].models]]
  BY <1>2 DEF Keys!ListOf
<1>4. \A id \in S : id \in KeyId /\ table[id] \in StoredKeys
  OBVIOUS
<1> HIDE DEF S
<1>5. /\ n \in Nat /\ DOMAIN ids = 1..n /\ \A k \in 1..n : ids[k] \in S
      /\ \A id \in S : \E k \in 1..n : ids[k] = id
      /\ \A j, k \in 1..n : j < k => ids[j] > ids[k]
  BY <1>1, DescendingPlaces
<1> HIDE DEF ids, list, n
<1>6. /\ DOMAIN list = 1..n
      /\ \A k \in 1..n : /\ list[k].id = ids[k] /\ list[k].name = table[ids[k]].name
                         /\ list[k].quota = table[ids[k]].quota /\ list[k].models = table[ids[k]].models
                         /\ list[k] \in ListedKeys
  BY <1>3, <1>4, <1>5 DEF StoredKeys, ListedKeys
<1>7. list \in Seq(ListedKeys)
  <2>1. list \in [1..n -> ListedKeys]
    BY <1>3, <1>5, <1>6
  <2> QED
    BY <1>5, <2>1, SeqDef
<1>8. /\ DOMAIN list = DOMAIN ids
      /\ \A k \in DOMAIN list :
           /\ list[k].id \in S /\ list[k].id = ids[k]
           /\ list[k].name = table[list[k].id].name /\ list[k].quota = table[list[k].id].quota
           /\ list[k].models = table[list[k].id].models
      /\ \A id \in S : \E k \in DOMAIN list : list[k].id = id
      /\ \A j, k \in DOMAIN list : j < k => list[j].id > list[k].id
  BY <1>5, <1>6
<1> QED
  BY <1>1, <1>7, <1>8, Zenon DEF S, ids, list

(* What a write does: the key id becomes row, and the call is settled as e.  *)
KeyWritten(i, id, row, e) ==
  LET k == calls[i] IN
  /\ id \in KeyId /\ row \in StoredKeys \cup {None} /\ table' = [table EXCEPT ![id] = row]
  /\ row = None <=> k.kind = "delete"
  /\ \/ k.kind = "create" /\ id = lastId + 1 /\ lastId' = lastId + 1
     \/ k.kind # "create" /\ id = k.id /\ lastId' = lastId /\ table[id] # None
  /\ k.kind \in {"models", "quota"} => row.name = table[id].name
  /\ told' = IF k.kind = "create" THEN [told EXCEPT ![id] = Keys!Limits(row)] ELSE told
  /\ calls' = [calls EXCEPT ![i] = e] /\ DOMAIN e = DOMAIN k /\ e.kind = k.kind
  /\ \/ excused' /\ e.at = "error" /\ e.id = k.id
     \/ /\ excused' = excused /\ e.at = "ok" /\ e.id = id
        /\ k.kind = "create" => e.rows = row
        /\ k.kind \in Keys!Edited => e.val = row.name

LEMMA KeyWrites ==
  ASSUME KeyTypes, NEW i \in DOMAIN calls, calls[i].at = "sent", Keys!ServeWrite(i)
  PROVE  \E id, row, e : KeyWritten(i, id, row, e)
<1> DEFINE k == calls[i]
           id == IF k.kind = "create" THEN lastId + 1 ELSE k.id
<1>1. /\ IsKeyCall(k) /\ table \in [KeyId -> StoredKeys \cup {None}]
      /\ k.kind \in {"create", "rename", "models", "quota", "delete"}
  BY DEF Keys!ServeWrite, KeyTypes, Keys!Writes, Keys!Edited
<1>2. id \in KeyId /\ (k.kind # "create" => table[id] # None)
  BY <1>1 DEF Keys!ServeWrite, IsKeyCall, Keys!Edited
<1>3. ASSUME NEW q \in Int \cup {None}
      PROVE  Keys!Decoded(q) \in Int \cup {None}
  <2>1. CASE q = None
    BY <2>1 DEF Keys!Decoded
  <2>2. CASE q # None
    <3>1. q \in Int /\ q \div MicroUSDPerUSD \in Int
      BY <2>2, KeysAssumption
    <3> QED
      BY <2>2, <3>1 DEF Keys!Decoded
  <2> QED
    BY <2>1, <2>2
<1>4. PICK row :
        /\ row \in StoredKeys \cup {None} /\ table' = [table EXCEPT ![id] = row]
        /\ row = None <=> k.kind = "delete"
        /\ \/ k.kind = "create" /\ lastId' = lastId + 1
           \/ k.kind # "create" /\ lastId' = lastId
        /\ k.kind \in {"models", "quota"} => row.name = table[id].name
  <2>1. CASE k.kind = "create"
    <3> DEFINE r == [name |-> k.val.name, quota |-> Keys!Decoded(k.val.quota), models |-> {}]
    <3>1. table' = [table EXCEPT ![id] = r] /\ lastId' = lastId + 1
      BY <2>1 DEF Keys!ServeWrite
    <3>2. k.val.name \in KeyText /\ k.val.quota \in Int \cup {None}
      BY <1>1, <2>1 DEF IsKeyCall
    <3>3. r \in StoredKeys
      BY <1>3, <3>2 DEF StoredKeys, KeyText
    <3> HIDE DEF r
    <3>4. r # None
      BY <3>3, KeysAssumption
    <3> QED
      BY <2>1, <3>1, <3>3, <3>4
  <2>2. CASE k.kind \in {"rename", "models", "quota"}
    <3> DEFINE r == IF k.kind = "rename" THEN [table[id] EXCEPT !.name = k.val]
                    ELSE IF k.kind = "models" THEN [table[id] EXCEPT !.models = k.val]
                    ELSE [table[id] EXCEPT !.quota = Keys!Decoded(k.val)]
    <3>1. table' = [table EXCEPT ![id] = r] /\ lastId' = lastId
      BY <2>2 DEF Keys!ServeWrite, Keys!Stored
    <3>2. table[id] \in StoredKeys
      BY <1>1, <1>2, <2>2
    <3>3. /\ k.kind = "rename" => k.val \in KeyText
          /\ k.kind = "models" => k.val \in SUBSET KeyModel
          /\ k.kind = "quota"  => Keys!Decoded(k.val) \in Int \cup {None}
      BY <1>1, <1>3 DEF IsKeyCall
    <3>4. /\ r \in StoredKeys
          /\ k.kind \in {"models", "quota"} => r.name = table[id].name
      BY <2>2, <3>2, <3>3 DEF StoredKeys, KeyText
    <3> HIDE DEF r
    <3>5. r # None
      BY <3>4, KeysAssumption
    <3> QED
      BY <2>2, <3>1, <3>4, <3>5
  <2>3. CASE k.kind = "delete"
    <3>1. table' = [table EXCEPT ![id] = None] /\ lastId' = lastId
      BY <2>3 DEF Keys!ServeWrite, Keys!Stored
    <3> QED
      BY <2>3, <3>1
  <2> QED
    BY <1>1, <2>1, <2>2, <2>3
<1>5. table'[id] = row
  BY <1>1, <1>2, <1>4
<1>6. told' = IF k.kind = "create" THEN [told EXCEPT ![id] = Keys!Limits(row)] ELSE told
  BY <1>5 DEF Keys!ServeWrite
<1>7. \E e : /\ calls' = [calls EXCEPT ![i] = e] /\ DOMAIN e = DOMAIN k /\ e.kind = k.kind
             /\ \/ excused' /\ e.at = "error" /\ e.id = k.id
                \/ /\ excused' = excused /\ e.at = "ok" /\ e.id = id
                   /\ k.kind = "create" => e.rows = row
                   /\ k.kind \in Keys!Edited => e.val = row.name
  <2>1. ASSUME NEW how, NEW val, Keys!Settled(i, how, val)
        PROVE  \E e : /\ calls' = [calls EXCEPT ![i] = e] /\ DOMAIN e = DOMAIN k /\ e.kind = k.kind
                      /\ e.at = how /\ e.id = k.id /\ e.val = val
    <3> DEFINE f == [[k EXCEPT !.at = how] EXCEPT !.val = val]
    <3>1. calls' = [calls EXCEPT ![i] = f]
      BY <2>1 DEF Keys!Settled
    <3>2. DOMAIN f = DOMAIN k /\ f.kind = k.kind /\ f.at = how /\ f.id = k.id /\ f.val = val
      BY <1>1 DEF IsKeyCall
    <3> HIDE DEF f
    <3> QED
      BY <3>1, <3>2
  <2>3. \/ Keys!Settled(i, "error", None) /\ excused'
        \/ /\ excused' = excused
           /\ k.kind = "create" => calls' = [calls EXCEPT ![i].at = "ok", ![i].id = id, ![i].rows = row]
           /\ k.kind = "delete" => Keys!Settled(i, "ok", None)
           /\ k.kind \in Keys!Edited => Keys!Settled(i, "ok", row.name)
    <3>1. /\ \/ /\ k.kind = "create" => calls' = [calls EXCEPT ![i].at = "ok", ![i].id = lastId + 1, ![i].rows = table'[lastId + 1]]
                /\ k.kind = "delete" => Keys!Settled(i, "ok", None)
                /\ k.kind \in {"rename", "models", "quota"} => Keys!Settled(i, "ok", table'[k.id].name)
                /\ excused' = excused
             \/ Keys!Settled(i, "error", None) /\ excused' = TRUE
      BY DEF Keys!ServeWrite
    <3> QED
      BY <1>5, <3>1 DEF Keys!Edited
  <2>4. ASSUME excused' = excused, k.kind = "create",
               calls' = [calls EXCEPT ![i].at = "ok", ![i].id = id, ![i].rows = row]
        PROVE  \E e : /\ calls' = [calls EXCEPT ![i] = e] /\ DOMAIN e = DOMAIN k /\ e.kind = k.kind
                      /\ e.at = "ok" /\ e.id = id /\ e.rows = row
    <3> DEFINE f == [[[k EXCEPT !.at = "ok"] EXCEPT !.id = id] EXCEPT !.rows = row]
    <3>1. calls' = [calls EXCEPT ![i] = f]
      BY <2>4
    <3>2. DOMAIN f = DOMAIN k /\ f.kind = k.kind /\ f.at = "ok" /\ f.id = id /\ f.rows = row
      BY <1>1 DEF IsKeyCall
    <3> HIDE DEF f
    <3> QED
      BY <3>1, <3>2
  <2>5. CASE Keys!Settled(i, "error", None) /\ excused'
    <3>1. PICK e : /\ calls' = [calls EXCEPT ![i] = e] /\ DOMAIN e = DOMAIN k /\ e.kind = k.kind
                   /\ e.at = "error" /\ e.id = k.id
      BY <2>1, <2>5
    <3> QED
      BY <2>5, <3>1
  <2>6. CASE excused' = excused /\ k.kind = "create" /\ ~(Keys!Settled(i, "error", None) /\ excused')
    BY <2>3, <2>4, <2>6 DEF Keys!Edited
  <2>7. CASE excused' = excused /\ k.kind = "delete" /\ ~(Keys!Settled(i, "error", None) /\ excused')
    <3>1. Keys!Settled(i, "ok", None) /\ id = k.id
      BY <2>3, <2>7
    <3> QED
      BY <2>1, <2>7, <3>1 DEF Keys!Edited
  <2>8. CASE excused' = excused /\ k.kind \in Keys!Edited /\ ~(Keys!Settled(i, "error", None) /\ excused')
    <3>1. Keys!Settled(i, "ok", row.name) /\ id = k.id
      BY <2>3, <2>8 DEF Keys!Edited
    <3> QED
      BY <2>1, <2>8, <3>1 DEF Keys!Edited
  <2> QED
    BY <1>1, <2>3, <2>5, <2>6, <2>7, <2>8 DEF Keys!Edited
<1>8. PICK e : /\ calls' = [calls EXCEPT ![i] = e] /\ DOMAIN e = DOMAIN k /\ e.kind = k.kind
               /\ \/ excused' /\ e.at = "error" /\ e.id = k.id
                  \/ /\ excused' = excused /\ e.at = "ok" /\ e.id = id
                     /\ k.kind = "create" => e.rows = row
                     /\ k.kind \in Keys!Edited => e.val = row.name
  BY <1>7
<1>9. KeyWritten(i, id, row, e)
  BY <1>2, <1>4, <1>6, <1>8, Zenon DEF KeyWritten
<1> QED
  BY <1>9

LEMMA KeyTypesServed ==
  ASSUME KeyTypes, NEW i \in DOMAIN calls, Keys!Serve(i)
  PROVE  KeyTypes'
<1>1. UNCHANGED <<keys, dialog, newKey>> /\ calls[i].at = "sent"
  BY DEF Keys!Serve, Keys!page
<1>2. ASSUME NEW e, calls' = [calls EXCEPT ![i] = e], IsKeyCall(e),
             table' \in [KeyId -> StoredKeys \cup {None}]
      PROVE  KeyTypes'
  <2>1. /\ IsSequence(calls') /\ DOMAIN calls' = DOMAIN calls /\ calls'[i] = e
        /\ \A j \in DOMAIN calls \ {i} : calls'[j] = calls[j]
    BY <1>2, Replaced DEF KeyTypes
  <2> QED
    BY <1>1, <1>2, <2>1 DEF KeyTypes
<1>3. IsKeyCall(calls[i])
  BY DEF KeyTypes
<1>4. ASSUME NEW how, how \in {"ok", "error", "unauthorized"}, Keys!Settled(i, how, None), table' = table,
             how = "ok" => calls[i].kind = "catalog"
      PROVE  KeyTypes'
  <2> DEFINE e == [[calls[i] EXCEPT !.at = how] EXCEPT !.val = None]
  <2>1. calls' = [calls EXCEPT ![i] = e]
    BY <1>4 DEF Keys!Settled
  <2>2. DOMAIN e = DOMAIN calls[i] /\ e.at = how /\ e.kind = calls[i].kind /\ e.id = calls[i].id
    BY <1>3 DEF IsKeyCall
  <2> HIDE DEF e
  <2>3. IsKeyCall(e)
    BY <1>3, <1>4, <2>2 DEF IsKeyCall, Keys!Edited
  <2> QED
    BY <1>2, <1>4, <2>1, <2>3 DEF KeyTypes
<1>5. CASE Keys!ServeRead(i)
  <2>1. CASE calls[i].kind = "load"
    <3> DEFINE list == Keys!ListOf(table)
               e == [[calls[i] EXCEPT !.at = "ok"] EXCEPT !.rows = list]
    <3>1. calls' = [calls EXCEPT ![i] = e] /\ table' = table
      BY <1>5, <2>1 DEF Keys!ServeRead, Keys!server
    <3>2. /\ DOMAIN e = DOMAIN calls[i] /\ e.at = "ok" /\ e.kind = "load" /\ e.id = calls[i].id
          /\ e.rows = list
      BY <1>3, <2>1 DEF IsKeyCall
    <3>3. list \in Seq(ListedKeys)
      BY KeysTold DEF KeyTypes
    <3> HIDE DEF list, e
    <3>4. IsKeyCall(e)
      BY <1>3, <3>2, <3>3 DEF IsKeyCall, Keys!Edited
    <3> QED
      BY <1>2, <3>1, <3>4 DEF KeyTypes
  <2>2. CASE calls[i].kind # "load"
    <3>1. Keys!Settled(i, "ok", None) /\ table' = table /\ calls[i].kind = "catalog"
      BY <1>5, <2>2 DEF Keys!ServeRead, Keys!server
    <3> QED
      BY <1>4, <3>1
  <2> QED
    BY <2>1, <2>2
<1>6. CASE Keys!ServeWrite(i)
  <2>1. PICK id, row, e : KeyWritten(i, id, row, e)
    BY <1>1, <1>6, KeyWrites
  <2>2. calls' = [calls EXCEPT ![i] = e] /\ table' \in [KeyId -> StoredKeys \cup {None}]
    BY <2>1 DEF KeyWritten, KeyTypes
  <2>3. IsKeyCall(e)
    <3>1. row # None => row \in StoredKeys /\ row.name \in KeyText
      BY <2>1 DEF KeyWritten, StoredKeys, KeyText
    <3>2. calls[i].kind \in Keys!Edited \cup {"create", "delete"}
      BY <1>6 DEF Keys!ServeWrite, Keys!Writes
    <3> QED
      BY <1>3, <2>1, <3>1, <3>2 DEF KeyWritten, IsKeyCall, Keys!Edited
  <2> QED
    BY <1>2, <2>2, <2>3
<1>7. CASE Keys!Fail(i)
  <2>1. PICK how \in {"error", "unauthorized"} : Keys!Settled(i, how, None) /\ table' = table
    BY <1>7 DEF Keys!Fail, Keys!server
  <2> QED
    BY <1>4, <2>1
<1> QED
  BY <1>5, <1>6, <1>7 DEF Keys!Serve

(* A call is answered. *)
LEMMA KeyTypesAnswered ==
  ASSUME KeyTypes, NEW i \in DOMAIN calls, NEW kinds, Keys!Answered(i, kinds),
         keys' # None => keys' \in Seq(ListedKeys), dialog' \in {dialog, None},
         newKey' \in {newKey, [name |-> Blank, quota |-> Blank]}
  PROVE  KeyTypes'
<1>1. calls' = Left(calls, i) /\ table' = table /\ IsSequence(calls)
  BY DEF Keys!Answered, Keys!WithoutAt, Keys!server, Left, KeyTypes
<1>2. IsSequence(calls') /\ \A j \in DOMAIN calls' : \E k \in DOMAIN calls : calls'[j] = calls[k]
  BY <1>1, Removed
<1>3. newKey' \in [name : KeyText, quota : Int \cup {Blank}]
  BY DEF KeyTypes, KeyText
<1> QED
  BY <1>1, <1>2, <1>3 DEF KeyTypes

(* The lists that answers make of the one shown. *)
LEMMA KeysPatched ==
  ASSUME KeyTypes, NEW i \in DOMAIN calls, calls[i].at = "ok"
  PROVE  /\ calls[i].kind = "create" => Keys!WithCreated(i) \in Seq(ListedKeys)
         /\ calls[i].kind \in Keys!Edited => Keys!Renamed(i) \in Seq(ListedKeys)
         /\ \A id : Keys!Removed(id) \in Seq(ListedKeys)
<1> DEFINE list == Keys!Known
<1>1. /\ IsKeyCall(calls[i]) /\ list \in Seq(ListedKeys)
      /\ IsSequence(list) /\ DOMAIN list = 1..Len(list) /\ Len(list) \in Nat
      /\ \A k \in DOMAIN list : list[k] \in ListedKeys
  <2>1. list \in Seq(ListedKeys)
    BY EmptySeq DEF KeyTypes, Keys!Known
  <2> HIDE DEF list
  <2> QED
    BY <2>1, SequenceOf, ElementOfSeq DEF KeyTypes
<1> HIDE DEF list
<1>2. ASSUME calls[i].kind = "create"
      PROVE  Keys!WithCreated(i) \in Seq(ListedKeys)
  <2>1. Keys!Record(i) \in ListedKeys
    BY <1>1, <1>2 DEF Keys!Record, IsKeyCall, StoredKeys, ListedKeys
  <2>2. <<Keys!Record(i)>> \in Seq(ListedKeys)
    BY <2>1
  <2> QED
    BY <1>1, <2>2, ConcatProperties DEF Keys!WithCreated, list
<1>3. ASSUME calls[i].kind \in Keys!Edited
      PROVE  Keys!Renamed(i) \in Seq(ListedKeys)
  <2>1. calls[i].val \in KeyText
    BY <1>1, <1>3 DEF IsKeyCall
  <2>2. \A r \in ListedKeys : [r EXCEPT !.name = calls[i].val] \in ListedKeys
    BY <2>1 DEF ListedKeys, KeyText
  <2>3. Keys!Renamed(i) \in [1..Len(list) -> ListedKeys]
    <3>1. Keys!Renamed(i) = [k \in DOMAIN list |-> IF list[k].id = calls[i].id
                                                   THEN [list[k] EXCEPT !.name = calls[i].val] ELSE list[k]]
      BY DEF Keys!Renamed, list
    <3> QED
      BY <1>1, <2>2, <3>1
  <2> QED
    BY <1>1, <2>3, SeqDef
<1>4. ASSUME NEW id
      PROVE  Keys!Removed(id) \in Seq(ListedKeys)
  <2> DEFINE I == {k \in DOMAIN list : list[k].id # id}
             t == Failover!Picked(list, I)
             T == {t[k] : k \in DOMAIN t}
  <2>1. Keys!Removed(id) = t
    BY DEF list, Keys!Removed, Failover!Picked, Failover!Ascending, Failover!Ordered, Failover!Cardinality,
                Keys!Picked, Keys!Ascending, Keys!Ordered, Keys!Cardinality
  <2>2. I \in SUBSET DOMAIN list
    OBVIOUS
  <2> HIDE DEF I
  <2>3. IsSequence(t) /\ \A k \in DOMAIN t : \E j \in DOMAIN list : t[k] = list[j]
    BY <1>1, <2>2, PickedElements
  <2> HIDE DEF t
  <2>4. t \in Seq(T) /\ T \subseteq ListedKeys
    BY <1>1, <2>3 DEF IsSequence
  <2> HIDE DEF T
  <2> QED
    BY <2>1, <2>4, SeqMonotonic
<1> QED
  BY <1>1, <1>2, <1>3, <1>4

LEMMA KeyTypesStep == KeyTypes /\ Keys!Next => KeyTypes'
<1> SUFFICES ASSUME KeyTypes, Keys!Next PROVE KeyTypes'
  OBVIOUS
<1>1. ASSUME NEW id, Keys!Row(id)
      PROVE  id \in KeyId /\ Keys!RowOf(id) \in ListedKeys
  <2>1. keys \in Seq(ListedKeys) /\ \A k \in DOMAIN keys : keys[k] \in ListedKeys
    BY <1>1, ElementOfSeq, SequenceOf DEF KeyTypes, Keys!Row
  <2> QED
    BY <1>1, <2>1 DEF Keys!Row, Keys!RowOf, ListedKeys
<1>2. ASSUME UNCHANGED <<calls, table, keys>>, dialog' # None => IsKeyDialog(dialog'),
             newKey' \in [name : KeyText, quota : Int \cup {Blank}]
      PROVE  KeyTypes'
  BY <1>2 DEF KeyTypes
<1>3. CASE Keys!LoadKeys
  BY <1>3, KeyTypesSent DEF Keys!LoadKeys, Keys!page, Keys!Edited, KeyTypes
<1>4. CASE Keys!OpenCreate
  <2> DEFINE d == [op |-> "create", id |-> None, draft |-> None]
  <2>1. dialog' = d /\ UNCHANGED <<calls, table, keys, newKey>>
    BY <1>4 DEF Keys!OpenCreate, Keys!Open, Keys!Quietly, Keys!server
  <2>2. IsKeyDialog(d)
    BY DEF IsKeyDialog, Keys!Edited
  <2> QED
    BY <1>2, <2>1, <2>2 DEF KeyTypes
<1>5. CASE Keys!Close \/ Keys!CloseVisible
  BY <1>2, <1>5 DEF Keys!Close, Keys!CloseVisible, Keys!Quietly, Keys!server, KeyTypes
<1>6. CASE Keys!Refused
  BY <1>2, <1>6 DEF Keys!Refused, Keys!Quietly, Keys!server, KeyTypes
<1>7. ASSUME NEW text \in Int \cup {Blank}
      PROVE  Keys!CostQuota(text) \in Int \cup {None}
  BY DEF Keys!CostQuota
<1>8. CASE Keys!HandleCreate
  <2> DEFINE val == [name |-> newKey.name, quota |-> Keys!CostQuota(newKey.quota)]
  <2>1. CASE ~Keys!Refused
    <3>1. Keys!Operate("create", None, val) /\ UNCHANGED <<keys, dialog, newKey>>
      BY <1>8, <2>1 DEF Keys!HandleCreate
    <3>2. val \in [name : KeyText, quota : Int \cup {None}]
      BY <1>7 DEF KeyTypes
    <3> HIDE DEF val
    <3> QED
      BY <3>1, <3>2, KeyTypesSent DEF Keys!Edited, KeyTypes
  <2> QED
    BY <1>6, <2>1
<1>9. ASSUME NEW id \in KeyId, Keys!OpenModelsDialog(id)
      PROVE  KeyTypes'
  <2> DEFINE d == [op |-> "models", id |-> id, draft |-> Keys!RowOf(id).models]
  <2>1. dialog' = d /\ Keys!Operate("catalog", None, None) /\ UNCHANGED <<keys, newKey>>
    BY <1>9 DEF Keys!OpenModelsDialog, Keys!Open
  <2>2. IsKeyDialog(d)
    BY <1>1, <1>9 DEF IsKeyDialog, Keys!Edited, Keys!OpenModelsDialog, ListedKeys
  <2> HIDE DEF d
  <2> QED
    BY <2>1, <2>2, KeyTypesSent DEF Keys!Edited
<1>10. ASSUME NEW id \in KeyId, Keys!HandleDelete(id)
       PROVE  KeyTypes'
  BY <1>10, KeyTypesSent DEF Keys!HandleDelete, Keys!Edited, KeyTypes
<1>11. ASSUME NEW id \in KeyId, NEW op, Keys!OpenDialog(op, id)
       PROVE  KeyTypes'
  <2> DEFINE draft == IF op = "rename" THEN Keys!RowOf(id).name
                      ELSE IF Keys!RowOf(id).quota = None THEN Blank ELSE Keys!RowOf(id).quota
             d == [op |-> op, id |-> id, draft |-> draft]
  <2>1. dialog' = d /\ UNCHANGED <<calls, table, keys, newKey>> /\ op \in {"rename", "quota"}
    BY <1>11 DEF Keys!OpenDialog, Keys!Open, Keys!Quietly, Keys!server
  <2>2. /\ op = "rename" => draft \in KeyText
        /\ op = "quota"  => draft \in Int \cup {Blank}
    BY <1>1, <1>11 DEF Keys!OpenDialog, ListedKeys, KeyText
  <2> HIDE DEF draft
  <2>3. IsKeyDialog(d)
    BY <2>1, <2>2 DEF IsKeyDialog, Keys!Edited
  <2> QED
    BY <1>2, <2>1, <2>3 DEF KeyTypes
<1>12. ASSUME NEW name \in KeyName \cup {Blank}, NEW q \in QuotaText, Keys!EditNewKey(name, q)
       PROVE  KeyTypes'
  <2>1. /\ newKey' = [name |-> name, quota |-> q] /\ dialog' = dialog
        /\ UNCHANGED <<calls, table, keys>>
    BY <1>12 DEF Keys!EditNewKey, Keys!Edit, Keys!Quietly, Keys!server
  <2>2. newKey' \in [name : KeyText, quota : Int \cup {Blank}]
    BY <2>1, KeysAssumption DEF KeyText
  <2> QED
    BY <1>2, <2>1, <2>2 DEF KeyTypes
<1>13. ASSUME NEW op, NEW text, Keys!EditDraft(op, text),
              op = "rename" => text \in KeyText, op = "models" => text \in SUBSET KeyModel,
              op = "quota" => text \in Int \cup {Blank}
       PROVE  KeyTypes'
  <2>1. /\ dialog # None /\ dialog.op = op /\ dialog' = [dialog EXCEPT !.draft = text]
        /\ UNCHANGED <<calls, table, keys, newKey>>
    BY <1>13 DEF Keys!EditDraft, Keys!Edit, Keys!Quietly, Keys!server
  <2>2. IsKeyDialog(dialog)
    BY <2>1 DEF KeyTypes
  <2>3. DOMAIN dialog' = DOMAIN dialog /\ dialog'.op = op /\ dialog'.id = dialog.id /\ dialog'.draft = text
    BY <2>1, <2>2 DEF IsKeyDialog
  <2>4. IsKeyDialog(dialog')
    BY <1>13, <2>1, <2>2, <2>3 DEF IsKeyDialog
  <2> QED
    BY <1>2, <2>1, <2>4 DEF KeyTypes
<1>14. ASSUME NEW m \in KeyModel, Keys!AddModelRestriction(m) \/ Keys!RemoveModel(m)
       PROVE  KeyTypes'
  <2>1. PICK text \in {dialog.draft \cup {m}, dialog.draft \ {m}} : Keys!EditDraft("models", text)
    BY <1>14 DEF Keys!AddModelRestriction, Keys!RemoveModel, Keys!EditModels
  <2>2. dialog.draft \in SUBSET KeyModel
    BY <2>1 DEF Keys!EditDraft, KeyTypes, IsKeyDialog
  <2>3. text \in SUBSET KeyModel
    BY <2>1, <2>2
  <2> QED
    BY <1>13, <2>1, <2>3
<1>15. ASSUME NEW op \in Keys!Edited, Keys!HandleSave(op)
       PROVE  KeyTypes'
  <2>1. CASE ~Keys!Refused
    <3> DEFINE val == Keys!Payload(op, dialog.draft)
    <3>1. /\ Keys!Operate(op, dialog.id, val) /\ UNCHANGED <<keys, dialog, newKey>>
          /\ dialog # None /\ dialog.op = op
      BY <1>15, <2>1 DEF Keys!HandleSave
    <3>2. IsKeyDialog(dialog)
      BY <3>1 DEF KeyTypes
    <3>3. /\ op = "rename" => val \in KeyText
          /\ op = "models" => val \in SUBSET KeyModel
          /\ op = "quota"  => val \in Int \cup {None}
      BY <1>7, <3>1, <3>2 DEF IsKeyDialog, Keys!Payload
    <3> HIDE DEF val
    <3> QED
      BY <3>1, <3>2, <3>3, KeyTypesSent DEF IsKeyDialog, Keys!Edited
  <2> QED
    BY <1>6, <2>1
<1>16. ASSUME NEW i \in DOMAIN calls, Keys!Serve(i)
       PROVE  KeyTypes'
  BY <1>16, KeyTypesServed
<1>17. ASSUME NEW i \in DOMAIN calls, NEW kind, Keys!Answered(i, {kind}), keys' = keys,
              dialog' \in {dialog, None}, newKey' = newKey
       PROVE  KeyTypes'
  BY <1>17, KeyTypesAnswered DEF KeyTypes
<1>18. ASSUME NEW i \in DOMAIN calls, Keys!LoadAnswered(i) \/ Keys!CatalogAnswered(i)
       PROVE  KeyTypes'
  <2>1. CASE Keys!LoadAnswered(i) /\ calls[i].at = "ok"
    <3>1. Keys!Answered(i, {"load"}) /\ keys' = calls[i].rows /\ UNCHANGED <<dialog, newKey>>
      BY <2>1 DEF Keys!LoadAnswered, Keys!Succeeded
    <3>2. calls[i].kind = "load" /\ calls[i].rows \in Seq(ListedKeys)
      BY <2>1, <3>1 DEF Keys!Answered, KeyTypes, IsKeyCall
    <3> QED
      BY <3>1, <3>2, KeyTypesAnswered
  <2>2. CASE ~(Keys!LoadAnswered(i) /\ calls[i].at = "ok")
    BY <1>17, <1>18, <2>2 DEF Keys!LoadAnswered, Keys!CatalogAnswered, Keys!Succeeded
  <2> QED
    BY <2>1, <2>2
<1>19. \A i \in DOMAIN calls : calls[i].at = "ok" /\ calls[i].kind \in Keys!Edited \cup {"create", "delete"} =>
         /\ calls[i].kind = "create" => Keys!WithCreated(i) \in Seq(ListedKeys)
         /\ calls[i].kind \in Keys!Edited => Keys!Renamed(i) \in Seq(ListedKeys)
         /\ \A id : Keys!Removed(id) \in Seq(ListedKeys)
  BY KeysPatched
<1>20. ASSUME NEW i \in DOMAIN calls, Keys!CreateAnswered(i)
       PROVE  KeyTypes'
  <2>1. Keys!Answered(i, {"create"}) /\ calls[i].kind = "create"
    BY <1>20 DEF Keys!CreateAnswered, Keys!Answered
  <2>2. /\ dialog' \in {dialog, None} /\ newKey' \in {newKey, [name |-> Blank, quota |-> Blank]}
        /\ keys' = keys \/ (keys' = Keys!WithCreated(i) /\ calls[i].at = "ok")
    BY <1>20 DEF Keys!CreateAnswered, Keys!Succeeded, Keys!Without
  <2> QED
    BY <1>19, <2>1, <2>2, KeyTypesAnswered DEF KeyTypes
<1>21. ASSUME NEW i \in DOMAIN calls, NEW op \in Keys!Edited, Keys!SaveAnswered(i, op)
       PROVE  KeyTypes'
  <2>1. Keys!Answered(i, {op}) /\ calls[i].kind = op /\ newKey' = newKey
    BY <1>21 DEF Keys!SaveAnswered, Keys!Answered
  <2>2. /\ dialog' \in {dialog, None}
        /\ keys' = keys \/ (keys' = Keys!Renamed(i) /\ calls[i].at = "ok")
    BY <1>21 DEF Keys!SaveAnswered, Keys!Succeeded, Keys!Without
  <2> QED
    BY <1>19, <2>1, <2>2, KeyTypesAnswered DEF KeyTypes
<1>22. ASSUME NEW i \in DOMAIN calls, Keys!DeleteAnswered(i)
       PROVE  KeyTypes'
  <2>1. Keys!Answered(i, {"delete"}) /\ calls[i].kind = "delete" /\ UNCHANGED <<dialog, newKey>>
    BY <1>22 DEF Keys!DeleteAnswered, Keys!Answered
  <2>2. keys' = keys \/ (keys' = Keys!Removed(calls[i].id) /\ calls[i].at = "ok")
    BY <1>22 DEF Keys!DeleteAnswered, Keys!Succeeded
  <2> QED
    BY <1>19, <2>1, <2>2, KeyTypesAnswered DEF KeyTypes
<1> QED
  BY <1>3, <1>4, <1>5, <1>8, <1>9, <1>10, <1>11, <1>12, <1>13, <1>14, <1>15, <1>16, <1>18, <1>20,
     <1>21, <1>22, KeysAssumption
  DEF Keys!Next, Keys!EditRename, Keys!EditQuota, Keys!HandleRename, Keys!HandleSaveModels,
      Keys!HandleSaveQuota, Keys!RenameAnswered, Keys!ModelsAnswered, Keys!QuotaAnswered, Keys!Edited,
      KeyText

(***************************************************************************)
(* The keys page: the list it settles on.                                  *)
(***************************************************************************)
OkEdited(s, id) == \E i \in DOMAIN s : s[i].kind \in Keys!Edited /\ s[i].at = "ok" /\ s[i].id = id

(* A key that the page can name: it is not the one being created.            *)
IsOldKey(s, last, id) == id \in KeyId /\ id <= last /\ ~OkFor(s, "create", id)

(* What a call says about the table, and a row about the table and the calls *)
(* that are out.                                                             *)
KeySays(k, s, t, last) ==
  /\ k.kind \in Keys!Edited \cup {"delete"} => IsOldKey(s, last, k.id)
  /\ k.at = "ok" =>
       /\ k.kind = "load"   => k.rows = Keys!ListOf(t)
       /\ k.kind = "create" => k.id = last /\ t[k.id] = k.rows
       /\ k.kind \in Keys!Edited /\ t[k.id] # None => k.val = t[k.id].name
       /\ k.kind = "delete" => t[k.id] = None

KeyRowSays(r, s, t, last) ==
  /\ IsOldKey(s, last, r.id)
  /\ t[r.id] = None => OkFor(s, "delete", r.id)
  /\ t[r.id] # None => r.name = t[r.id].name \/ OkEdited(s, r.id)

KeysStored == lastId \in Nat /\ \A id \in KeyId : table[id] # None => id <= lastId
KeysOut == creating \in BOOLEAN /\ OneWhile(OutOf(calls, {"create"}), creating)

(* Two saves of a key are not out at once. *)
EditsApart ==
  \A i, j \in DOMAIN calls :
    calls[i].kind \in Keys!Edited /\ calls[j].kind \in Keys!Edited /\ calls[i].id = calls[j].id => i = j

ShownKeys ==
  /\ \A k \in DOMAIN keys : KeyRowSays(keys[k], calls, table, lastId)
  /\ \A j, k \in DOMAIN keys : j < k => keys[j].id > keys[k].id
  /\ \A id \in KeyId : table[id] # None =>
       OkFor(calls, "create", id) \/ \E k \in DOMAIN keys : keys[k].id = id

KeysFresh ==
  ~excused =>
    /\ OutOf(calls, {"load"}) = {} \/ OutOf(calls, Keys!Writes) = {}
    /\ EditsApart
    /\ \A i \in DOMAIN calls : KeySays(calls[i], calls, table, lastId)
    /\ dialog # None /\ dialog.op # "create" => IsOldKey(calls, lastId, dialog.id)
    /\ keys = None => /\ OutOf(calls, Keys!Writes) = {}
                      /\ error \/ signedOut \/ OutOf(calls, {"load"}) # {}
    /\ keys # None => ShownKeys

KeysListed == KeyTypes /\ KeysStored /\ KeysOut /\ KeysFresh

LEMMA KeysListedInit == Keys!Init => KeysListed
<1> SUFFICES ASSUME Keys!Init PROVE KeysListed
  OBVIOUS
<1> DEFINE call == Keys!Call("load", None, None)
<1>1. calls \in Seq({call}) /\ DOMAIN calls = 1..1 /\ calls[1] = call
  BY DEF Keys!Init
<1>2. call.kind = "load" /\ call.at = "sent"
  BY DEF Keys!Call
<1> HIDE DEF call
<1>3. DOMAIN calls = {1} /\ calls[1].kind = "load" /\ calls[1].at = "sent"
  BY <1>1, <1>2
<1>4. KeysOut
  BY <1>3 DEF Keys!Init, KeysOut, OneWhile, AtMostOne, OutOf
<1>5. KeysStored
  <2>1. table \in InitialKeys /\ lastId = Cardinality({i \in KeyId : table[i] # None})
    BY DEF Keys!Init, Keys!Cardinality, Cardinality
  <2>2. IsFiniteSet({i \in KeyId : table[i] # None})
    BY KeysAssumption, FS_Subset
  <2> QED
    BY <2>1, <2>2, KeysAssumption, FS_CardinalityType DEF KeysStored
<1>6. keys = None /\ dialog = None
  BY DEF Keys!Init
<1>7. KeysFresh
  BY <1>3, <1>6 DEF KeysFresh, EditsApart, KeySays, OutOf, Keys!Writes, Keys!Edited
<1> QED
  BY <1>4, <1>5, <1>7, KeyTypesInit DEF KeysListed

LEMMA KeysListedSame ==
  KeysListed /\ UNCHANGED <<table, lastId, keys, error, dialog, newKey, creating, calls, signedOut,
                            excused>> => KeysListed'
<1> SUFFICES ASSUME KeysListed, UNCHANGED <<table, lastId, keys, error, dialog, newKey, creating, calls,
                                            signedOut, excused>>
             PROVE  KeysListed'
  OBVIOUS
<1>1. KeyTypes'
  BY KeyTypesKept DEF KeysListed
<1> QED
  BY <1>1 DEF KeysListed, KeysStored, KeysOut, KeysFresh, EditsApart, ShownKeys

(* A dialog that opens names a key that is shown. *)
LEMMA KeysDrafted ==
  ASSUME KeysListed, KeyTypes',
         UNCHANGED <<table, lastId, keys, creating, calls, signedOut, excused>>,
         error' = error \/ error' = TRUE,
         ~excused /\ dialog' # None /\ dialog'.op # "create" => IsOldKey(calls, lastId, dialog'.id)
  PROVE  KeysListed'
BY DEF KeysListed, KeysStored, KeysOut, KeysFresh, EditsApart, ShownKeys

(* The user sends a call for a key that is shown. *)
LEMMA KeysSentFresh ==
  ASSUME KeysListed, KeyTypes', NEW kind, NEW id, NEW val, Keys!Operate(kind, id, val), Keys!Shown,
         UNCHANGED <<keys, error>>,
         \/ kind = "create" /\ ~creating /\ creating' = TRUE
         \/ kind # "create" /\ creating' = creating,
         ~excused /\ kind \in Keys!Edited \cup {"delete"} => IsOldKey(calls, lastId, id),
         ~excused /\ dialog' # None /\ dialog'.op # "create" => IsOldKey(calls, lastId, dialog'.id)
  PROVE  KeysListed'
<1> DEFINE k == Keys!Call(kind, id, val)
           n == Len(calls) + 1
<1>1. /\ calls' = Append(calls, k) /\ UNCHANGED <<table, lastId, signedOut>>
      /\ excused' = (excused \/ Keys!Crosses(kind, id))
  BY DEF Keys!Operate, Keys!server
<1>2. k.kind = kind /\ k.id = id /\ k.at = "sent"
  BY DEF Keys!Call
<1> HIDE DEF k
<1>3. IsSequence(calls)
  BY DEF KeysListed, KeyTypes
<1>4. /\ DOMAIN calls = 1..Len(calls) /\ DOMAIN calls' = 1..n /\ Len(calls) \in Nat
      /\ (\A j \in 1..Len(calls) : calls'[j] = calls[j]) /\ calls'[n] = k
  BY <1>1, <1>3, Appended
<1>5. DOMAIN calls' = DOMAIN calls \cup {n} /\ n \notin DOMAIN calls
      /\ (\A j \in DOMAIN calls : calls'[j] = calls[j]) /\ calls'[n] = k
  BY <1>4
<1> HIDE DEF n
<1>6. /\ \A x, y : OkFor(calls', x, y) <=> OkFor(calls, x, y)
      /\ \A y : OkEdited(calls', y) <=> OkEdited(calls, y)
      /\ LoadOk(calls') <=> LoadOk(calls)
  BY <1>2, <1>5 DEF OkFor, OkEdited, LoadOk
<1>7. \A y : IsOldKey(calls', lastId', y) <=> IsOldKey(calls, lastId, y)
  BY <1>1, <1>6 DEF IsOldKey
<1>8. KeysOut'
  <2>1. creating \in BOOLEAN /\ OneWhile(OutOf(calls, {"create"}), creating)
    BY DEF KeysListed, KeysOut
  <2>2. OneWhile(OutOf(calls', {"create"}), creating \/ k.kind \in {"create"})
    BY <1>1, <1>2, <1>3, <2>1, OutAppended
  <2>3. creating' \in BOOLEAN /\ (creating' <=> creating \/ k.kind \in {"create"})
    <3>1. CASE kind = "create" /\ ~creating /\ creating' = TRUE
      BY <1>2, <3>1, Zenon
    <3>2. CASE kind # "create" /\ creating' = creating
      BY <1>2, <2>1, <3>2, Zenon
    <3> QED
      BY <3>1, <3>2
  <2> QED
    BY <2>2, <2>3 DEF KeysOut, OneWhile
<1>9. KeysFresh'
  <2> SUFFICES ASSUME ~excused' PROVE KeysFresh'
    BY DEF KeysFresh
  <2>1. /\ ~excused /\ KeysFresh
        /\ \A j \in DOMAIN calls :
             /\ kind = "load" => calls[j].kind \notin Keys!Writes
             /\ kind \in Keys!Writes => calls[j].kind # "load"
             /\ kind \in Keys!Edited /\ calls[j].kind \in Keys!Edited => calls[j].id # id
    BY <1>1 DEF Keys!Crosses, KeysListed
  <2>2. OutOf(calls', {"load"}) = {} \/ OutOf(calls', Keys!Writes) = {}
    BY <1>2, <1>5, <2>1 DEF KeysFresh, OutOf, Keys!Writes, Keys!Edited
  <2>3. EditsApart'
    BY <1>2, <1>5, <2>1 DEF KeysFresh, EditsApart
  <2>4. \A j \in DOMAIN calls' : KeySays(calls'[j], calls', table', lastId')
    BY <1>1, <1>2, <1>5, <1>7, <2>1 DEF KeysFresh, KeySays
  <2>5. dialog' # None /\ dialog'.op # "create" => IsOldKey(calls', lastId', dialog'.id)
    BY <1>7, <2>1
  <2>6. keys' = None => /\ OutOf(calls', Keys!Writes) = {}
                        /\ error' \/ signedOut' \/ OutOf(calls', {"load"}) # {}
    <3> SUFFICES ASSUME keys = None
                 PROVE  OutOf(calls', Keys!Writes) = {} /\ OutOf(calls', {"load"}) # {}
      OBVIOUS
    <3>1. OutOf(calls, Keys!Writes) = {} /\ OutOf(calls, {"load"}) # {}
      BY <2>1 DEF KeysFresh, Keys!Shown
    <3>2. kind \notin Keys!Writes
      BY <2>1, <3>1 DEF OutOf
    <3> QED
      BY <1>2, <1>5, <3>1, <3>2 DEF OutOf
  <2>7. keys' # None => ShownKeys'
    BY <1>1, <1>6, <1>7, <2>1 DEF KeysFresh, ShownKeys, KeyRowSays
  <2> QED
    BY <2>2, <2>3, <2>4, <2>5, <2>6, <2>7 DEF KeysFresh
<1> QED
  BY <1>1, <1>8, <1>9 DEF KeysListed, KeysStored

(***************************************************************************)
(* The server of the keys page.                                            *)
(***************************************************************************)
LEMMA KeysSettled ==
  ASSUME KeysListed, NEW i \in DOMAIN calls, NEW e, calls' = [calls EXCEPT ![i] = e],
         e.kind = calls[i].kind, creating' = creating
  PROVE  /\ KeysOut' /\ \A kinds : OutOf(calls', kinds) = OutOf(calls, kinds)
         /\ DOMAIN calls' = DOMAIN calls /\ calls'[i] = e
         /\ \A j \in DOMAIN calls \ {i} : calls'[j] = calls[j]
<1>1. IsSequence(calls)
  BY DEF KeysListed, KeyTypes
<1>2. /\ DOMAIN calls' = DOMAIN calls /\ calls'[i] = e
      /\ \A j \in DOMAIN calls \ {i} : calls'[j] = calls[j]
  BY <1>1, Replaced
<1>3. \A kinds : OutOf(calls', kinds) = OutOf(calls, kinds)
  BY <1>2 DEF OutOf
<1> QED
  BY <1>2, <1>3 DEF KeysListed, KeysOut

(* What writes nothing. *)
LEMMA KeysRead ==
  ASSUME KeysListed, KeyTypes', NEW i \in DOMAIN calls, NEW e, calls' = [calls EXCEPT ![i] = e],
         e.kind = calls[i].kind, e.id = calls[i].id, calls[i].at = "sent",
         \/ e.at # "ok" \/ e.kind = "catalog"
         \/ e.at = "ok" /\ e.kind = "load" /\ e.rows = Keys!ListOf(table),
         UNCHANGED <<table, lastId, excused, keys, error, dialog, creating, signedOut>>
  PROVE  KeysListed'
<1>1. /\ KeysOut' /\ \A kinds : OutOf(calls', kinds) = OutOf(calls, kinds)
      /\ DOMAIN calls' = DOMAIN calls /\ calls'[i] = e
      /\ \A j \in DOMAIN calls \ {i} : calls'[j] = calls[j]
  BY KeysSettled
<1>2. e.at # "ok" \/ e.kind \in {"catalog", "load"}
  OBVIOUS
<1>3. /\ \A y : \A x \in {"create", "delete"} : OkFor(calls', x, y) <=> OkFor(calls, x, y)
      /\ \A y : OkEdited(calls', y) <=> OkEdited(calls, y)
      /\ LoadOk(calls) => LoadOk(calls')
  BY <1>1, <1>2 DEF OkFor, OkEdited, LoadOk, Keys!Edited
<1>4. \A y : IsOldKey(calls', lastId', y) <=> IsOldKey(calls, lastId, y)
  BY <1>3 DEF IsOldKey
<1>5. KeysFresh'
  <2> SUFFICES ASSUME ~excused PROVE KeysFresh'
    BY DEF KeysFresh
  <2>1. KeysFresh
    BY DEF KeysListed
  <2>2. \A j \in DOMAIN calls' : KeySays(calls'[j], calls', table', lastId')
    BY <1>1, <1>2, <1>4, <2>1, ZenonT(40) DEF KeysFresh, KeySays, Keys!Edited
  <2>3. EditsApart'
    BY <1>1, <2>1 DEF KeysFresh, EditsApart
  <2>4. keys' # None => ShownKeys'
    BY <1>3, <1>4, <2>1 DEF KeysFresh, ShownKeys, KeyRowSays
  <2> QED
    BY <1>1, <1>4, <2>1, <2>2, <2>3, <2>4 DEF KeysFresh
<1> QED
  BY <1>1, <1>5 DEF KeysListed, KeysStored

LEMMA KeysWritten ==
  ASSUME KeysListed, KeyTypes', NEW i \in DOMAIN calls, calls[i].at = "sent",
         calls[i].kind \in Keys!Writes, NEW id, NEW row, NEW e, KeyWritten(i, id, row, e),
         UNCHANGED <<keys, error, dialog, creating, signedOut>>
  PROVE  KeysListed'
<1> DEFINE k == calls[i]
<1>1. /\ id \in KeyId /\ id \in Int /\ lastId \in Int /\ KeysStored
      /\ \A x \in KeyId : x \in Int /\ table'[x] = IF x = id THEN row ELSE table[x]
      /\ e.kind = k.kind /\ calls' = [calls EXCEPT ![i] = e]
      /\ k.kind \in {"create", "rename", "models", "quota", "delete"}
      /\ \A j \in DOMAIN calls : IsKeyCall(calls[j])
  BY KeysAssumption, FS_CardinalityType
  DEF KeysListed, KeyTypes, KeysStored, KeyWritten, Keys!Writes, Keys!Edited
<1>2. \/ k.kind = "create" /\ id = lastId + 1 /\ lastId' = lastId + 1
      \/ k.kind # "create" /\ id = k.id /\ lastId' = lastId /\ table[id] # None
  BY DEF KeyWritten
<1>3. KeysStored'
  BY <1>1, <1>2 DEF KeysStored
<1>4. /\ KeysOut' /\ \A kinds : OutOf(calls', kinds) = OutOf(calls, kinds)
      /\ DOMAIN calls' = DOMAIN calls /\ calls'[i] = e
      /\ \A j \in DOMAIN calls \ {i} : calls'[j] = calls[j]
  BY <1>1, KeysSettled
<1>5. KeysFresh'
  <2> SUFFICES ASSUME ~excused' PROVE KeysFresh'
    BY DEF KeysFresh
  <2>1. /\ ~excused /\ KeysFresh /\ e.at = "ok" /\ e.id = id
        /\ k.kind = "create" => e.rows = row
        /\ k.kind \in Keys!Edited => e.val = row.name
        /\ row = None <=> k.kind = "delete"
    BY DEF KeyWritten, KeysListed
  <2>2. /\ \A x, y : OkFor(calls', x, y) <=> OkFor(calls, x, y) \/ (x = k.kind /\ y = id)
        /\ \A y : OkEdited(calls, y) => OkEdited(calls', y)
        /\ k.kind \in Keys!Edited => OkEdited(calls', id)
        /\ LoadOk(calls) => LoadOk(calls')
    BY <1>1, <1>4, <2>1 DEF OkFor, OkEdited, LoadOk
  <2>3. \A y : IsOldKey(calls, lastId, y) => IsOldKey(calls', lastId', y) /\ (k.kind = "create" => y # id)
    <3> SUFFICES ASSUME NEW y, IsOldKey(calls, lastId, y)
                 PROVE  IsOldKey(calls', lastId', y) /\ (k.kind = "create" => y # id)
      OBVIOUS
    <3>1. y \in KeyId /\ y \in Int /\ y <= lastId /\ ~OkFor(calls, "create", y)
      BY <1>1 DEF IsOldKey
    <3>2. y <= lastId' /\ (k.kind = "create" => y # id)
      BY <1>1, <1>2, <3>1
    <3> QED
      BY <2>2, <3>1, <3>2 DEF IsOldKey
  <2>4. \A j \in DOMAIN calls : KeySays(calls[j], calls, table, lastId)
    BY <2>1 DEF KeysFresh
  <2>5. k.kind # "create" => IsOldKey(calls, lastId, id)
    BY <1>1, <1>2, <2>4 DEF KeySays, Keys!Edited
  <2>6. \A j \in DOMAIN calls \ {i} :
          /\ calls[j].kind # "load"
          /\ calls[j].kind = "create" => k.kind # "create"
          /\ calls[j].kind \in Keys!Edited /\ k.kind \in Keys!Edited => calls[j].id # k.id
    <3>1. i \in OutOf(calls, Keys!Writes)
      BY DEF OutOf
    <3>2. OutOf(calls, {"load"}) = {}
      BY <2>1, <3>1 DEF KeysFresh
    <3>3. AtMostOne(OutOf(calls, {"create"})) /\ EditsApart
      BY <2>1 DEF KeysListed, KeysOut, OneWhile, KeysFresh
    <3> QED
      BY <3>2, <3>3 DEF OutOf, AtMostOne, EditsApart
  <2>7. KeySays(e, calls', table', lastId')
    <3>1. k.kind # "create" => IsOldKey(calls', lastId', id)
      BY <2>3, <2>5
    <3>2. table'[id] = row
      BY <1>1
    <3>3. CASE k.kind = "create"
      BY <1>1, <1>2, <2>1, <3>2, <3>3 DEF KeySays, Keys!Edited
    <3>4. CASE k.kind # "create"
      BY <1>1, <1>2, <2>1, <3>1, <3>2, <3>4 DEF KeySays, Keys!Edited
    <3> QED
      BY <3>3, <3>4
  <2>8. ASSUME NEW j \in DOMAIN calls \ {i}
        PROVE  KeySays(calls[j], calls', table', lastId')
    <3> DEFINE l == calls[j]
    <3>1. KeySays(l, calls, table, lastId) /\ l.kind # "load"
      BY <2>4, <2>6
    <3>2. l.kind \in Keys!Edited \cup {"delete"} => IsOldKey(calls', lastId', l.id) /\ l.id \in KeyId
      BY <2>3, <3>1 DEF KeySays, IsOldKey
    <3>3. l.kind = "create" /\ l.at = "ok" => l.id = lastId' /\ table'[l.id] = l.rows
      <4> HAVE l.kind = "create" /\ l.at = "ok"
      <4>1. /\ l.id = lastId /\ table[l.id] = l.rows /\ OkFor(calls, "create", l.id)
            /\ l.id \in KeyId
        BY <1>1, <3>1 DEF KeySays, OkFor, IsKeyCall
      <4>2. k.kind # "create" /\ id # l.id
        BY <2>5, <2>6, <4>1 DEF IsOldKey
      <4> QED
        BY <1>1, <1>2, <4>1, <4>2
    <3>4. l.kind \in Keys!Edited /\ l.at = "ok" /\ table'[l.id] # None => l.val = table'[l.id].name
      <4> HAVE l.kind \in Keys!Edited /\ l.at = "ok" /\ table'[l.id] # None
      <4>1. l.id \in KeyId /\ IsOldKey(calls, lastId, l.id) /\ (table[l.id] # None => l.val = table[l.id].name)
        BY <3>1, <3>2 DEF KeySays
      <4>2. CASE l.id = id
        <5>1. k.kind # "create" /\ k.kind \notin Keys!Edited
          BY <1>2, <2>3, <2>6, <4>1, <4>2
        <5>2. k.kind = "delete" /\ table'[l.id] = None
          BY <1>1, <2>1, <4>2, <5>1 DEF Keys!Edited
        <5> QED
          BY <5>2
      <4>3. CASE l.id # id
        BY <1>1, <4>1, <4>3
      <4> QED
        BY <4>2, <4>3
    <3>5. l.kind = "delete" /\ l.at = "ok" => table'[l.id] = None
      <4> HAVE l.kind = "delete" /\ l.at = "ok"
      <4>1. l.id \in KeyId /\ table[l.id] = None /\ IsOldKey(calls, lastId, l.id)
        BY <3>1 DEF KeySays, IsOldKey
      <4>2. l.id # id
        BY <1>2, <2>3, <4>1
      <4> QED
        BY <1>1, <4>1, <4>2
    <3> QED
      BY <3>1, <3>2, <3>3, <3>4, <3>5 DEF KeySays
  <2>9. dialog' # None /\ dialog'.op # "create" => IsOldKey(calls', lastId', dialog'.id)
    BY <2>1, <2>3 DEF KeysFresh
  <2>10. keys # None /\ ShownKeys
    <3>1. OutOf(calls, Keys!Writes) # {}
      BY DEF OutOf
    <3> QED
      BY <2>1, <3>1 DEF KeysFresh
  <2>11. ASSUME NEW j \in DOMAIN keys
         PROVE  KeyRowSays(keys[j], calls', table', lastId')
    <3> DEFINE r == keys[j]
    <3>1. KeyRowSays(r, calls, table, lastId)
      BY <2>10 DEF ShownKeys
    <3>2. /\ r.id \in KeyId /\ IsOldKey(calls', lastId', r.id) /\ (k.kind = "create" => r.id # id)
      BY <2>3, <3>1 DEF KeyRowSays, IsOldKey
    <3>3. CASE r.id = id /\ k.kind = "delete"
      BY <1>1, <2>1, <2>2, <3>2, <3>3 DEF KeyRowSays
    <3>4. CASE r.id = id /\ k.kind \in Keys!Edited
      <4>1. table'[r.id] = row /\ row # None /\ OkEdited(calls', r.id) /\ table[r.id] # None
        BY <1>1, <1>2, <2>1, <2>2, <3>4 DEF Keys!Edited
      <4> QED
        BY <3>2, <4>1 DEF KeyRowSays
    <3>5. CASE r.id # id
      <4>1. table'[r.id] = table[r.id]
        BY <1>1, <3>2, <3>5
      <4> QED
        BY <2>2, <3>1, <3>2, <4>1 DEF KeyRowSays
    <3> QED
      BY <1>1, <3>2, <3>3, <3>4, <3>5 DEF Keys!Edited
  <2>12. ShownKeys'
    <3>1. ASSUME NEW x \in KeyId, table'[x] # None
          PROVE  OkFor(calls', "create", x) \/ \E j \in DOMAIN keys : keys[j].id = x
      <4>1. table[x] # None \/ (k.kind = "create" /\ x = id)
        BY <1>1, <1>2, <3>1
      <4> QED
        BY <2>2, <2>10, <4>1 DEF ShownKeys
    <3> QED
      BY <2>10, <2>11, <3>1 DEF ShownKeys
  <2>13. OutOf(calls', {"load"}) = {} \/ OutOf(calls', Keys!Writes) = {}
    BY <1>4, <2>1 DEF KeysFresh
  <2>14. EditsApart'
    <3>1. \A j \in DOMAIN calls : calls'[j].kind = calls[j].kind
                                  /\ (calls[j].kind \in Keys!Edited => calls'[j].id = calls[j].id)
      BY <1>1, <1>2, <1>4, <2>1 DEF Keys!Edited
    <3> QED
      BY <1>4, <2>1, <3>1 DEF KeysFresh, EditsApart
  <2>15. \A j \in DOMAIN calls' : KeySays(calls'[j], calls', table', lastId')
    BY <1>4, <2>7, <2>8
  <2> QED
    BY <2>9, <2>10, <2>12, <2>13, <2>14, <2>15 DEF KeysFresh
<1> QED
  BY <1>3, <1>4, <1>5 DEF KeysListed

LEMMA KeysAreServed ==
  ASSUME KeysListed, KeyTypes', NEW i \in DOMAIN calls, Keys!Serve(i)
  PROVE  KeysListed'
<1>1. UNCHANGED <<keys, error, dialog, creating, signedOut>> /\ calls[i].at = "sent"
      /\ DOMAIN calls[i] = {"kind", "id", "val", "at", "rows"} /\ KeyTypes
  BY DEF Keys!Serve, Keys!page, KeysListed, KeyTypes, IsKeyCall
<1>2. CASE Keys!ServeRead(i) /\ calls[i].kind = "load"
  <2> DEFINE e == [[calls[i] EXCEPT !.at = "ok"] EXCEPT !.rows = Keys!ListOf(table)]
  <2>1. calls' = [calls EXCEPT ![i] = e] /\ UNCHANGED <<table, lastId, excused>>
    BY <1>2 DEF Keys!ServeRead, Keys!server
  <2>2. /\ e.kind = calls[i].kind /\ e.id = calls[i].id /\ e.at = "ok" /\ e.kind = "load"
        /\ e.rows = Keys!ListOf(table)
    BY <1>1, <1>2
  <2> HIDE DEF e
  <2> QED
    BY <1>1, <2>1, <2>2, KeysRead
<1>3. CASE (Keys!ServeRead(i) /\ calls[i].kind # "load") \/ Keys!Fail(i)
  <2>1. PICK how : /\ Keys!Settled(i, how, None) /\ (calls[i].kind = "catalog" \/ how # "ok")
                   /\ UNCHANGED <<table, lastId, excused>>
    BY <1>3 DEF Keys!ServeRead, Keys!Fail, Keys!server
  <2> DEFINE e == [[calls[i] EXCEPT !.at = how] EXCEPT !.val = None]
  <2>2. calls' = [calls EXCEPT ![i] = e]
    BY <2>1 DEF Keys!Settled
  <2>3. e.kind = calls[i].kind /\ e.id = calls[i].id /\ e.at = how
    BY <1>1
  <2> HIDE DEF e
  <2> QED
    BY <1>1, <2>1, <2>2, <2>3, KeysRead
<1>4. CASE Keys!ServeWrite(i)
  <2>1. PICK id, row, e : KeyWritten(i, id, row, e)
    BY <1>1, <1>4, KeyWrites
  <2>2. calls[i].kind \in Keys!Writes
    BY <1>4 DEF Keys!ServeWrite
  <2> QED
    BY <1>1, <2>1, <2>2, KeysWritten
<1> QED
  BY <1>2, <1>3, <1>4 DEF Keys!Serve

(***************************************************************************)
(* The answers the keys page gets.                                         *)
(***************************************************************************)
(* What an answer leaves. *)
LEMMA KeysLeft ==
  ASSUME KeysListed, NEW i \in DOMAIN calls, NEW kind, Keys!Answered(i, {kind}),
         creating' = IF kind = "create" THEN FALSE ELSE creating
  PROVE  /\ UNCHANGED <<table, lastId, excused>> /\ KeysStored' /\ KeysOut'
         /\ calls[i].kind = kind /\ calls[i].at # "sent" /\ ~signedOut
         /\ \A j \in DOMAIN calls' : \E k \in DOMAIN calls \ {i} : calls'[j] = calls[k]
         /\ \A k \in DOMAIN calls \ {i} : \E j \in DOMAIN calls' : calls'[j] = calls[k]
         /\ \A x, y : OkFor(calls', x, y) => OkFor(calls, x, y)
         /\ \A x, y : OkFor(calls, x, y) =>
              OkFor(calls', x, y) \/ (calls[i].at = "ok" /\ kind = x /\ calls[i].id = y)
         /\ \A y : OkEdited(calls, y) =>
              OkEdited(calls', y) \/ (calls[i].at = "ok" /\ kind \in Keys!Edited /\ calls[i].id = y)
         /\ LoadOk(calls) => LoadOk(calls') \/ (calls[i].at = "ok" /\ kind = "load")
         /\ \A y : IsOldKey(calls, lastId, y) => IsOldKey(calls', lastId', y)
         /\ EditsApart => EditsApart'
<1>1. /\ calls' = Left(calls, i) /\ UNCHANGED <<table, lastId, excused>> /\ IsSequence(calls)
      /\ calls[i].kind = kind /\ calls[i].at # "sent" /\ ~signedOut
  BY DEF Keys!Answered, Keys!WithoutAt, Keys!server, Left, KeysListed, KeyTypes
<1>2. /\ \A j \in DOMAIN calls' : Place(i, j) \in DOMAIN calls \ {i} /\ calls'[j] = calls[Place(i, j)]
      /\ \A k \in DOMAIN calls \ {i} : \E j \in DOMAIN calls' : Place(i, j) = k /\ calls'[j] = calls[k]
      /\ DOMAIN calls' = 1..Len(calls) - 1 /\ DOMAIN calls = 1..Len(calls) /\ Len(calls) \in Nat
  BY <1>1, Removed
<1>3. /\ \A j \in DOMAIN calls' : \E k \in DOMAIN calls \ {i} : calls'[j] = calls[k]
      /\ \A k \in DOMAIN calls \ {i} : \E j \in DOMAIN calls' : calls'[j] = calls[k]
  BY <1>2
<1>4. \A x, y : OkFor(calls', x, y) => OkFor(calls, x, y)
  BY <1>3 DEF OkFor
<1>5. ASSUME NEW x, NEW y, OkFor(calls, x, y)
      PROVE  OkFor(calls', x, y) \/ (calls[i].at = "ok" /\ kind = x /\ calls[i].id = y)
  <2>1. PICK k \in DOMAIN calls : calls[k].kind = x /\ calls[k].at = "ok" /\ calls[k].id = y
    BY <1>5 DEF OkFor
  <2> QED
    BY <1>1, <1>3, <2>1 DEF OkFor
<1>6. ASSUME NEW y, OkEdited(calls, y)
      PROVE  OkEdited(calls', y) \/ (calls[i].at = "ok" /\ kind \in Keys!Edited /\ calls[i].id = y)
  <2>1. PICK k \in DOMAIN calls : calls[k].kind \in Keys!Edited /\ calls[k].at = "ok" /\ calls[k].id = y
    BY <1>6 DEF OkEdited
  <2> QED
    BY <1>1, <1>3, <2>1 DEF OkEdited
<1>7. LoadOk(calls) => LoadOk(calls') \/ (calls[i].at = "ok" /\ kind = "load")
  BY <1>1, <1>3 DEF LoadOk
<1>8. \A y : IsOldKey(calls, lastId, y) => IsOldKey(calls', lastId', y)
  BY <1>1, <1>4 DEF IsOldKey
<1>9. EditsApart => EditsApart'
  <2>1. \A j, k \in DOMAIN calls' : Place(i, j) = Place(i, k) => j = k
    BY <1>2 DEF Place
  <2> QED
    BY <1>2, <2>1 DEF EditsApart
<1>10. KeysStored'
  BY <1>1 DEF KeysListed, KeysStored
<1>11. KeysOut'
  <2>1. creating \in BOOLEAN /\ OneWhile(OutOf(calls, {"create"}), creating)
    BY DEF KeysListed, KeysOut
  <2>2. OneWhile(OutOf(calls', {"create"}), creating /\ kind \notin {"create"})
    BY <1>1, <2>1, OutLeft
  <2>3. creating' \in BOOLEAN /\ (creating' <=> creating /\ kind \notin {"create"})
    <3>1. CASE kind = "create"
      BY <3>1, Zenon
    <3>2. CASE kind # "create"
      BY <2>1, <3>2, Zenon
    <3> QED
      BY <3>1, <3>2
  <2> QED
    BY <2>2, <2>3 DEF KeysOut, OneWhile
<1> QED
  BY <1>1, <1>3, <1>4, <1>5, <1>6, <1>7, <1>8, <1>9, <1>10, <1>11

(* It remains to show the list. *)
LEMMA KeysAnsweredFresh ==
  ASSUME KeysListed, KeyTypes', NEW i \in DOMAIN calls, NEW kind, Keys!Answered(i, {kind}),
         creating' = IF kind = "create" THEN FALSE ELSE creating,
         dialog' \in {dialog, None},
         ~excused => \/ /\ keys' = None /\ keys = None /\ Keys!Failed(i)
                        /\ kind = "load" => calls[i].at # "ok"
                     \/ keys' # None /\ ShownKeys'
  PROVE  KeysListed'
<1>1. /\ UNCHANGED <<table, lastId, excused>> /\ KeysStored' /\ KeysOut'
      /\ calls[i].kind = kind /\ calls[i].at # "sent" /\ ~signedOut
      /\ \A j \in DOMAIN calls' : \E k \in DOMAIN calls \ {i} : calls'[j] = calls[k]
      /\ \A k \in DOMAIN calls \ {i} : \E j \in DOMAIN calls' : calls'[j] = calls[k]
      /\ \A y : IsOldKey(calls, lastId, y) => IsOldKey(calls', lastId', y)
      /\ EditsApart => EditsApart'
  BY KeysLeft
<1>2. KeysFresh'
  <2> SUFFICES ASSUME ~excused PROVE KeysFresh'
    BY <1>1 DEF KeysFresh
  <2>1. KeysFresh
    BY DEF KeysListed
  <2>2. \A kinds : OutOf(calls, kinds) = {} => OutOf(calls', kinds) = {}
    BY <1>1 DEF OutOf
  <2>3. \A j \in DOMAIN calls' : KeySays(calls'[j], calls', table', lastId')
    BY <1>1, <2>1 DEF KeysFresh, KeySays
  <2>4. dialog' # None /\ dialog'.op # "create" => IsOldKey(calls', lastId', dialog'.id)
    BY <1>1, <2>1 DEF KeysFresh
  <2>5. OutOf(calls', {"load"}) = {} \/ OutOf(calls', Keys!Writes) = {}
    BY <2>1, <2>2 DEF KeysFresh
  <2>6. ASSUME keys' = None, keys = None, Keys!Failed(i), kind = "load" => calls[i].at # "ok"
        PROVE  OutOf(calls', Keys!Writes) = {} /\ (error' \/ signedOut' \/ OutOf(calls', {"load"}) # {})
    <3>1. OutOf(calls, Keys!Writes) = {} /\ (error \/ OutOf(calls, {"load"}) # {})
      BY <1>1, <2>1, <2>6 DEF KeysFresh
    <3>2. CASE error
      BY <2>2, <2>6, <3>1, <3>2 DEF Keys!Failed
    <3>3. CASE OutOf(calls, {"load"}) # {}
      <4>1. PICK k \in DOMAIN calls : calls[k].kind = "load"
        BY <3>3 DEF OutOf
      <4>2. CASE k = i
        <5>1. calls[i].at \in {"error", "unauthorized"}
          BY <1>1, <2>6, <4>1, <4>2 DEF KeysListed, KeyTypes, IsKeyCall
        <5>2. signedOut' = (calls[i].at = "unauthorized")
          BY DEF Keys!Answered
        <5>3. error' \/ signedOut'
          <6>1. CASE calls[i].at = "error"
            BY <2>6, <6>1 DEF Keys!Failed
          <6>2. CASE calls[i].at = "unauthorized"
            BY <5>2, <6>2
          <6> QED
            BY <5>1, <6>1, <6>2
        <5> QED
          BY <2>2, <3>1, <5>3
      <4>3. CASE k # i
        <5>1. OutOf(calls', {"load"}) # {}
          BY <1>1, <4>1, <4>3 DEF OutOf
        <5> QED
          BY <2>2, <3>1, <5>1
      <4> QED
        BY <4>2, <4>3
    <3> QED
      BY <3>1, <3>2, <3>3
  <2> QED
    BY <1>1, <2>1, <2>3, <2>4, <2>5, <2>6 DEF KeysFresh
<1> QED
  BY <1>1, <1>2 DEF KeysListed

(* The answer changes nothing of the list. *)
LEMMA KeysLeftAlone ==
  ASSUME KeysListed, KeyTypes', NEW i \in DOMAIN calls, NEW kind, Keys!Answered(i, {kind}),
         creating' = IF kind = "create" THEN FALSE ELSE creating,
         dialog' \in {dialog, None}, keys' = keys, Keys!Failed(i),
         calls[i].at # "ok" \/ kind = "catalog"
  PROVE  KeysListed'
<1>1. /\ UNCHANGED <<table, lastId, excused>>
      /\ \A x, y : OkFor(calls', x, y) => OkFor(calls, x, y)
      /\ \A x, y : OkFor(calls, x, y) =>
           OkFor(calls', x, y) \/ (calls[i].at = "ok" /\ kind = x /\ calls[i].id = y)
      /\ \A y : OkEdited(calls, y) =>
           OkEdited(calls', y) \/ (calls[i].at = "ok" /\ kind \in Keys!Edited /\ calls[i].id = y)
      /\ LoadOk(calls) => LoadOk(calls') \/ (calls[i].at = "ok" /\ kind = "load")
      /\ \A y : IsOldKey(calls, lastId, y) => IsOldKey(calls', lastId', y)
  BY KeysLeft
<1>2. /\ \A y : \A x \in {"create", "delete"} : OkFor(calls, x, y) => OkFor(calls', x, y)
      /\ \A y : OkEdited(calls, y) => OkEdited(calls', y)
      /\ LoadOk(calls) => LoadOk(calls')
  BY <1>1 DEF Keys!Edited
<1>3. ASSUME ShownKeys
      PROVE  ShownKeys'
  <2>1. \A k \in DOMAIN keys : KeyRowSays(keys[k], calls', table', lastId')
    BY <1>1, <1>2, <1>3 DEF ShownKeys, KeyRowSays
  <2> QED
    BY <1>1, <1>2, <1>3, <2>1 DEF ShownKeys
<1>4. ~excused => keys = None \/ ShownKeys
  BY DEF KeysListed, KeysFresh
<1> QED
  BY <1>3, <1>4, KeysAnsweredFresh

LEMMA ListedKeysShown == \A list \in Seq(ListedKeys) : list # None
BY KeysAssumption

LEMMA KeysLoaded ==
  ASSUME KeysListed, KeyTypes', NEW i \in DOMAIN calls, Keys!LoadAnswered(i)
  PROVE  KeysListed'
<1>1. Keys!Answered(i, {"load"}) /\ UNCHANGED <<dialog, creating>> /\ calls[i].kind = "load"
  BY DEF Keys!LoadAnswered, Keys!Answered
<1>2. CASE calls[i].at # "ok"
  BY <1>1, <1>2, KeysLeftAlone DEF Keys!LoadAnswered, Keys!Succeeded
<1>3. CASE calls[i].at = "ok"
  <2> DEFINE list == Keys!ListOf(table)
             S == {id \in KeyId : table[id] # None}
  <2>1. keys' = calls[i].rows /\ calls[i].rows \in Seq(ListedKeys)
    BY <1>1, <1>3 DEF Keys!LoadAnswered, Keys!Succeeded, KeysListed, KeyTypes, IsKeyCall
  <2>2. keys' # None
    BY <2>1, ListedKeysShown
  <2>3. /\ UNCHANGED <<table, lastId, excused>>
        /\ \A x, y : OkFor(calls', x, y) => OkFor(calls, x, y)
    BY <1>1, KeysLeft
  <2>4. ASSUME ~excused
        PROVE  ShownKeys'
    <3>1. calls[i].rows = list
      BY <1>1, <1>3, <2>4 DEF KeysListed, KeysFresh, KeySays
    <3>2. \A y : ~OkFor(calls', "create", y)
      <4>1. i \in OutOf(calls, {"load"})
        BY <1>1 DEF OutOf
      <4>2. OutOf(calls, Keys!Writes) = {}
        BY <2>4, <4>1 DEF KeysListed, KeysFresh
      <4>3. \A y : ~OkFor(calls, "create", y)
        BY <4>2 DEF OkFor, OutOf, Keys!Writes
      <4> QED
        BY <2>3, <4>3
    <3>3. /\ \A k \in DOMAIN list :
               /\ list[k].id \in S
               /\ list[k].name = table[list[k].id].name /\ list[k].quota = table[list[k].id].quota
               /\ list[k].models = table[list[k].id].models
          /\ \A id \in S : \E k \in DOMAIN list : list[k].id = id
          /\ \A j, k \in DOMAIN list : j < k => list[j].id > list[k].id
      BY KeysTold DEF KeysListed, KeyTypes
    <3>4. \A id : id \in S <=> id \in KeyId /\ table[id] # None
      OBVIOUS
    <3> HIDE DEF list, S
    <3>5. \A k \in DOMAIN list : KeyRowSays(list[k], calls', table', lastId')
      BY <2>3, <3>2, <3>3, <3>4 DEF KeyRowSays, IsOldKey, KeysListed, KeysStored
    <3> QED
      BY <2>1, <2>3, <3>1, <3>3, <3>4, <3>5 DEF ShownKeys
  <2> QED
    BY <1>1, <2>2, <2>4, KeysAnsweredFresh
<1> QED
  BY <1>2, <1>3

(* What is known when a write is answered. *)
LEMMA KeysKnown ==
  ASSUME KeysListed, NEW i \in DOMAIN calls, calls[i].kind \in Keys!Writes, ~excused
  PROVE  /\ keys # None /\ ShownKeys /\ Keys!Known = keys /\ EditsApart
         /\ KeySays(calls[i], calls, table, lastId)
         /\ IsSequence(keys) /\ DOMAIN keys = 1..Len(keys) /\ Len(keys) \in Nat
         /\ \A k \in DOMAIN keys : keys[k].id \in Int /\ keys[k] \in ListedKeys
<1>1. i \in OutOf(calls, Keys!Writes)
  BY DEF OutOf
<1>2. /\ keys # None /\ ShownKeys /\ EditsApart /\ KeySays(calls[i], calls, table, lastId)
      /\ keys \in Seq(ListedKeys)
  BY <1>1 DEF KeysListed, KeysFresh, KeyTypes
<1>3. \A k \in DOMAIN keys : keys[k] \in ListedKeys
  BY <1>2, SequenceOf, ElementOfSeq
<1>4. KeyId \subseteq Int
  BY KeysAssumption, FS_CardinalityType
<1> QED
  BY <1>2, <1>3, <1>4, SequenceOf DEF Keys!Known, ListedKeys

LEMMA KeysCreated ==
  ASSUME KeysListed, KeyTypes', NEW i \in DOMAIN calls, Keys!CreateAnswered(i)
  PROVE  KeysListed'
<1> DEFINE k == calls[i]
           row == Keys!Record(i)
<1>1. /\ Keys!Answered(i, {"create"}) /\ creating' = FALSE /\ k.kind = "create"
      /\ dialog' \in {dialog, None}
  BY DEF Keys!CreateAnswered, Keys!Answered, Keys!Without
<1>2. CASE k.at # "ok"
  BY <1>1, <1>2, KeysLeftAlone DEF Keys!CreateAnswered, Keys!Succeeded
<1>3. CASE k.at = "ok"
  <2>1. keys' = Keys!WithCreated(i) /\ keys' # None
    BY <1>1, <1>3, KeysPatched, ListedKeysShown DEF Keys!CreateAnswered, Keys!Succeeded, KeysListed
  <2>2. /\ UNCHANGED <<table, lastId, excused>>
        /\ \A j \in DOMAIN calls' : \E l \in DOMAIN calls \ {i} : calls'[j] = calls[l]
        /\ \A x, y : OkFor(calls', x, y) => OkFor(calls, x, y)
        /\ \A x, y : OkFor(calls, x, y) => OkFor(calls', x, y) \/ ("create" = x /\ k.id = y)
        /\ \A y : OkEdited(calls, y) => OkEdited(calls', y)
        /\ LoadOk(calls) => LoadOk(calls')
        /\ \A y : IsOldKey(calls, lastId, y) => IsOldKey(calls', lastId', y)
    <3>1. /\ UNCHANGED <<table, lastId, excused>>
          /\ \A j \in DOMAIN calls' : \E l \in DOMAIN calls \ {i} : calls'[j] = calls[l]
          /\ \A x, y : OkFor(calls', x, y) => OkFor(calls, x, y)
          /\ \A x, y : OkFor(calls, x, y) =>
               OkFor(calls', x, y) \/ (calls[i].at = "ok" /\ "create" = x /\ calls[i].id = y)
          /\ \A y : OkEdited(calls, y) =>
               OkEdited(calls', y) \/ (calls[i].at = "ok" /\ "create" \in Keys!Edited /\ calls[i].id = y)
          /\ LoadOk(calls) => LoadOk(calls') \/ (calls[i].at = "ok" /\ "create" = "load")
          /\ \A y : IsOldKey(calls, lastId, y) => IsOldKey(calls', lastId', y)
      BY <1>1, KeysLeft
    <3>2. "create" \notin Keys!Edited
      BY DEF Keys!Edited
    <3> QED
      BY <3>1, <3>2
  <2>3. ASSUME ~excused
        PROVE  ShownKeys'
    <3>1. /\ keys # None /\ ShownKeys /\ Keys!Known = keys /\ KeySays(k, calls, table, lastId)
          /\ DOMAIN keys = 1..Len(keys) /\ Len(keys) \in Nat
          /\ \A j \in DOMAIN keys : keys[j].id \in Int /\ keys[j] \in ListedKeys
          /\ keys \in Seq(ListedKeys)
      BY <1>1, <2>3, KeysKnown DEF Keys!Writes, KeysListed, KeyTypes
    <3>2. /\ k.id \in KeyId /\ k.id \in Int /\ k.id = lastId /\ table[k.id] = k.rows
          /\ k.rows \in StoredKeys /\ k.rows # None
      BY <1>1, <1>3, <3>1, KeysAssumption DEF KeySays, KeysListed, KeyTypes, IsKeyCall, KeysStored
    <3>3. /\ row \in ListedKeys /\ row.id = k.id /\ row.name = table[k.id].name
          /\ row.quota = table[k.id].quota /\ row.models = table[k.id].models
      BY <3>2 DEF Keys!Record, StoredKeys, ListedKeys
    <3> HIDE DEF row
    <3>4. /\ DOMAIN keys' = 1..Len(keys) + 1 /\ keys'[1] = row
          /\ \A j \in 2..Len(keys) + 1 : j - 1 \in DOMAIN keys /\ keys'[j] = keys[j - 1]
      <4>1. <<row>> \in Seq(ListedKeys) /\ Len(<<row>>) = 1 /\ <<row>>[1] = row
        BY <3>3
      <4> DEFINE t == <<row>>
      <4>2. t \in Seq(ListedKeys) /\ Len(t) = 1 /\ t[1] = row
        BY <4>1
      <4>3. keys' = t \o keys
        BY <2>1, <3>1 DEF Keys!WithCreated, row
      <4> HIDE DEF t
      <4>4. /\ keys' \in Seq(ListedKeys) /\ Len(keys') = 1 + Len(keys)
            /\ \A j \in 1..1 + Len(keys) : keys'[j] = IF j <= 1 THEN t[j] ELSE keys[j - 1]
        <5>1. /\ t \o keys \in Seq(ListedKeys) /\ Len(t \o keys) = Len(t) + Len(keys)
              /\ \A j \in 1..Len(t) + Len(keys) :
                   (t \o keys)[j] = IF j <= Len(t) THEN t[j] ELSE keys[j - Len(t)]
          BY <3>1, <4>2, ConcatProperties
        <5> QED
          BY <4>2, <4>3, <5>1
      <4>5. DOMAIN keys' = 1..Len(keys')
        BY <4>4, SequenceOf
      <4> QED
        BY <3>1, <4>2, <4>4, <4>5
    <3>5. ~OkFor(calls', "create", k.id)
      <4>1. AtMostOne(OutOf(calls, {"create"}))
        BY DEF KeysListed, KeysOut, OneWhile
      <4>2. \A l \in DOMAIN calls \ {i} : calls[l].kind # "create"
        BY <1>1, <4>1 DEF AtMostOne, OutOf
      <4> QED
        BY <2>2, <4>2 DEF OkFor
    <3>6. KeyRowSays(row, calls', table', lastId')
      BY <2>2, <3>2, <3>3, <3>5 DEF KeyRowSays, IsOldKey, KeysListed, KeysStored
    <3>7. ASSUME NEW j \in DOMAIN keys
          PROVE  KeyRowSays(keys[j], calls', table', lastId') /\ keys[j].id < row.id
      <4>1. KeyRowSays(keys[j], calls, table, lastId)
        BY <3>1 DEF ShownKeys
      <4>2. OkFor(calls, "create", k.id)
        BY <1>1, <1>3 DEF OkFor
      <4>3. keys[j].id # k.id /\ keys[j].id <= k.id
        BY <3>2, <4>1, <4>2 DEF KeyRowSays, IsOldKey
      <4>4. keys[j].id < row.id
        BY <3>1, <3>2, <3>3, <4>3
      <4>5. OkFor(calls, "delete", keys[j].id) => OkFor(calls', "delete", keys[j].id)
        BY <2>2
      <4> QED
        BY <2>2, <4>1, <4>4, <4>5 DEF KeyRowSays
    <3>8. \A j \in DOMAIN keys' : KeyRowSays(keys'[j], calls', table', lastId')
      <4>1. \A j \in DOMAIN keys' : j = 1 \/ j \in 2..Len(keys) + 1
        BY <3>1, <3>4
      <4> QED
        BY <3>4, <3>6, <3>7, <4>1
    <3>9. ASSUME NEW j \in DOMAIN keys', NEW l \in DOMAIN keys', j < l
          PROVE  keys'[j].id > keys'[l].id
      <4>1. l \in 2..Len(keys) + 1 /\ (j = 1 \/ j \in 2..Len(keys) + 1)
        BY <3>1, <3>4, <3>9
      <4>2. l - 1 \in DOMAIN keys /\ keys'[l] = keys[l - 1]
        BY <3>4, <4>1
      <4>3. CASE j = 1
        BY <3>1, <3>2, <3>3, <3>4, <3>7, <4>2, <4>3
      <4>4. CASE j \in 2..Len(keys) + 1
        <5>1. j - 1 \in DOMAIN keys /\ keys'[j] = keys[j - 1] /\ j - 1 < l - 1
          BY <3>1, <3>4, <3>9, <4>1, <4>4
        <5> QED
          BY <3>1, <4>2, <5>1 DEF ShownKeys
      <4> QED
        BY <4>1, <4>3, <4>4
    <3>10. ASSUME NEW y \in KeyId, table[y] # None
           PROVE  OkFor(calls', "create", y) \/ \E j \in DOMAIN keys' : keys'[j].id = y
      <4>1. CASE y = k.id
        <5>1. 1 \in DOMAIN keys'
          BY <3>1, <3>4
        <5> QED
          BY <3>3, <3>4, <4>1, <5>1
      <4>2. CASE y # k.id
        <5>1. OkFor(calls', "create", y) \/ \E j \in DOMAIN keys : keys[j].id = y
          BY <2>2, <3>1, <3>10, <4>2 DEF ShownKeys
        <5>2. \A j \in DOMAIN keys : j + 1 \in DOMAIN keys' /\ keys'[j + 1] = keys[j]
          <6>1. \A j \in DOMAIN keys : j + 1 \in 2..Len(keys) + 1 /\ (j + 1) - 1 = j
            BY <3>1
          <6> QED
            BY <3>1, <3>4, <6>1
        <5> QED
          BY <5>1, <5>2
      <4> QED
        BY <4>1, <4>2
    <3> QED
      BY <2>2, <3>8, <3>9, <3>10 DEF ShownKeys
  <2> QED
    BY <1>1, <2>1, <2>3, KeysAnsweredFresh
<1> QED
  BY <1>2, <1>3

LEMMA KeysSaved ==
  ASSUME KeysListed, KeyTypes', NEW i \in DOMAIN calls, NEW op \in Keys!Edited, Keys!SaveAnswered(i, op)
  PROVE  KeysListed'
<1> DEFINE k == calls[i]
<1>1. /\ Keys!Answered(i, {op}) /\ creating' = creating /\ k.kind = op /\ op # "create"
      /\ dialog' \in {dialog, None}
  BY DEF Keys!SaveAnswered, Keys!Answered, Keys!Without, Keys!Edited
<1>2. CASE k.at # "ok"
  BY <1>1, <1>2, KeysLeftAlone DEF Keys!SaveAnswered, Keys!Succeeded
<1>3. CASE k.at = "ok"
  <2>1. keys' = Keys!Renamed(i) /\ keys' # None
    BY <1>1, <1>3, KeysPatched, ListedKeysShown DEF Keys!SaveAnswered, Keys!Succeeded, KeysListed
  <2>2. /\ UNCHANGED <<table, lastId, excused>>
        /\ \A y : \A x \in {"create", "delete"} : OkFor(calls, x, y) => OkFor(calls', x, y)
        /\ \A y : OkEdited(calls, y) => OkEdited(calls', y) \/ k.id = y
        /\ LoadOk(calls) => LoadOk(calls')
        /\ \A y : IsOldKey(calls, lastId, y) => IsOldKey(calls', lastId', y)
    BY <1>1, KeysLeft DEF Keys!Edited
  <2>3. ASSUME ~excused
        PROVE  ShownKeys'
    <3>1. /\ keys # None /\ ShownKeys /\ Keys!Known = keys /\ KeySays(k, calls, table, lastId)
          /\ \A j \in DOMAIN keys : keys[j] \in ListedKeys
      BY <1>1, <2>3, KeysKnown DEF Keys!Writes
    <3>2. table[k.id] # None => k.val = table[k.id].name
      BY <1>1, <1>3, <3>1 DEF KeySays
    <3>3. /\ DOMAIN keys' = DOMAIN keys
          /\ \A j \in DOMAIN keys :
               keys'[j] = IF keys[j].id = k.id THEN [keys[j] EXCEPT !.name = k.val] ELSE keys[j]
      BY <2>1, <3>1 DEF Keys!Renamed
    <3>4. \A j \in DOMAIN keys :
            /\ keys'[j].id = keys[j].id /\ keys'[j].quota = keys[j].quota
            /\ keys'[j].models = keys[j].models
            /\ keys'[j].name = IF keys[j].id = k.id THEN k.val ELSE keys[j].name
      BY <3>1, <3>3 DEF ListedKeys
    <3>5. ASSUME NEW j \in DOMAIN keys
          PROVE  KeyRowSays(keys'[j], calls', table', lastId')
      <4>1. KeyRowSays(keys[j], calls, table, lastId)
        BY <3>1 DEF ShownKeys
      <4>2. CASE keys[j].id = k.id
        BY <2>2, <3>2, <3>4, <4>1, <4>2 DEF KeyRowSays
      <4>3. CASE keys[j].id # k.id
        BY <2>2, <3>4, <4>1, <4>3 DEF KeyRowSays
      <4> QED
        BY <4>2, <4>3
    <3> QED
      BY <2>2, <3>1, <3>3, <3>4, <3>5 DEF ShownKeys
  <2> QED
    BY <1>1, <2>1, <2>3, KeysAnsweredFresh
<1> QED
  BY <1>2, <1>3

LEMMA KeysDeleted ==
  ASSUME KeysListed, KeyTypes', NEW i \in DOMAIN calls, Keys!DeleteAnswered(i)
  PROVE  KeysListed'
<1> DEFINE k == calls[i]
           I == {j \in DOMAIN keys : keys[j].id # k.id}
<1>1. Keys!Answered(i, {"delete"}) /\ UNCHANGED <<dialog, creating>> /\ k.kind = "delete"
  BY DEF Keys!DeleteAnswered, Keys!Answered
<1>2. CASE k.at # "ok"
  BY <1>1, <1>2, KeysLeftAlone DEF Keys!DeleteAnswered, Keys!Succeeded
<1>3. CASE k.at = "ok"
  <2>1. keys' = Keys!Removed(k.id) /\ keys' # None
    BY <1>1, <1>3, KeysPatched, ListedKeysShown DEF Keys!DeleteAnswered, Keys!Succeeded, KeysListed
  <2>2. /\ UNCHANGED <<table, lastId, excused>>
        /\ \A y : OkFor(calls, "create", y) => OkFor(calls', "create", y)
        /\ \A y : OkFor(calls, "delete", y) => OkFor(calls', "delete", y) \/ k.id = y
        /\ \A y : OkEdited(calls, y) => OkEdited(calls', y)
        /\ LoadOk(calls) => LoadOk(calls')
        /\ \A y : IsOldKey(calls, lastId, y) => IsOldKey(calls', lastId', y)
    <3>1. /\ UNCHANGED <<table, lastId, excused>>
          /\ \A j \in DOMAIN calls' : \E l \in DOMAIN calls \ {i} : calls'[j] = calls[l]
          /\ \A x, y : OkFor(calls', x, y) => OkFor(calls, x, y)
          /\ \A x, y : OkFor(calls, x, y) =>
               OkFor(calls', x, y) \/ (calls[i].at = "ok" /\ "delete" = x /\ calls[i].id = y)
          /\ \A y : OkEdited(calls, y) =>
               OkEdited(calls', y) \/ (calls[i].at = "ok" /\ "delete" \in Keys!Edited /\ calls[i].id = y)
          /\ LoadOk(calls) => LoadOk(calls') \/ (calls[i].at = "ok" /\ "delete" = "load")
          /\ \A y : IsOldKey(calls, lastId, y) => IsOldKey(calls', lastId', y)
      BY <1>1, KeysLeft
    <3>2. "delete" \notin Keys!Edited
      BY DEF Keys!Edited
    <3> QED
      BY <3>1, <3>2
  <2>3. ASSUME ~excused
        PROVE  ShownKeys'
    <3>1. /\ keys # None /\ ShownKeys /\ Keys!Known = keys /\ KeySays(k, calls, table, lastId)
          /\ IsSequence(keys) /\ DOMAIN keys = 1..Len(keys) /\ Len(keys) \in Nat
          /\ \A j \in DOMAIN keys : keys[j].id \in Int
      BY <1>1, <2>3, KeysKnown DEF Keys!Writes
    <3>2. table[k.id] = None
      BY <1>1, <1>3, <3>1 DEF KeySays
    <3>3. I \in SUBSET DOMAIN keys /\ \A j : j \in I <=> j \in DOMAIN keys /\ keys[j].id # k.id
      OBVIOUS
    <3> HIDE DEF I
    <3>4. keys' = Failover!Picked(keys, I)
      <4>1. keys' = Keys!Picked(keys, I)
        BY <2>1, <3>1 DEF Keys!Removed, I
      <4> QED
        BY <4>1 DEF Failover!Picked, Failover!Ascending, Failover!Ordered, Failover!Cardinality,
                    Keys!Picked, Keys!Ascending, Keys!Ordered, Keys!Cardinality
    <3> DEFINE place == Failover!Ascending(I)
    <3>5. \A l \in DOMAIN keys' : place[l] \in I /\ keys'[l] = keys[place[l]]
      BY <3>1, <3>3, <3>4, PickedElements
    <3>6. \A j, l \in DOMAIN keys' : j < l => place[j] < place[l]
      BY <3>1, <3>3, <3>4, PickedInOrder
    <3>7. \A j \in I : \E l \in DOMAIN keys' : keys'[l] = keys[j]
      BY <3>1, <3>3, <3>4, PickedFound
    <3> HIDE DEF place
    <3>8. \A j \in I : KeyRowSays(keys[j], calls', table', lastId')
      <4>1. \A j \in I : KeyRowSays(keys[j], calls, table, lastId) /\ keys[j].id # k.id
        BY <3>1, <3>3 DEF ShownKeys
      <4> QED
        BY <2>2, <4>1 DEF KeyRowSays
    <3>9. \A j \in DOMAIN keys' : KeyRowSays(keys'[j], calls', table', lastId')
      BY <3>5, <3>8
    <3>10. \A j, l \in DOMAIN keys' : j < l => keys'[j].id > keys'[l].id
      BY <3>1, <3>3, <3>5, <3>6 DEF ShownKeys
    <3>11. ASSUME NEW y \in KeyId, table[y] # None
           PROVE  OkFor(calls', "create", y) \/ \E l \in DOMAIN keys' : keys'[l].id = y
      <4>1. y # k.id /\ (OkFor(calls', "create", y) \/ \E j \in DOMAIN keys : keys[j].id = y)
        BY <2>2, <3>1, <3>2, <3>11 DEF ShownKeys
      <4> QED
        BY <3>3, <3>7, <4>1
    <3> QED
      BY <2>2, <3>9, <3>10, <3>11 DEF ShownKeys
  <2> QED
    BY <1>1, <2>1, <2>3, KeysAnsweredFresh
<1> QED
  BY <1>2, <1>3

(***************************************************************************)
(* The keys page: every step, and the list of a quiet page.                *)
(***************************************************************************)
LEMMA KeysListedStep == KeysListed /\ Keys!Next => KeysListed'
<1> SUFFICES ASSUME KeysListed, Keys!Next PROVE KeysListed'
  OBVIOUS
<1>1. KeyTypes' /\ KeyTypes
  BY KeyTypesStep DEF KeysListed
<1>2. ASSUME NEW id, Keys!Row(id), ~excused
      PROVE  IsOldKey(calls, lastId, id)
  <2>1. PICK k \in DOMAIN keys : keys[k].id = id
    BY <1>2 DEF Keys!Row
  <2>2. KeyRowSays(keys[k], calls, table, lastId)
    BY <1>2 DEF KeysListed, KeysFresh, ShownKeys, Keys!Row
  <2> QED
    BY <2>1, <2>2 DEF KeyRowSays
<1>3. ~excused /\ dialog # None /\ dialog.op # "create" => IsOldKey(calls, lastId, dialog.id)
  BY DEF KeysListed, KeysFresh
<1>4. ASSUME Keys!Quietly, UNCHANGED <<keys, creating>>, error' = error \/ error' = TRUE,
             \/ dialog' \in {dialog, None}
             \/ dialog'.op = "create"
             \/ dialog # None /\ dialog'.op = dialog.op /\ dialog'.id = dialog.id
             \/ Keys!Row(dialog'.id)
      PROVE  KeysListed'
  <2>1. UNCHANGED <<table, lastId, keys, creating, calls, signedOut, excused>>
    BY <1>4 DEF Keys!Quietly, Keys!server
  <2>2. ~excused /\ dialog' # None /\ dialog'.op # "create" => IsOldKey(calls, lastId, dialog'.id)
    BY <1>2, <1>3, <1>4
  <2> QED
    BY <1>1, <1>4, <2>1, <2>2, KeysDrafted
<1>5. CASE Keys!LoadKeys
  BY <1>1, <1>3, <1>5, KeysSentFresh DEF Keys!LoadKeys, Keys!Plain, Keys!page, Keys!Edited
<1>6. CASE Keys!OpenCreate
  BY <1>4, <1>6 DEF Keys!OpenCreate, Keys!Open
<1>7. CASE Keys!Close \/ Keys!CloseVisible \/ Keys!Refused
  BY <1>4, <1>7 DEF Keys!Close, Keys!CloseVisible, Keys!Refused
<1>8. CASE Keys!HandleCreate /\ ~Keys!Refused
  <2> DEFINE val == [name |-> newKey.name, quota |-> Keys!CostQuota(newKey.quota)]
  <2>1. /\ Keys!Operate("create", None, val) /\ Keys!Shown /\ UNCHANGED <<keys, error, dialog>>
        /\ ~creating /\ creating' = TRUE
    BY <1>8 DEF Keys!HandleCreate, Keys!CanCreate
  <2> HIDE DEF val
  <2> QED
    BY <1>1, <1>3, <2>1, KeysSentFresh DEF Keys!Edited
<1>9. ASSUME NEW id \in KeyId, Keys!OpenModelsDialog(id)
      PROVE  KeysListed'
  <2>1. /\ Keys!Operate("catalog", None, None) /\ Keys!Shown /\ UNCHANGED <<keys, error, creating>>
        /\ dialog'.id = id /\ Keys!Row(id)
    BY <1>9 DEF Keys!OpenModelsDialog, Keys!Plain, Keys!Open
  <2> QED
    BY <1>1, <1>2, <2>1, KeysSentFresh DEF Keys!Edited
<1>10. ASSUME NEW id \in KeyId, Keys!HandleDelete(id)
       PROVE  KeysListed'
  <2>1. /\ Keys!Operate("delete", id, None) /\ Keys!Shown /\ UNCHANGED <<keys, error, dialog, creating>>
        /\ Keys!Row(id)
    BY <1>10 DEF Keys!HandleDelete, Keys!Plain
  <2> QED
    BY <1>1, <1>2, <1>3, <2>1, KeysSentFresh
<1>11. ASSUME NEW id \in KeyId, NEW op, Keys!OpenDialog(op, id)
       PROVE  KeysListed'
  <2>1. Keys!Quietly /\ UNCHANGED <<keys, creating, error>> /\ dialog'.id = id /\ Keys!Row(id)
    BY <1>11 DEF Keys!OpenDialog, Keys!Open
  <2> QED
    BY <1>4, <2>1
<1>12. ASSUME NEW name, NEW q, Keys!EditNewKey(name, q)
       PROVE  KeysListed'
  BY <1>4, <1>12 DEF Keys!EditNewKey, Keys!Edit
<1>13. ASSUME NEW op, NEW text, Keys!EditDraft(op, text)
       PROVE  KeysListed'
  <2>1. /\ Keys!Quietly /\ UNCHANGED <<keys, creating, error>> /\ dialog # None
        /\ dialog' = [dialog EXCEPT !.draft = text]
    BY <1>13 DEF Keys!EditDraft, Keys!Edit
  <2>2. dialog'.op = dialog.op /\ dialog'.id = dialog.id
    BY <1>1, <2>1 DEF KeyTypes, IsKeyDialog
  <2> QED
    BY <1>4, <2>1, <2>2
<1>14. ASSUME NEW m \in KeyModel, Keys!AddModelRestriction(m) \/ Keys!RemoveModel(m)
       PROVE  KeysListed'
  BY <1>13, <1>14 DEF Keys!AddModelRestriction, Keys!RemoveModel, Keys!EditModels
<1>15. ASSUME NEW op \in Keys!Edited, Keys!HandleSave(op), ~Keys!Refused
       PROVE  KeysListed'
  <2> DEFINE val == Keys!Payload(op, dialog.draft)
             id == dialog.id
  <2>1. /\ Keys!Operate(op, id, val) /\ Keys!Shown /\ UNCHANGED <<keys, error, dialog, creating>>
        /\ dialog # None /\ dialog.op = op
    BY <1>15 DEF Keys!HandleSave
  <2>2. op # "create"
    BY DEF Keys!Edited
  <2>3. ~excused => IsOldKey(calls, lastId, id)
    BY <1>3, <2>1, <2>2
  <2>4. ~excused /\ dialog' # None /\ dialog'.op # "create" => IsOldKey(calls, lastId, dialog'.id)
    BY <1>3, <2>1
  <2> HIDE DEF val, id
  <2> QED
    BY <1>1, <2>1, <2>2, <2>3, <2>4, KeysSentFresh
<1>16. ASSUME NEW i \in DOMAIN calls, Keys!Serve(i)
       PROVE  KeysListed'
  BY <1>1, <1>16, KeysAreServed
<1>17. ASSUME NEW i \in DOMAIN calls, Keys!LoadAnswered(i)
       PROVE  KeysListed'
  BY <1>1, <1>17, KeysLoaded
<1>18. ASSUME NEW i \in DOMAIN calls, Keys!CatalogAnswered(i)
       PROVE  KeysListed'
  <2>1. /\ Keys!Answered(i, {"catalog"}) /\ Keys!Failed(i) /\ UNCHANGED <<keys, dialog, creating>>
        /\ calls[i].kind = "catalog"
    BY <1>18 DEF Keys!CatalogAnswered, Keys!Answered
  <2> QED
    BY <1>1, <2>1, KeysLeftAlone
<1>19. ASSUME NEW i \in DOMAIN calls, Keys!CreateAnswered(i)
       PROVE  KeysListed'
  BY <1>1, <1>19, KeysCreated
<1>20. ASSUME NEW i \in DOMAIN calls, NEW op \in Keys!Edited, Keys!SaveAnswered(i, op)
       PROVE  KeysListed'
  BY <1>1, <1>20, KeysSaved
<1>21. ASSUME NEW i \in DOMAIN calls, Keys!DeleteAnswered(i)
       PROVE  KeysListed'
  BY <1>1, <1>21, KeysDeleted
<1>22. CASE Keys!HandleCreate
  BY <1>7, <1>8, <1>22
<1>23. ASSUME NEW op \in Keys!Edited, Keys!HandleSave(op)
       PROVE  KeysListed'
  BY <1>7, <1>15, <1>23
<1> QED
  BY <1>5, <1>6, <1>7, <1>9, <1>10, <1>11, <1>12, <1>13, <1>14, <1>16, <1>17, <1>18, <1>19,
     <1>20, <1>21, <1>22, <1>23
  DEF Keys!Next, Keys!EditRename, Keys!EditQuota, Keys!HandleRename, Keys!HandleSaveModels,
      Keys!HandleSaveQuota, Keys!RenameAnswered, Keys!ModelsAnswered, Keys!QuotaAnswered, Keys!Edited

(***************************************************************************)
(* The keys page: the quotas and models it was told.                       *)
(***************************************************************************)
CallLimits(k, t) ==
  k.at = "ok" =>
    /\ k.kind = "load" => \A j \in DOMAIN k.rows : Keys!Limits(k.rows[j]) = t[k.rows[j].id]
    /\ k.kind = "create" => Keys!Limits(k.rows) = t[k.id]

RowLimits(row, s, t) == Keys!Limits(row) = t[row.id] \/ LoadOk(s)

LimitsTold ==
  /\ DOMAIN told = KeyId
  /\ ~excused =>
       /\ \A i \in DOMAIN calls : CallLimits(calls[i], told)
       /\ keys # None => \A k \in DOMAIN keys : RowLimits(keys[k], calls, told)

LEMMA LimitsInit == Keys!Init => LimitsTold
<1> SUFFICES ASSUME Keys!Init PROVE LimitsTold
  OBVIOUS
<1> DEFINE call == Keys!Call("load", None, None)
<1>1. calls \in Seq({call}) /\ DOMAIN calls = 1..1 /\ calls[1] = call
  BY DEF Keys!Init
<1>2. call.at = "sent"
  BY DEF Keys!Call
<1> HIDE DEF call
<1>3. \A i \in DOMAIN calls : calls[i].at # "ok"
  BY <1>1, <1>2
<1>4. keys = None /\ DOMAIN told = KeyId
  BY DEF Keys!Init
<1> QED
  BY <1>3, <1>4 DEF LimitsTold, CallLimits

(* What keeps the limits as they were told: no answer to a load or a create  *)
(* is new, and each row is told or was there with the same limits.           *)
LEMMA LimitsKept ==
  ASSUME LimitsTold, told' = told, excused => excused',
         \A j \in DOMAIN calls' :
           \/ calls'[j].at # "ok" \/ calls'[j].kind \notin {"load", "create"}
           \/ \E i \in DOMAIN calls : calls'[j] = calls[i],
         ~excused' /\ keys' # None => \A k \in DOMAIN keys' :
           \/ Keys!Limits(keys'[k]) = told[keys'[k].id]
           \/ /\ keys # None /\ (LoadOk(calls) => LoadOk(calls'))
              /\ \E l \in DOMAIN keys : keys'[k].id = keys[l].id
                                        /\ Keys!Limits(keys'[k]) = Keys!Limits(keys[l])
  PROVE  LimitsTold'
<1> SUFFICES ASSUME ~excused'
             PROVE  /\ \A j \in DOMAIN calls' : CallLimits(calls'[j], told')
                    /\ keys' # None => \A k \in DOMAIN keys' : RowLimits(keys'[k], calls', told')
  BY DEF LimitsTold
<1>1. /\ \A i \in DOMAIN calls : CallLimits(calls[i], told)
      /\ keys # None => \A k \in DOMAIN keys : RowLimits(keys[k], calls, told)
  BY DEF LimitsTold
<1>2. \A j \in DOMAIN calls' : CallLimits(calls'[j], told')
  BY <1>1 DEF CallLimits
<1>3. keys' # None => \A k \in DOMAIN keys' : RowLimits(keys'[k], calls', told')
  BY <1>1 DEF RowLimits
<1> QED
  BY <1>2, <1>3

LEMMA LimitsSame == LimitsTold /\ UNCHANGED <<told, keys, calls, excused>> => LimitsTold'
BY LimitsKept

LEMMA LimitsSent ==
  ASSUME KeysListed, LimitsTold, NEW kind, NEW id, NEW val, Keys!Operate(kind, id, val), keys' = keys
  PROVE  LimitsTold'
<1> DEFINE k == Keys!Call(kind, id, val)
           n == Len(calls) + 1
<1>1. calls' = Append(calls, k) /\ told' = told /\ (excused => excused')
  BY DEF Keys!Operate
<1>2. k.at = "sent"
  BY DEF Keys!Call
<1> HIDE DEF k
<1>3. IsSequence(calls)
  BY DEF KeysListed, KeyTypes
<1>4. /\ DOMAIN calls = 1..Len(calls) /\ DOMAIN calls' = 1..n /\ Len(calls) \in Nat
      /\ (\A j \in 1..Len(calls) : calls'[j] = calls[j]) /\ calls'[n] = k
  BY <1>1, <1>3, Appended
<1>5. DOMAIN calls' = DOMAIN calls \cup {n} /\ (\A j \in DOMAIN calls : calls'[j] = calls[j])
      /\ calls'[n] = k
  BY <1>4
<1> HIDE DEF n
<1>6. LoadOk(calls) => LoadOk(calls')
  BY <1>5 DEF LoadOk
<1> QED
  BY <1>1, <1>2, <1>5, <1>6, LimitsKept

(* The list the server has tells each key's limits. *)
LEMMA ListedLimits ==
  ASSUME table \in [KeyId -> StoredKeys \cup {None}]
  PROVE  \A k \in DOMAIN Keys!ListOf(table) :
           LET row == Keys!ListOf(table)[k] IN
           row.id \in KeyId /\ table[row.id] # None /\ Keys!Limits(row) = Keys!Limits(table[row.id])
<1> DEFINE list == Keys!ListOf(table)
<1>1. \A k \in DOMAIN list :
        /\ list[k].id \in {id \in KeyId : table[id] # None}
        /\ list[k].quota = table[list[k].id].quota /\ list[k].models = table[list[k].id].models
  BY KeysTold
<1> HIDE DEF list
<1>2. \A k \in DOMAIN list :
        LET row == list[k] IN
        row.id \in KeyId /\ table[row.id] # None /\ Keys!Limits(row) = Keys!Limits(table[row.id])
  BY <1>1 DEF Keys!Limits
<1> QED
  BY <1>2 DEF list

(* The server settles a call. *)
LEMMA LimitsServed ==
  ASSUME KeysListed, LimitsTold, NEW i \in DOMAIN calls, Keys!Serve(i)
  PROVE  LimitsTold'
<1> DEFINE k == calls[i]
<1>1. keys' = keys /\ k.at = "sent" /\ IsSequence(calls) /\ DOMAIN told = KeyId
      /\ DOMAIN k = {"kind", "id", "val", "at", "rows"} /\ KeyTypes
  BY DEF Keys!Serve, Keys!page, KeysListed, KeyTypes, IsKeyCall, LimitsTold
<1>2. ASSUME NEW e, calls' = [calls EXCEPT ![i] = e]
      PROVE  /\ DOMAIN calls' = DOMAIN calls /\ calls'[i] = e
             /\ \A j \in DOMAIN calls \ {i} : calls'[j] = calls[j]
             /\ LoadOk(calls) => LoadOk(calls')
  <2>1. /\ DOMAIN calls' = DOMAIN calls /\ calls'[i] = e
        /\ \A j \in DOMAIN calls \ {i} : calls'[j] = calls[j]
    BY <1>1, <1>2, Replaced
  <2> QED
    BY <1>1, <2>1 DEF LoadOk
<1>3. CASE (Keys!ServeRead(i) /\ k.kind # "load") \/ Keys!Fail(i)
  <2>1. PICK how : /\ Keys!Settled(i, how, None) /\ (k.kind = "catalog" \/ how # "ok")
                   /\ told' = told /\ excused' = excused
    BY <1>3 DEF Keys!ServeRead, Keys!Fail
  <2> DEFINE e == [[k EXCEPT !.at = how] EXCEPT !.val = None]
  <2>2. calls' = [calls EXCEPT ![i] = e]
    BY <2>1 DEF Keys!Settled
  <2>3. e.at # "ok" \/ e.kind \notin {"load", "create"}
    BY <1>1, <2>1
  <2> HIDE DEF e
  <2> QED
    BY <1>1, <1>2, <2>1, <2>2, <2>3, LimitsKept
<1>4. CASE Keys!ServeRead(i) /\ k.kind = "load"
  <2> DEFINE list == Keys!ListOf(table)
             e == [[k EXCEPT !.at = "ok"] EXCEPT !.rows = list]
  <2>1. /\ calls' = [calls EXCEPT ![i] = e] /\ excused' = excused
        /\ told' = [id \in KeyId |-> IF table[id] = None THEN None ELSE Keys!Limits(table[id])]
    BY <1>4 DEF Keys!ServeRead
  <2>2. e.kind = "load" /\ e.at = "ok" /\ e.rows = list
    BY <1>1, <1>4
  <2>3. \A j \in DOMAIN list : Keys!Limits(list[j]) = told'[list[j].id]
    BY <1>1, <2>1, ListedLimits DEF KeyTypes
  <2> HIDE DEF e
  <2>4. ASSUME ~excused, NEW j \in DOMAIN calls'
        PROVE  CallLimits(calls'[j], told')
    <3>1. OutOf(calls, Keys!Writes) = {}
      BY <1>4, <2>4 DEF KeysListed, KeysFresh, OutOf
    <3>2. j \in DOMAIN calls /\ calls[j].kind # "create"
      BY <1>2, <2>1, <2>4, <3>1 DEF OutOf, Keys!Writes
    <3>3. CASE j = i
      BY <1>2, <2>1, <2>2, <2>3, <3>3 DEF CallLimits
    <3>4. CASE j # i
      <4>1. calls'[j] = calls[j]
        BY <1>2, <2>1, <3>2, <3>4
      <4>2. calls[j].kind = "load" /\ calls[j].at = "ok" => calls[j].rows = list
        BY <2>4, <3>2 DEF KeysListed, KeysFresh, KeySays
      <4> QED
        BY <2>3, <3>2, <4>1, <4>2 DEF CallLimits
    <3> QED
      BY <3>3, <3>4
  <2>5. LoadOk(calls')
    BY <1>2, <2>1, <2>2 DEF LoadOk
  <2> QED
    BY <2>1, <2>4, <2>5 DEF LimitsTold, RowLimits
<1>5. CASE Keys!ServeWrite(i)
  <2>1. PICK id, row, e : KeyWritten(i, id, row, e)
    BY <1>1, <1>5, KeyWrites
  <2>2. /\ calls' = [calls EXCEPT ![i] = e] /\ e.kind = k.kind /\ id \in KeyId
        /\ (excused' /\ e.at = "error") \/ excused' = excused
        /\ told' = IF k.kind = "create" THEN [told EXCEPT ![id] = Keys!Limits(row)] ELSE told
    BY <2>1 DEF KeyWritten
  <2>3. k.kind \in Keys!Writes /\ k.kind # "load"
    BY <1>5 DEF Keys!ServeWrite, Keys!Writes, Keys!Edited
  <2>4. CASE k.kind # "create"
    <3>1. e.kind \notin {"load", "create"} /\ (excused => excused')
      BY <2>2, <2>3, <2>4
    <3> QED
      BY <1>1, <1>2, <2>2, <2>4, <3>1, LimitsKept
  <2>5. CASE k.kind = "create"
    <3>1. DOMAIN told' = KeyId
      BY <1>1, <2>2
    <3> SUFFICES ASSUME ~excused'
                 PROVE  /\ \A j \in DOMAIN calls' : CallLimits(calls'[j], told')
                        /\ keys' # None => \A j \in DOMAIN keys' : RowLimits(keys'[j], calls', told')
      BY <3>1 DEF LimitsTold
    <3>2. /\ ~excused /\ e.at = "ok" /\ e.id = id /\ e.rows = row /\ id = lastId + 1
          /\ told' = [told EXCEPT ![id] = Keys!Limits(row)]
      BY <2>1, <2>5 DEF KeyWritten
    <3>3. /\ \A j \in DOMAIN calls : CallLimits(calls[j], told)
          /\ keys # None => \A j \in DOMAIN keys : RowLimits(keys[j], calls, told)
      BY <3>2 DEF LimitsTold
    <3>4. \A j \in DOMAIN calls \ {i} : calls[j].kind \notin {"load", "create"}
      <4>1. OutOf(calls, {"load"}) = {}
        BY <2>3, <3>2 DEF KeysListed, KeysFresh, OutOf
      <4>2. AtMostOne(OutOf(calls, {"create"}))
        BY DEF KeysListed, KeysOut, OneWhile
      <4> QED
        BY <2>5, <4>1, <4>2 DEF OutOf, AtMostOne
    <3>5. ASSUME NEW j \in DOMAIN calls'
          PROVE  CallLimits(calls'[j], told')
      <4>1. CASE j = i
        BY <1>1, <1>2, <2>2, <2>5, <3>2, <4>1 DEF CallLimits
      <4>2. CASE j # i
        BY <1>2, <2>2, <3>4, <4>2 DEF CallLimits
      <4> QED
        BY <4>1, <4>2
    <3>6. ASSUME keys # None, NEW j \in DOMAIN keys
          PROVE  RowLimits(keys[j], calls', told')
      <4> DEFINE r == keys[j]
      <4>1. RowLimits(r, calls, told) /\ IsOldKey(calls, lastId, r.id)
        BY <3>2, <3>3, <3>6 DEF KeysListed, KeysFresh, ShownKeys, KeyRowSays
      <4>2. r.id \in KeyId /\ r.id # id
        BY <3>2, <4>1, KeysAssumption, FS_CardinalityType DEF IsOldKey, KeysListed, KeysStored
      <4>3. told'[r.id] = told[r.id]
        BY <1>1, <3>2, <4>2
      <4> QED
        BY <1>2, <2>2, <4>1, <4>3 DEF RowLimits
    <3> QED
      BY <1>1, <3>5, <3>6
  <2> QED
    BY <2>4, <2>5
<1> QED
  BY <1>3, <1>4, <1>5 DEF Keys!Serve

(* What an answer leaves of the lists that are under way. *)
LEMMA LimitsLeft ==
  ASSUME KeysListed, NEW i \in DOMAIN calls, NEW kinds, Keys!Answered(i, kinds)
  PROVE  /\ told' = told /\ excused' = excused
         /\ \A j \in DOMAIN calls' : \E l \in DOMAIN calls : calls'[j] = calls[l]
         /\ LoadOk(calls) => LoadOk(calls') \/ (calls[i].at = "ok" /\ calls[i].kind = "load")
<1>1. calls' = Left(calls, i) /\ UNCHANGED <<told, excused>> /\ IsSequence(calls)
  BY DEF Keys!Answered, Keys!WithoutAt, Left, KeysListed, KeyTypes
<1>2. /\ \A j \in DOMAIN calls' : Place(i, j) \in DOMAIN calls \ {i} /\ calls'[j] = calls[Place(i, j)]
      /\ \A l \in DOMAIN calls \ {i} : \E j \in DOMAIN calls' : Place(i, j) = l /\ calls'[j] = calls[l]
  BY <1>1, Removed
<1>3. \A j \in DOMAIN calls' : \E l \in DOMAIN calls : calls'[j] = calls[l]
  BY <1>2
<1>4. LoadOk(calls) => LoadOk(calls') \/ (calls[i].at = "ok" /\ calls[i].kind = "load")
  BY <1>2 DEF LoadOk
<1> QED
  BY <1>1, <1>3, <1>4

(* An answer to a load shows rows as they were told; one to a create adds    *)
(* such a row, and the others touch no row's limits.                         *)
LEMMA LimitsAnswered ==
  ASSUME KeysListed, LimitsTold, NEW i \in DOMAIN calls, NEW kind, Keys!Answered(i, {kind}),
         \/ keys' = keys /\ (kind = "load" => calls[i].at # "ok")
         \/ calls[i].at = "ok" /\ kind = "load" /\ keys' = calls[i].rows
         \/ calls[i].at = "ok" /\ kind = "create" /\ keys' = Keys!WithCreated(i)
         \/ calls[i].at = "ok" /\ kind \in Keys!Edited /\ keys' = Keys!Renamed(i)
         \/ calls[i].at = "ok" /\ kind = "delete" /\ keys' = Keys!Removed(calls[i].id)
  PROVE  LimitsTold'
<1> DEFINE k == calls[i]
<1>1. /\ told' = told /\ excused' = excused /\ k.kind = kind
      /\ \A j \in DOMAIN calls' : \E l \in DOMAIN calls : calls'[j] = calls[l]
      /\ LoadOk(calls) => LoadOk(calls') \/ (k.at = "ok" /\ kind = "load")
  BY LimitsLeft DEF Keys!Answered
<1>2. ~excused => CallLimits(k, told)
  BY DEF LimitsTold
<1>3. CASE keys' = keys /\ (kind = "load" => k.at # "ok")
  BY <1>1, <1>3, LimitsKept
<1>4. CASE k.at = "ok" /\ kind = "load" /\ keys' = k.rows
  <2>1. ~excused => \A j \in DOMAIN keys' : Keys!Limits(keys'[j]) = told[keys'[j].id]
    BY <1>1, <1>2, <1>4 DEF CallLimits
  <2> QED
    BY <1>1, <2>1, LimitsKept
<1>5. ASSUME kind \in Keys!Writes, kind # "load",
             ~excused /\ keys # None /\ Keys!Known = keys => \A j \in DOMAIN keys' :
               \/ Keys!Limits(keys'[j]) = told[keys'[j].id]
               \/ \E l \in DOMAIN keys : keys'[j].id = keys[l].id
                                         /\ Keys!Limits(keys'[j]) = Keys!Limits(keys[l])
      PROVE  LimitsTold'
  <2>1. ~excused => keys # None /\ Keys!Known = keys
    BY <1>1, <1>5, KeysKnown
  <2> QED
    BY <1>1, <1>5, <2>1, LimitsKept
<1>6. CASE k.at = "ok" /\ kind = "create" /\ keys' = Keys!WithCreated(i)
  <2>1. ASSUME ~excused, keys # None, Keys!Known = keys, NEW j \in DOMAIN keys'
        PROVE  \/ Keys!Limits(keys'[j]) = told[keys'[j].id]
               \/ \E l \in DOMAIN keys : keys'[j] = keys[l]
    <3> DEFINE row == Keys!Record(i)
    <3>1. Keys!Limits(row) = told[row.id]
      BY <1>1, <1>2, <1>6, <2>1 DEF CallLimits, Keys!Record, Keys!Limits
    <3> HIDE DEF row
    <3>2. keys' = <<row>> \o keys /\ keys \in Seq(ListedKeys)
      BY <1>6, <2>1 DEF Keys!WithCreated, row, KeysListed, KeyTypes
    <3>3. keys'[j] = row \/ \E l \in DOMAIN keys : keys'[j] = keys[l]
      <4> DEFINE S == ListedKeys \cup {row}
      <4>1. keys \in Seq(S) /\ <<row>> \in Seq(S) /\ Len(<<row>>) = 1 /\ <<row>>[1] = row
        BY <3>2, SeqMonotonic
      <4> DEFINE t == <<row>>
      <4>2. t \in Seq(S) /\ Len(t) = 1 /\ t[1] = row /\ keys' = t \o keys
        BY <3>2, <4>1
      <4> HIDE DEF t, S
      <4>3. /\ t \o keys \in Seq(S) /\ Len(t \o keys) = Len(t) + Len(keys)
            /\ \A l \in 1..Len(t) + Len(keys) :
                 (t \o keys)[l] = IF l <= Len(t) THEN t[l] ELSE keys[l - Len(t)]
        BY <4>1, <4>2, ConcatProperties
      <4>4. DOMAIN keys' = 1..Len(keys') /\ DOMAIN keys = 1..Len(keys) /\ Len(keys) \in Nat
        BY <4>1, <4>2, <4>3, SequenceOf
      <4>5. j \in 1..1 + Len(keys) /\ keys'[j] = IF j <= 1 THEN t[j] ELSE keys[j - 1]
        BY <2>1, <4>2, <4>3, <4>4
      <4>6. (j = 1 /\ keys'[j] = t[1]) \/ (j - 1 \in DOMAIN keys /\ keys'[j] = keys[j - 1])
        BY <4>4, <4>5
      <4> QED
        BY <4>2, <4>6
    <3> QED
      BY <3>1, <3>3
  <2>2. kind \in Keys!Writes /\ kind # "load"
    BY <1>6 DEF Keys!Writes
  <2> QED
    BY <1>5, <2>1, <2>2
<1>7. CASE k.at = "ok" /\ kind \in Keys!Edited /\ keys' = Keys!Renamed(i)
  <2>1. ASSUME ~excused, keys # None, Keys!Known = keys, NEW j \in DOMAIN keys'
        PROVE  \E l \in DOMAIN keys : keys'[j].id = keys[l].id
                                      /\ Keys!Limits(keys'[j]) = Keys!Limits(keys[l])
    <3>1. /\ j \in DOMAIN keys
          /\ keys'[j] = IF keys[j].id = k.id THEN [keys[j] EXCEPT !.name = k.val] ELSE keys[j]
      BY <1>7, <2>1 DEF Keys!Renamed
    <3>2. keys[j] \in ListedKeys
      BY <2>1, <3>1, ElementOfSeq DEF KeysListed, KeyTypes
    <3>3. keys'[j].id = keys[j].id /\ keys'[j].quota = keys[j].quota /\ keys'[j].models = keys[j].models
      BY <3>1, <3>2 DEF ListedKeys
    <3> QED
      BY <3>1, <3>3 DEF Keys!Limits
  <2>2. kind \in Keys!Writes /\ kind # "load"
    BY <1>7 DEF Keys!Writes, Keys!Edited
  <2> QED
    BY <1>5, <2>1, <2>2
<1>8. CASE k.at = "ok" /\ kind = "delete" /\ keys' = Keys!Removed(k.id)
  <2>1. ASSUME ~excused, keys # None, Keys!Known = keys, NEW j \in DOMAIN keys'
        PROVE  \E l \in DOMAIN keys : keys'[j] = keys[l]
    <3> DEFINE I == {l \in DOMAIN keys : keys[l].id # k.id}
    <3>1. keys' = Keys!Picked(keys, I) /\ I \in SUBSET DOMAIN keys
      BY <1>8, <2>1 DEF Keys!Removed
    <3>2. IsSequence(keys)
      BY <2>1, SequenceOf DEF KeysListed, KeyTypes
    <3> HIDE DEF I
    <3>3. keys' = Failover!Picked(keys, I)
      BY <3>1 DEF Failover!Picked, Failover!Ascending, Failover!Ordered, Failover!Cardinality,
                  Keys!Picked, Keys!Ascending, Keys!Ordered, Keys!Cardinality
    <3> QED
      BY <2>1, <3>1, <3>2, <3>3, PickedElements
  <2>2. kind \in Keys!Writes /\ kind # "load"
    BY <1>8 DEF Keys!Writes
  <2> QED
    BY <1>5, <2>1, <2>2
<1> QED
  BY <1>3, <1>4, <1>6, <1>7, <1>8

LEMMA LimitsStep == KeysListed /\ LimitsTold /\ Keys!Next => LimitsTold'
<1> SUFFICES ASSUME KeysListed, LimitsTold, Keys!Next PROVE LimitsTold'
  OBVIOUS
<1>1. ASSUME Keys!Quietly, keys' = keys
      PROVE  LimitsTold'
  BY <1>1, LimitsSame DEF Keys!Quietly
<1>2. CASE Keys!LoadKeys
  BY <1>2, LimitsSent DEF Keys!LoadKeys, Keys!page
<1>3. CASE Keys!OpenCreate \/ Keys!Close \/ Keys!CloseVisible
  BY <1>1, <1>3 DEF Keys!OpenCreate, Keys!Close, Keys!CloseVisible
<1>4. CASE Keys!HandleCreate
  <2>1. keys' = keys /\ (Keys!Quietly \/ \E val : Keys!Operate("create", None, val))
    BY <1>4 DEF Keys!HandleCreate, Keys!Refused
  <2> QED
    BY <1>1, <2>1, LimitsSent
<1>5. ASSUME NEW id \in KeyId, Keys!OpenModelsDialog(id) \/ Keys!HandleDelete(id)
      PROVE  LimitsTold'
  <2>1. keys' = keys /\ \E kind, key : Keys!Operate(kind, key, None)
    BY <1>5 DEF Keys!OpenModelsDialog, Keys!HandleDelete
  <2> QED
    BY <2>1, LimitsSent
<1>6. ASSUME NEW id \in KeyId, NEW op, Keys!OpenDialog(op, id)
      PROVE  LimitsTold'
  BY <1>1, <1>6 DEF Keys!OpenDialog
<1>7. ASSUME NEW name, NEW q, Keys!EditNewKey(name, q)
      PROVE  LimitsTold'
  BY <1>1, <1>7 DEF Keys!EditNewKey, Keys!Edit
<1>8. ASSUME NEW op, NEW text, Keys!EditDraft(op, text)
      PROVE  LimitsTold'
  BY <1>1, <1>8 DEF Keys!EditDraft, Keys!Edit
<1>9. ASSUME NEW m \in KeyModel, Keys!AddModelRestriction(m) \/ Keys!RemoveModel(m)
      PROVE  LimitsTold'
  BY <1>8, <1>9 DEF Keys!AddModelRestriction, Keys!RemoveModel, Keys!EditModels
<1>10. ASSUME NEW op \in Keys!Edited, Keys!HandleSave(op)
       PROVE  LimitsTold'
  <2>1. keys' = keys /\ (Keys!Quietly \/ \E val : Keys!Operate(op, dialog.id, val))
    BY <1>10 DEF Keys!HandleSave, Keys!Refused
  <2> QED
    BY <1>1, <2>1, LimitsSent
<1>11. ASSUME NEW i \in DOMAIN calls, Keys!Serve(i)
       PROVE  LimitsTold'
  BY <1>11, LimitsServed
<1>12. ASSUME NEW i \in DOMAIN calls, Keys!LoadAnswered(i)
       PROVE  LimitsTold'
  BY <1>12, LimitsAnswered DEF Keys!LoadAnswered, Keys!Succeeded
<1>13. ASSUME NEW i \in DOMAIN calls, Keys!CatalogAnswered(i)
       PROVE  LimitsTold'
  BY <1>13, LimitsAnswered DEF Keys!CatalogAnswered
<1>14. ASSUME NEW i \in DOMAIN calls, Keys!CreateAnswered(i)
       PROVE  LimitsTold'
  BY <1>14, LimitsAnswered DEF Keys!CreateAnswered, Keys!Succeeded
<1>15. ASSUME NEW i \in DOMAIN calls, NEW op \in Keys!Edited, Keys!SaveAnswered(i, op)
       PROVE  LimitsTold'
  <2>1. op # "load"
    BY DEF Keys!Edited
  <2> QED
    BY <1>15, <2>1, LimitsAnswered DEF Keys!SaveAnswered, Keys!Succeeded
<1>16. ASSUME NEW i \in DOMAIN calls, Keys!DeleteAnswered(i)
       PROVE  LimitsTold'
  BY <1>16, LimitsAnswered DEF Keys!DeleteAnswered, Keys!Succeeded
<1> QED
  BY <1>2, <1>3, <1>4, <1>5, <1>6, <1>7, <1>8, <1>9, <1>10, <1>11, <1>12, <1>13, <1>14, <1>15, <1>16
  DEF Keys!Next, Keys!EditRename, Keys!EditQuota, Keys!HandleRename, Keys!HandleSaveModels,
      Keys!HandleSaveQuota, Keys!RenameAnswered, Keys!ModelsAnswered, Keys!QuotaAnswered, Keys!Edited

LEMMA KeysQuiet == KeysListed /\ LimitsTold => Keys!QuietMeansFresh
<1> SUFFICES ASSUME KeysListed, LimitsTold, calls = <<>>, keys # None, ~excused
             PROVE  LET list == Keys!ListOf(table) IN keys = [k \in DOMAIN list |-> Keys!Told(list[k])]
  BY DEF Keys!QuietMeansFresh
<1> DEFINE S == {id \in KeyId : table[id] # None}
           list == Keys!ListOf(table)
           ids == [k \in DOMAIN keys |-> keys[k].id]
<1>1. ~LoadOk(calls) /\ \A x, y : ~OkFor(calls, x, y) /\ ~OkEdited(calls, y)
  BY DEF LoadOk, OkFor, OkEdited
<1>2. /\ keys \in Seq(ListedKeys) /\ DOMAIN keys = 1..Len(keys) /\ Len(keys) \in Nat
      /\ \A k \in DOMAIN keys : keys[k] \in ListedKeys
      /\ table \in [KeyId -> StoredKeys \cup {None}]
  <2>1. keys \in Seq(ListedKeys)
    BY DEF KeysListed, KeyTypes
  <2> QED
    BY <2>1, SequenceOf, ElementOfSeq DEF KeysListed, KeyTypes
<1>3. ShownKeys
  BY DEF KeysListed, KeysFresh
<1>4. /\ \A k \in DOMAIN keys :
           /\ keys[k].id \in S
           /\ keys[k].name = table[keys[k].id].name
           /\ Keys!Limits(keys[k]) = told[keys[k].id]
      /\ \A id \in S : \E k \in DOMAIN keys : keys[k].id = id
      /\ \A j, k \in DOMAIN keys : j < k => keys[j].id > keys[k].id
  BY <1>1, <1>3 DEF ShownKeys, KeyRowSays, IsOldKey, LimitsTold, RowLimits
<1>5. /\ S \subseteq Int /\ IsFiniteSet(S)
      /\ list \in Seq(ListedKeys) /\ DOMAIN list = DOMAIN Failover!Descending(S)
      /\ \A k \in DOMAIN list :
           /\ list[k].id = Failover!Descending(S)[k]
           /\ list[k].name = table[list[k].id].name /\ list[k].quota = table[list[k].id].quota
           /\ list[k].models = table[list[k].id].models
  BY <1>2, KeysTold
<1> HIDE DEF S, list
<1>6. DOMAIN ids = 1..Len(keys) /\ \A k \in 1..Len(keys) : ids[k] = keys[k].id
  BY <1>2
<1> HIDE DEF ids
<1>7. DOMAIN list = DOMAIN keys /\ \A k \in DOMAIN keys : list[k].id = keys[k].id
  <2>1. /\ \A k \in 1..Len(keys) : ids[k] \in S
        /\ \A e \in S : \E k \in 1..Len(keys) : ids[k] = e
        /\ \A j, k \in 1..Len(keys) : j < k => ids[j] > ids[k]
    BY <1>2, <1>4, <1>6, SMTT(40)
  <2>2. IsOrdered(S, Greater(S), Len(keys), ids)
    BY <2>1 DEF IsOrdered, Greater
  <2>3. /\ DOMAIN Failover!Descending(S) = 1..Len(keys)
        /\ \A k \in 1..Len(keys) : ids[k] = Failover!Descending(S)[k]
    BY <1>2, <1>5, <2>2, DescendingOnce, ZenonT(40)
  <2> QED
    BY <1>2, <1>5, <1>6, <2>3
<1>8. ASSUME NEW k \in DOMAIN keys
      PROVE  keys[k] = Keys!Told(list[k])
  <2>1. keys[k] \in ListedKeys /\ list[k] \in ListedKeys
    BY <1>2, <1>5, <1>7, ElementOfSeq
  <2>2. list[k].id = keys[k].id /\ list[k].name = keys[k].name
    BY <1>4, <1>5, <1>7
  <2>3. told[list[k].id] = [quota |-> keys[k].quota, models |-> keys[k].models]
    BY <1>4, <2>2 DEF Keys!Limits
  <2> DEFINE r == list[k]
             t == told[r.id]
  <2>4. r.id = keys[k].id /\ r.name = keys[k].name /\ t.quota = keys[k].quota /\ t.models = keys[k].models
    BY <2>2, <2>3
  <2>5. r \in ListedKeys /\ Keys!Told(r) = [[r EXCEPT !.quota = t.quota] EXCEPT !.models = t.models]
    BY <2>1 DEF Keys!Told
  <2> HIDE DEF r, t
  <2>6. [[r EXCEPT !.quota = t.quota] EXCEPT !.models = t.models]
          = [id |-> r.id, name |-> r.name, quota |-> t.quota, models |-> t.models]
    BY <2>5 DEF ListedKeys
  <2>7. keys[k] = [id |-> keys[k].id, name |-> keys[k].name, quota |-> keys[k].quota,
                   models |-> keys[k].models]
    BY <2>1 DEF ListedKeys
  <2> QED
    BY <2>4, <2>5, <2>6, <2>7 DEF r
<1>9. keys = [k \in DOMAIN keys |-> keys[k]]
  BY <1>2
<1> QED
  BY <1>7, <1>8, <1>9 DEF list

(***************************************************************************)
(* A quiet page shows what the server has.                                 *)
(***************************************************************************)
QuietInv ==
  /\ page = "providers" => ProvidersInv /\ ListFresh
  /\ page = "routes"    => AliasesInv /\ FlagsTold
  /\ page = "failover"  => PolicyInv
  /\ page = "keys"      => KeysListed /\ LimitsTold
  /\ page = "settings"  => SettingsInv

(* When no call is out, each page shows what its server has: the providers   *)
(* (providers-page.tsx), the aliases and the policy (routes-page.tsx), the   *)
(* keys (keys-page.tsx) and the timeouts (settings-page.tsx), though lists   *)
(* are patched with answers that may come in any order.  Excused are loads   *)
(* and writes that crossed, lost answers, an import that stopped half way    *)
(* and a load answered with defaults.  An alias's enabled flag and a key's   *)
(* quota and models are shown as the page was last told them, which after a  *)
(* plain save of theirs is not what the server has (consoleapi/api.go:421,   *)
(* 430, 516).                                                                *)
THEOREM QuietShowsServer == Spec => []QuietMeansFresh
<1>1. Init => QuietInv
  BY ProvidersInit, ListInit, AliasesInit, FlagsInit, PolicyInit, KeysListedInit, LimitsInit, SettingsInit
  DEF Init, QuietInv
<1>2. QuietInv /\ [Next]_vars => QuietInv'
  <2> SUFFICES ASSUME QuietInv, [Next]_vars PROVE QuietInv'
    OBVIOUS
  <2>1. page' = page
    BY DEF Next, vars, common
  <2>2. CASE UNCHANGED vars
    <3>1. /\ UNCHANGED <<stored, settings, form, edited, loading, saving, calls, signedOut, excused>>
          /\ UNCHANGED <<served, policy, flags, table, lastId, aliases, dialog, channels>>
          /\ UNCHANGED <<toggling, pending, testing, testingAll, tester, editor, providers, pageError>>
          /\ UNCHANGED <<keys, error, newKey, creating, told>>
      BY <2>2 DEF vars, common, editVars, tableVars, keyVars, listVars
    <3>2. /\ page = "providers" => ProvidersInv' /\ ListFresh'
          /\ page = "routes" => AliasesInv' /\ FlagsTold'
      BY <3>1, ProvidersKept, ListSame, AliasesSame, FlagsSame DEF QuietInv
    <3>3. /\ page = "failover" => PolicyInv'
          /\ page = "settings" => SettingsInv'
      BY <3>1, PolicySame, SettingsSame DEF QuietInv
    <3>4. page = "keys" => KeysListed' /\ LimitsTold'
      BY <3>1, KeysListedSame, LimitsSame DEF QuietInv
    <3> QED
      BY <2>1, <3>2, <3>3, <3>4 DEF QuietInv
  <2>3. CASE page = "providers" /\ Providers!Next
    BY <2>1, <2>3, ProvidersStep, ListStep DEF QuietInv
  <2>4. CASE page = "routes" /\ Routes!Next
    BY <2>1, <2>4, AliasesStep, FlagsStep DEF QuietInv
  <2>5. CASE page = "failover" /\ Failover!Next
    BY <2>1, <2>5, PolicyStep DEF QuietInv
  <2>6. CASE page = "keys" /\ Keys!Next
    BY <2>1, <2>6, KeysListedStep, LimitsStep DEF QuietInv
  <2>7. CASE page = "settings" /\ Settings!Next
    BY <2>1, <2>7, SettingsStep DEF QuietInv
  <2>8. CASE page \notin {"providers", "routes", "failover", "keys", "settings"}
    BY <2>1, <2>8 DEF QuietInv
  <2> QED
    BY <2>2, <2>3, <2>4, <2>5, <2>6, <2>7, <2>8 DEF Next
<1>3. QuietInv => QuietMeansFresh
  BY ListQuiet, AliasesQuiet, PolicyQuiet, KeysQuiet, SettingsQuiet DEF QuietInv, QuietMeansFresh
<1> QED
  BY <1>1, <1>2, <1>3, PTL DEF Spec

(***************************************************************************)
(* One call of a kind at a time, and the types of the pages.               *)
(***************************************************************************)
(* A page counts the calls of a kind: one while the flag is up, or none.     *)
LEMMA OneOut ==
  ASSUME NEW s, IsSequence(s), NEW kind, NEW flag, OneWhile(OutOf(s, {kind}), flag)
  PROVE  Providers!Cardinality({i \in DOMAIN s : s[i].kind = kind}) = IF flag THEN 1 ELSE 0
<1>1. OutOf(s, {kind}) = {i \in DOMAIN s : s[i].kind = kind} /\ OutOf(s, {kind}) \subseteq DOMAIN s
  BY DEF OutOf
<1>2. Providers!Cardinality(OutOf(s, {kind})) = IF flag THEN 1 ELSE 0
  BY <1>1, OneCounted, Zenon
<1> QED
  BY <1>1, <1>2, Zenon

(***************************************************************************)
(* The message after a save is shown as long as a timer is about to clear  *)
(* it, on the settings page and on the failover form.                      *)
(***************************************************************************)
FeedbackFading ==
  /\ feedback \in [shown : BOOLEAN, timers : Nat]
  /\ feedback.shown => feedback.timers > 0

LEMMA FeedbackStep ==
  ASSUME FeedbackFading,
         \/ UNCHANGED feedback
         \/ feedback' = [shown |-> TRUE, timers |-> feedback.timers + 1]
         \/ feedback.timers > 0 /\ feedback' = [shown |-> FALSE, timers |-> feedback.timers - 1]
  PROVE  FeedbackFading'
<1>0. feedback.timers \in Nat
  BY DEF FeedbackFading
<1>1. CASE UNCHANGED feedback
  BY <1>1 DEF FeedbackFading
<1>2. CASE feedback' = [shown |-> TRUE, timers |-> feedback.timers + 1]
  BY <1>0, <1>2 DEF FeedbackFading
<1>3. CASE feedback.timers > 0 /\ feedback' = [shown |-> FALSE, timers |-> feedback.timers - 1]
  BY <1>0, <1>3 DEF FeedbackFading
<1> QED
  BY <1>1, <1>2, <1>3

LEMMA SettingsFeedback == FeedbackFading /\ Settings!Next => FeedbackFading'
<1> SUFFICES ASSUME FeedbackFading, Settings!Next PROVE FeedbackFading'
  OBVIOUS
<1>1. ASSUME NEW i \in DOMAIN calls, Settings!SaveAnswered(i)
      PROVE  FeedbackFading'
  BY <1>1, FeedbackStep DEF Settings!SaveAnswered
<1>2. CASE Settings!FeedbackFades
  BY <1>2, FeedbackStep DEF Settings!FeedbackFades
<1>3. CASE UNCHANGED feedback
  BY <1>3, FeedbackStep
<1> QED
  BY <1>1, <1>2, <1>3 DEF Settings!Next, Settings!EditField, Settings!LoadSettings,
     Settings!HandleSave, Settings!Operate, Settings!Serve, Settings!view, Settings!LoadAnswered

LEMMA SettingsTyped == SettingsInv /\ FeedbackFading => Settings!TypeOK
<1> SUFFICES ASSUME SettingsInv, FeedbackFading PROVE Settings!TypeOK
  OBVIOUS
<1>1. ASSUME ~signedOut
      PROVE  /\ Settings!Cardinality(Settings!Out("load")) = IF loading THEN 1 ELSE 0
             /\ Settings!Cardinality(Settings!Out("save")) = IF saving THEN 1 ELSE 0
  <2>1. /\ IsSequence(calls)
        /\ OneWhile(OutOf(calls, {"load"}), loading) /\ OneWhile(OutOf(calls, {"save"}), saving)
    BY <1>1 DEF SettingsInv, SettingsCalls, SettingsOut
  <2>2. /\ Providers!Cardinality({i \in DOMAIN calls : calls[i].kind = "load"}) = IF loading THEN 1 ELSE 0
        /\ Providers!Cardinality({i \in DOMAIN calls : calls[i].kind = "save"}) = IF saving THEN 1 ELSE 0
    BY <2>1, OneOut
  <2> QED
    BY <2>2, Zenon DEF Settings!Out, Settings!Cardinality, Providers!Cardinality
<1> QED
  BY <1>1 DEF SettingsInv, SettingsForm, IsTimeouts, FeedbackFading, Settings!TypeOK

(***************************************************************************)
(* The failover form.  A policy that is stored, shown or on its way has a  *)
(* number of retries and a mode of the form.                               *)
(***************************************************************************)
IsBounded(p) == p.attempts \in 0..5 /\ p.mode \in Failover!Mode

BoundedCall(k) ==
  /\ k.kind = "load" /\ k.at = "ok" => IsBounded(k.val)
  /\ k.kind = "save" => IsBounded(k.val.policy)

PolicyBounded ==
  /\ IsBounded(served) /\ \A i \in DOMAIN calls : BoundedCall(calls[i])
  /\ policy # None => IsBounded(policy)
  /\ form # None => IsBounded(policy) /\ form.mode \in Failover!Mode /\ form.codes \in BOOLEAN

LEMMA BoundedInit == Failover!Init => PolicyBounded
<1> SUFFICES ASSUME Failover!Init PROVE PolicyBounded
  OBVIOUS
<1> DEFINE call == Failover!Call("load", None)
<1>1. DOMAIN calls = 1..1 /\ calls[1] = call
  BY DEF Failover!Init
<1>2. call.kind = "load" /\ call.at = "sent"
  BY DEF Failover!Call
<1> HIDE DEF call
<1>3. IsBounded(served) /\ policy = None /\ form = None
  BY PoliciesAssumption DEF Failover!Init, IsBounded
<1> QED
  BY <1>1, <1>2, <1>3 DEF PolicyBounded, BoundedCall

LEMMA BoundedKept ==
  PolicyBounded /\ UNCHANGED <<served, policy, form, calls>> => PolicyBounded'
BY DEF PolicyBounded, IsBounded, BoundedCall

(* An edit keeps the mode among those of the form, and the switch a switch. *)
LEMMA BoundedEdited ==
  ASSUME FailoverInv, PolicyBounded, form # None, Failover!EditForm
  PROVE  PolicyBounded'
<1>1. /\ DOMAIN form = PolicyField /\ form.mode \in Failover!Mode /\ form.codes \in BOOLEAN
      /\ IsBounded(policy)
  BY DEF FailoverInv, PolicyBounded, PolicyField
<1>2. UNCHANGED <<served, policy, calls>>
  BY EditsOneField
<1>3. ASSUME form'.mode \in Failover!Mode, form'.codes \in BOOLEAN
      PROVE  PolicyBounded'
  BY <1>1, <1>2, <1>3 DEF PolicyBounded, IsBounded, BoundedCall
<1>4. ASSUME NEW x, NEW v, x \notin {"mode", "codes"}, form' = [form EXCEPT ![x] = v]
      PROVE  PolicyBounded'
  <2>1. form'.mode = form.mode /\ form'.codes = form.codes
    BY <1>1, <1>4 DEF PolicyField
  <2> QED
    BY <1>1, <1>3, <2>1
<1>5. CASE Failover!EditSettings
  <2>1. CASE Failover!Edit("enabled", [form EXCEPT !.enabled = ~@])
    BY <1>4, <2>1 DEF Failover!Edit
  <2>2. ASSUME NEW m \in Failover!Mode, Failover!Edit("mode", [form EXCEPT !.mode = m])
        PROVE  PolicyBounded'
    <3>1. form'.mode = m /\ form'.codes = form.codes
      BY <1>1, <2>2 DEF Failover!Edit, PolicyField
    <3> QED
      BY <1>1, <1>3, <2>2, <3>1
  <2>3. ASSUME NEW t, Failover!Edit("attempts", [form EXCEPT !.attempts = t])
        PROVE  PolicyBounded'
    BY <1>4, <2>3 DEF Failover!Edit
  <2> QED
    BY <1>5, <2>1, <2>2, <2>3 DEF Failover!EditSettings
<1>6. CASE Failover!EditTriggers
  <2>1. form' = [form EXCEPT !["codes"] = ~form["codes"]]
    BY <1>6 DEF Failover!EditTriggers, Failover!Edit
  <2>2. form'.mode = form.mode
    BY <1>1, <2>1
  <2>3. "codes" \in DOMAIN form
    BY <1>1 DEF PolicyField
  <2>4. form'["codes"] = (~form["codes"])
    BY <2>1, <2>3, Zenon
  <2>5. form'["codes"] \in BOOLEAN
    BY <2>4, Zenon
  <2> QED
    BY <1>1, <1>3, <2>2, <2>5
<1>7. ASSUME NEW rules, Failover!EditRules(rules)
      PROVE  PolicyBounded'
  BY <1>4, <1>7 DEF Failover!EditRules, Failover!Edit
<1>8. CASE Failover!AddCustomFallbackRule
  BY <1>7, <1>8 DEF Failover!AddCustomFallbackRule
<1>9. ASSUME NEW k, Failover!UpdateCustomFallbackRule(k) \/ Failover!RemoveCustomFallbackRule(k)
      PROVE  \E rules : Failover!EditRules(rules)
  BY <1>9, Zenon DEF Failover!UpdateCustomFallbackRule, Failover!RemoveCustomFallbackRule
<1> QED
  BY <1>5, <1>6, <1>7, <1>8, <1>9 DEF Failover!EditForm

LEMMA BoundedSent ==
  ASSUME FailoverInv, PolicyBounded, NEW kind, NEW val, Failover!Operate(kind, val),
         kind = "save" => IsBounded(val.policy)
  PROVE  PolicyBounded'
<1> DEFINE call == Failover!Call(kind, val)
<1>1. calls' = Append(calls, call) /\ UNCHANGED <<served, policy, form>>
  BY DEF Failover!Operate
<1>2. BoundedCall(call)
  BY DEF Failover!Call, BoundedCall
<1> HIDE DEF call
<1>3. \A i \in DOMAIN calls' : BoundedCall(calls'[i])
  BY <1>1, <1>2, Appended DEF FailoverInv, PolicyBounded
<1> QED
  BY <1>1, <1>3 DEF PolicyBounded, IsBounded

LEMMA BoundedSettled ==
  ASSUME FailoverInv, PolicyBounded, NEW i \in DOMAIN calls, NEW how, NEW val,
         Failover!Settled(i, how, val), IsBounded(served'), UNCHANGED <<policy, form>>,
         calls[i].kind = "load" /\ how = "ok" => IsBounded(val),
         calls[i].kind = "save" => IsBounded(val.policy)
  PROVE  PolicyBounded'
<1> DEFINE e == [[calls[i] EXCEPT !.at = how] EXCEPT !.val = val]
<1>1. calls' = [calls EXCEPT ![i] = e]
  BY DEF Failover!Settled
<1>2. IsSequence(calls) /\ DOMAIN calls[i] = {"kind", "val", "at"}
  BY DEF FailoverInv, IsFailoverCall
<1>3. e.kind = calls[i].kind /\ e.at = how /\ e.val = val
  BY <1>2
<1>4. BoundedCall(e)
  BY <1>3 DEF BoundedCall
<1> HIDE DEF e
<1>5. \A j \in DOMAIN calls' : BoundedCall(calls'[j])
  BY <1>1, <1>2, <1>4, Replaced DEF PolicyBounded
<1> QED
  BY <1>5 DEF PolicyBounded, IsBounded

LEMMA BoundedServed ==
  ASSUME FailoverInv, PolicyBounded, NEW i \in DOMAIN calls, Failover!Serve(i)
  PROVE  PolicyBounded'
<1>1. BoundedCall(calls[i]) /\ IsBounded(served) /\ UNCHANGED <<policy, form>>
  BY DEF PolicyBounded, Failover!Serve
<1>2. CASE Failover!ServeLoad(i)
  <2>1. IsBounded(Failover!DefaultPolicy)
    BY DEF IsBounded, Failover!DefaultPolicy, Failover!Mode
  <2>2. IsBounded(served') /\ calls[i].kind = "load"
    BY <1>1, <1>2 DEF Failover!ServeLoad, IsBounded
  <2> QED
    BY <1>1, <1>2, <2>1, <2>2, BoundedSettled DEF Failover!ServeLoad
<1>3. CASE Failover!ServeSave(i)
  <2>1. calls[i].kind = "save" /\ IsBounded(calls[i].val.policy) /\ IsBounded(served')
    BY <1>1, <1>3 DEF Failover!ServeSave, BoundedCall, IsBounded
  <2> QED
    BY <1>1, <1>3, <2>1, BoundedSettled DEF Failover!ServeSave
<1>4. CASE Failover!Fail(i)
  <2>1. PICK how \in {"error", "unauthorized"} : Failover!Settled(i, how, calls[i].val)
    BY <1>4 DEF Failover!Fail
  <2>2. IsBounded(served') /\ how # "ok" /\ (calls[i].kind = "save" => IsBounded(calls[i].val.policy))
    BY <1>1, <1>4 DEF Failover!Fail, IsBounded, BoundedCall
  <2> QED
    BY <1>1, <2>1, <2>2, BoundedSettled
<1> QED
  BY <1>2, <1>3, <1>4 DEF Failover!Serve

LEMMA BoundedForm ==
  ASSUME NEW p, IsBounded(p)
  PROVE  LET f == Failover!ToFailoverForm(p) IN
         f.mode \in Failover!Mode /\ f.codes \in BOOLEAN
<1>1. Failover!ToFailoverForm(p).mode = p.mode
  BY DEF Failover!ToFailoverForm
<1>2. Failover!ToFailoverForm(p).codes = (429 \in p.codes)
  BY Zenon DEF Failover!ToFailoverForm
<1>3. (429 \in p.codes) \in BOOLEAN
  OBVIOUS
<1>4. Failover!ToFailoverForm(p).codes \in BOOLEAN
  BY <1>2, <1>3, Zenon
<1> QED
  BY <1>1, <1>4 DEF IsBounded

LEMMA BoundedAnswered ==
  ASSUME FailoverInv, PolicyBounded, NEW i \in DOMAIN calls, NEW kind, Failover!Answered(i, kind),
         \/ UNCHANGED <<policy, form>>
         \/ \E p : IsBounded(p) /\ Failover!FilledFrom(p)
  PROVE  PolicyBounded'
<1>1. calls' = Left(calls, i) /\ served' = served
  BY DEF Failover!Answered, Failover!WithoutAt, Left
<1>2. \A j \in DOMAIN calls' : BoundedCall(calls'[j])
  BY <1>1, Removed DEF FailoverInv, PolicyBounded
<1>3. CASE UNCHANGED <<policy, form>>
  BY <1>1, <1>2, <1>3 DEF PolicyBounded, IsBounded
<1>4. CASE \E p : IsBounded(p) /\ Failover!FilledFrom(p)
  <2>1. PICK p : IsBounded(p) /\ Failover!FilledFrom(p)
    BY <1>4
  <2>2. policy' = p /\ form' = Failover!ToFailoverForm(p)
    BY <2>1 DEF Failover!FilledFrom
  <2>3. form'.mode \in Failover!Mode /\ form'.codes \in BOOLEAN
    BY <2>1, <2>2, BoundedForm
  <2> QED
    BY <1>1, <1>2, <2>1, <2>2, <2>3 DEF PolicyBounded, IsBounded
<1> QED
  BY <1>3, <1>4

LEMMA BoundedStep == FailoverInv /\ PolicyBounded /\ Failover!Next => PolicyBounded'
<1> SUFFICES ASSUME FailoverInv, PolicyBounded, Failover!Next PROVE PolicyBounded'
  OBVIOUS
<1>1. CASE Failover!Load
  BY <1>1, BoundedSent DEF Failover!Load
<1>2. CASE Failover!HandleFailoverSave
  <2> DEFINE val == [policy |-> Failover!ToPolicy(form), edited |-> edited]
  <2>1. form # None /\ form.attempts \in 0..5 /\ Failover!Operate("save", val)
    BY <1>2 DEF Failover!HandleFailoverSave, Failover!ParsesBounded
  <2>2. IsBounded(val.policy)
    BY <2>1 DEF PolicyBounded, Failover!ToPolicy, IsBounded
  <2> HIDE DEF val
  <2> QED
    BY <2>1, <2>2, BoundedSent
<1>3. CASE Failover!ResetFailover
  <2>1. /\ policy # None /\ form' = Failover!ToFailoverForm(policy)
        /\ UNCHANGED <<served, policy, calls>>
    BY <1>3 DEF Failover!ResetFailover
  <2>2. IsBounded(policy) /\ form'.mode \in Failover!Mode /\ form'.codes \in BOOLEAN
    BY <2>1, BoundedForm DEF PolicyBounded
  <2> QED
    BY <2>1, <2>2 DEF PolicyBounded, IsBounded, BoundedCall
<1>4. CASE Failover!FeedbackFades
  BY <1>4, BoundedKept DEF Failover!FeedbackFades
<1>5. CASE form # None /\ Failover!EditForm
  BY <1>5, BoundedEdited
<1>6. ASSUME NEW i \in DOMAIN calls, Failover!LoadAnswered(i)
      PROVE  PolicyBounded'
  <2>1. Failover!Answered(i, "load") /\ calls[i].kind = "load" /\ BoundedCall(calls[i])
    BY <1>6 DEF Failover!LoadAnswered, Failover!Answered, PolicyBounded
  <2>2. CASE calls[i].at = "ok"
    BY <1>6, <2>1, <2>2, BoundedAnswered DEF Failover!LoadAnswered, BoundedCall
  <2>3. CASE calls[i].at # "ok"
    BY <1>6, <2>1, <2>3, BoundedAnswered DEF Failover!LoadAnswered
  <2> QED
    BY <2>2, <2>3
<1>7. ASSUME NEW i \in DOMAIN calls, Failover!SaveAnswered(i)
      PROVE  PolicyBounded'
  <2>1. Failover!Answered(i, "save") /\ calls[i].kind = "save" /\ BoundedCall(calls[i])
    BY <1>7 DEF Failover!SaveAnswered, Failover!Answered, PolicyBounded
  <2>2. CASE calls[i].at = "ok"
    BY <1>7, <2>1, <2>2, BoundedAnswered DEF Failover!SaveAnswered, BoundedCall
  <2>3. CASE calls[i].at # "ok"
    BY <1>7, <2>1, <2>3, BoundedAnswered DEF Failover!SaveAnswered
  <2> QED
    BY <2>2, <2>3
<1> QED
  BY <1>1, <1>2, <1>3, <1>4, <1>5, <1>6, <1>7, BoundedServed DEF Failover!Next

LEMMA FailoverFeedback ==
  FeedbackFading /\ Failover!Next => FeedbackFading'
<1> SUFFICES ASSUME FeedbackFading, Failover!Next PROVE FeedbackFading'
  OBVIOUS
<1>1. ASSUME NEW i \in DOMAIN calls, Failover!SaveAnswered(i)
      PROVE  FeedbackFading'
  BY <1>1, FeedbackStep DEF Failover!SaveAnswered
<1>2. CASE Failover!FeedbackFades
  BY <1>2, FeedbackStep DEF Failover!FeedbackFades
<1>3. CASE UNCHANGED feedback
  BY <1>3, FeedbackStep
<1>4. ASSUME NEW field, NEW f, Failover!Edit(field, f)
      PROVE  UNCHANGED feedback
  BY <1>4 DEF Failover!Edit
<1>5. CASE Failover!EditForm
  <2>1. \E field, f : Failover!Edit(field, f)
    BY <1>5, Zenon DEF Failover!EditForm, Failover!EditSettings, Failover!EditTriggers, Failover!EditRules,
       Failover!AddCustomFallbackRule, Failover!UpdateCustomFallbackRule,
       Failover!RemoveCustomFallbackRule
  <2> QED
    BY <1>3, <1>4, <2>1
<1> QED
  BY <1>1, <1>2, <1>3, <1>5 DEF Failover!Next, Failover!Load, Failover!HandleFailoverSave,
     Failover!ResetFailover, Failover!Operate, Failover!Serve, Failover!LoadAnswered

LEMMA FailoverTyped == PolicyInv /\ PolicyBounded /\ FeedbackFading => Failover!TypeOK
<1> SUFFICES ASSUME PolicyInv, PolicyBounded, FeedbackFading PROVE Failover!TypeOK
  OBVIOUS
<1>1. edited \subseteq DOMAIN served /\ flags \subseteq {"loading", "saving"}
  BY DEF PolicyInv, PolicyForm, IsPolicy, PolicyField
<1>2. feedback.shown => feedback.timers > 0
  BY DEF FeedbackFading
<1> QED
  BY <1>1, <1>2 DEF PolicyBounded, IsBounded, Failover!TypeOK

(***************************************************************************)
(* The models page.  A dialog that is open names a model, and the page     *)
(* says which of its calls are out.                                        *)
(***************************************************************************)
ModelsNamed ==
  /\ edit.open => edit.model \in ListedModel
  /\ test.open => test.model \in ListedModel

ModelsOut ==
  /\ loading \in BOOLEAN /\ saving \in BOOLEAN
  /\ ~signedOut => /\ OneWhile(OutOf(calls, {"load"}), loading)
                   /\ OneWhile(OutOf(calls, {"save"}), saving)
                   /\ test.loading => OutOf(calls, {"test"}) # {}

LEMMA ModelsOutInit == Models!Init => ModelsNamed /\ ModelsOut
<1> SUFFICES ASSUME Models!Init PROVE ModelsNamed /\ ModelsOut
  OBVIOUS
<1> DEFINE call == Models!Call("load", None, None)
<1>1. DOMAIN calls = {1} /\ calls[1] = call
  BY DEF Models!Init
<1>2. call.kind = "load"
  BY DEF Models!Call
<1> HIDE DEF call
<1>3. ~test.open /\ ~test.loading /\ ~edit.open
  BY DEF Models!Init
<1>4. ModelsOut
  BY <1>1, <1>2, <1>3 DEF Models!Init, ModelsOut, OneWhile, AtMostOne, OutOf
<1> QED
  BY <1>3, <1>4 DEF ModelsNamed

LEMMA ModelsOutKept ==
  ModelsNamed /\ ModelsOut /\ UNCHANGED <<loading, saving, test, edit, calls, signedOut>>
    => ModelsNamed' /\ ModelsOut'
BY DEF ModelsNamed, ModelsOut

(* A call is sent, and what says so is set. *)
LEMMA ModelsOutSent ==
  ASSUME ModelsInv, ModelsOut, NEW kind, NEW m, NEW val, Models!Operate(kind, m, val),
         \/ kind = "load" /\ ~loading /\ loading' = TRUE /\ UNCHANGED <<saving, test>>
         \/ kind = "save" /\ ~saving /\ saving' = TRUE /\ UNCHANGED <<loading, test>>
         \/ kind = "test" /\ UNCHANGED <<loading, saving>>
  PROVE  ModelsOut'
<1> DEFINE call == Models!Call(kind, m, val)
<1>1. ~signedOut /\ signedOut' = signedOut /\ calls' = Append(calls, call)
  BY DEF Models!Operate
<1>2. call.kind = kind
  BY DEF Models!Call
<1> HIDE DEF call
<1>3. /\ IsSequence(calls) /\ loading \in BOOLEAN /\ saving \in BOOLEAN
      /\ OneWhile(OutOf(calls, {"load"}), loading) /\ OneWhile(OutOf(calls, {"save"}), saving)
      /\ test.loading => OutOf(calls, {"test"}) # {}
  BY <1>1 DEF ModelsInv, ModelsOut
<1>4. /\ OneWhile(OutOf(calls', {"load"}), loading \/ call.kind \in {"load"})
      /\ OneWhile(OutOf(calls', {"save"}), saving \/ call.kind \in {"save"})
  BY <1>1, <1>2, <1>3, OutAppended
<1>5. test'.loading => OutOf(calls', {"test"}) # {}
  <2>1. /\ DOMAIN calls = 1..Len(calls) /\ DOMAIN calls' = 1..Len(calls) + 1 /\ Len(calls) \in Nat
        /\ (\A i \in 1..Len(calls) : calls'[i] = calls[i]) /\ calls'[Len(calls) + 1] = call
    BY <1>1, <1>3, Appended
  <2>2. CASE kind = "test"
    BY <1>2, <2>1, <2>2 DEF OutOf
  <2>3. CASE kind # "test"
    BY <1>3, <2>1, <2>3 DEF OutOf
  <2> QED
    BY <2>2, <2>3
<1> QED
  BY <1>2, <1>3, <1>4, <1>5 DEF ModelsOut

LEMMA ModelsOutServed ==
  ASSUME ModelsInv, ModelsOut, NEW i \in DOMAIN calls, Models!Serve(i)
  PROVE  ModelsOut'
<1>1. UNCHANGED <<loading, saving, test, signedOut>>
  BY DEF Models!Serve, Models!view
<1>2. IsSequence(calls) /\ DOMAIN calls[i] = {"kind", "model", "val", "at"}
  BY DEF ModelsInv, IsModelCall
<1>3. PICK how, val : Models!Settled(i, how, val)
  BY DEF Models!Serve
<1> DEFINE e == [[calls[i] EXCEPT !.at = how] EXCEPT !.val = val]
<1>3a. calls' = [calls EXCEPT ![i] = e]
  BY <1>3 DEF Models!Settled
<1>4. e.kind = calls[i].kind
  BY <1>2
<1> HIDE DEF e
<1>5. /\ OutOf(calls', {"load"}) = OutOf(calls, {"load"})
      /\ OutOf(calls', {"save"}) = OutOf(calls, {"save"})
      /\ OutOf(calls', {"test"}) = OutOf(calls, {"test"})
  <2>1. /\ OutOf([calls EXCEPT ![i] = e], {"load"}) = OutOf(calls, {"load"})
        /\ OutOf([calls EXCEPT ![i] = e], {"save"}) = OutOf(calls, {"save"})
        /\ OutOf([calls EXCEPT ![i] = e], {"test"}) = OutOf(calls, {"test"})
    BY <1>2, <1>4, OutReplaced
  <2> QED
    BY <1>3a, <2>1
<1> QED
  BY <1>1, <1>5 DEF ModelsOut

LEMMA ModelsOutAnswered ==
  ASSUME ModelsInv, ModelsOut, NEW i \in DOMAIN calls, NEW kind, Models!Answered(i, kind),
         \/ kind = "load" /\ loading' = FALSE /\ UNCHANGED <<saving, test>>
         \/ kind = "save" /\ saving' = FALSE /\ UNCHANGED <<loading, test>>
         \/ kind = "test" /\ UNCHANGED <<loading, saving>> /\ ~test'.loading
  PROVE  ModelsOut'
<1>1. calls' = Left(calls, i) /\ calls[i].kind = kind /\ ~signedOut
  BY DEF Models!Answered, Models!WithoutAt, Left
<1>2. /\ IsSequence(calls) /\ loading \in BOOLEAN /\ saving \in BOOLEAN
      /\ OneWhile(OutOf(calls, {"load"}), loading) /\ OneWhile(OutOf(calls, {"save"}), saving)
      /\ test.loading => OutOf(calls, {"test"}) # {}
  BY <1>1 DEF ModelsInv, ModelsOut
<1>3. /\ OneWhile(OutOf(calls', {"load"}), loading /\ calls[i].kind \notin {"load"})
      /\ OneWhile(OutOf(calls', {"save"}), saving /\ calls[i].kind \notin {"save"})
  BY <1>1, <1>2, OutLeft
<1>4. test'.loading => OutOf(calls', {"test"}) # {}
  <2>1. \A k \in DOMAIN calls \ {i} : \E j \in DOMAIN calls' : calls'[j] = calls[k]
    BY <1>1, <1>2, Removed
  <2> QED
    BY <1>1, <1>2, <2>1 DEF OutOf
<1> QED
  BY <1>1, <1>2, <1>3, <1>4 DEF ModelsOut

LEMMA ModelsOutStep ==
  ModelsInv /\ ModelsNamed /\ ModelsOut /\ Models!Next => ModelsNamed' /\ ModelsOut'
<1> SUFFICES ASSUME ModelsInv, ModelsNamed, ModelsOut, Models!Next PROVE ModelsNamed' /\ ModelsOut'
  OBVIOUS
<1>0. /\ DOMAIN edit = {"open", "model", "draft", "error"}
      /\ DOMAIN test = {"open", "model", "result", "loading"}
  BY DEF ModelsInv, ModelsData
<1>1. CASE Models!LoadModels
  BY <1>1, ModelsOutSent DEF Models!LoadModels, ModelsNamed
<1>2. CASE Models!HandleRetest
  <2>1. test.open /\ test' = [test EXCEPT !.result = None, !.loading = TRUE]
    BY <1>2 DEF Models!HandleRetest, Models!CanRetest
  <2>2. test'.model = test.model
    BY <1>0, <2>1
  <2> QED
    BY <1>2, <2>1, <2>2, ModelsOutSent DEF Models!HandleRetest, ModelsNamed
<1>3. CASE Models!CloseTest
  <2>1. /\ test' = [test EXCEPT !.open = FALSE]
        /\ UNCHANGED <<loading, saving, edit, calls, signedOut>>
    BY <1>3 DEF Models!CloseTest, Models!Quietly
  <2>2. ~test'.open /\ test'.loading = test.loading
    BY <1>0, <2>1
  <2> QED
    BY <2>1, <2>2 DEF ModelsNamed, ModelsOut
<1>4. ASSUME UNCHANGED <<loading, saving, test, calls, signedOut>>, edit'.open => edit'.model \in ListedModel
      PROVE  ModelsNamed' /\ ModelsOut'
  BY <1>4 DEF ModelsNamed, ModelsOut
<1>5. CASE Models!CloseEdit
  <2>1. /\ edit' = [edit EXCEPT !.open = FALSE] /\ UNCHANGED <<loading, saving, test, calls, signedOut>>
    BY <1>5 DEF Models!CloseEdit, Models!Quietly
  <2>2. ~edit'.open
    BY <1>0, <2>1
  <2> QED
    BY <1>4, <2>1, <2>2
<1>6. CASE Models!HandleSaveMetadata
  <2>1. CASE Models!Parses(edit.draft)
    BY <1>6, <2>1, ModelsOutSent DEF Models!HandleSaveMetadata, Models!CanSave, ModelsNamed
  <2>2. CASE ~Models!Parses(edit.draft)
    <3>1. /\ edit' = [edit EXCEPT !.error = TRUE] /\ edit.open
          /\ UNCHANGED <<loading, saving, test, calls, signedOut>>
      BY <1>6, <2>2 DEF Models!HandleSaveMetadata, Models!CanSave, Models!Quietly
    <3>2. edit'.model = edit.model
      BY <1>0, <3>1
    <3> QED
      BY <1>4, <3>1, <3>2 DEF ModelsNamed
  <2> QED
    BY <2>1, <2>2
<1>7. ASSUME NEW m \in ListedModel, Models!OpenTestDialog(m)
      PROVE  ModelsNamed' /\ ModelsOut'
  <2>1. test'.model = m /\ edit' = edit
    BY <1>7 DEF Models!OpenTestDialog
  <2> QED
    BY <1>7, <2>1, ModelsOutSent DEF Models!OpenTestDialog, ModelsNamed
<1>8. ASSUME NEW m \in ListedModel, Models!OpenEditDialog(m)
      PROVE  ModelsNamed' /\ ModelsOut'
  <2>1. edit'.model = m
    BY <1>8 DEF Models!OpenEditDialog
  <2> QED
    BY <1>4, <1>8, <2>1 DEF Models!OpenEditDialog, Models!Quietly
<1>9. ASSUME NEW x, NEW text, Models!EditDraft(x, text)
      PROVE  ModelsNamed' /\ ModelsOut'
  <2>1. edit' = [edit EXCEPT !.draft[x] = text] /\ edit.open
    BY <1>9 DEF Models!EditDraft
  <2>2. edit'.model = edit.model
    BY <1>0, <2>1
  <2> QED
    BY <1>4, <1>9, <2>1, <2>2 DEF Models!EditDraft, Models!Quietly, ModelsNamed
<1>10. ASSUME NEW i \in DOMAIN calls, Models!Serve(i)
       PROVE  ModelsNamed' /\ ModelsOut'
  BY <1>10, ModelsOutServed DEF Models!Serve, Models!view, ModelsNamed
<1>11. ASSUME NEW i \in DOMAIN calls, Models!LoadAnswered(i)
       PROVE  ModelsNamed' /\ ModelsOut'
  BY <1>11, ModelsOutAnswered DEF Models!LoadAnswered, ModelsNamed
<1>12. ASSUME NEW i \in DOMAIN calls, Models!TestAnswered(i)
       PROVE  ModelsNamed' /\ ModelsOut'
  <2>1. test' = [test EXCEPT !.result = calls[i].model, !.loading = FALSE] /\ edit' = edit
    BY <1>12 DEF Models!TestAnswered
  <2>2. test'.open = test.open /\ test'.model = test.model /\ ~test'.loading
    BY <1>0, <2>1
  <2> QED
    BY <1>12, <2>1, <2>2, ModelsOutAnswered DEF Models!TestAnswered, ModelsNamed
<1>13. ASSUME NEW i \in DOMAIN calls, Models!SaveAnswered(i)
       PROVE  ModelsNamed' /\ ModelsOut'
  <2>1. /\ edit' = edit \/ edit' = [edit EXCEPT !.error = TRUE]
        /\ test' = test
    BY <1>13 DEF Models!SaveAnswered
  <2>2. edit'.open = edit.open /\ edit'.model = edit.model
    BY <1>0, <2>1
  <2> QED
    BY <1>13, <2>1, <2>2, ModelsOutAnswered DEF Models!SaveAnswered, ModelsNamed
<1> QED
  BY <1>1, <1>2, <1>3, <1>5, <1>6, <1>7, <1>8, <1>9, <1>10, <1>11, <1>12, <1>13 DEF Models!Next

LEMMA ModelsTyped == ModelsInv /\ ModelsNamed /\ ModelsOut => Models!TypeOK
<1> SUFFICES ASSUME ModelsInv, ModelsNamed, ModelsOut PROVE Models!TypeOK
  OBVIOUS
<1>1. ASSUME ~signedOut
      PROVE  /\ Models!Cardinality(Models!Out("load")) = IF loading THEN 1 ELSE 0
             /\ Models!Cardinality(Models!Out("save")) = IF saving THEN 1 ELSE 0
             /\ test.loading => Models!Out("test") # {}
  <2>1. /\ IsSequence(calls)
        /\ OneWhile(OutOf(calls, {"load"}), loading) /\ OneWhile(OutOf(calls, {"save"}), saving)
        /\ test.loading => OutOf(calls, {"test"}) # {}
    BY <1>1 DEF ModelsInv, ModelsOut
  <2>2. /\ Providers!Cardinality({i \in DOMAIN calls : calls[i].kind = "load"}) = IF loading THEN 1 ELSE 0
        /\ Providers!Cardinality({i \in DOMAIN calls : calls[i].kind = "save"}) = IF saving THEN 1 ELSE 0
    BY <2>1, OneOut
  <2>3. OutOf(calls, {"test"}) = Models!Out("test")
    BY DEF OutOf, Models!Out
  <2>4. /\ Models!Cardinality(Models!Out("load")) = IF loading THEN 1 ELSE 0
        /\ Models!Cardinality(Models!Out("save")) = IF saving THEN 1 ELSE 0
    BY <2>2, Zenon DEF Models!Out, Models!Cardinality, Providers!Cardinality
  <2> QED
    BY <2>1, <2>3, <2>4
<1>2. models \in ServedModels \cup {None}
  BY DEF ModelsInv, ModelsData
<1>3. (edit.open => edit.model \in ListedModel) /\ (test.open => test.model \in ListedModel)
  BY DEF ModelsNamed
<1> QED
  BY <1>1, <1>2, <1>3, Zenon DEF Models!TypeOK

(***************************************************************************)
(* The keys page: what it counts, and the keys its buttons wait for.       *)
(***************************************************************************)
KeysNamed ==
  /\ lastId \in 0..Cardinality(KeyId) /\ error \in BOOLEAN /\ visible \in BOOLEAN
  /\ \A op \in DOMAIN saving : saving[op] \in KeyId \cup {None}

LEMMA KeysIds ==
  IsFiniteSet(KeyId) /\ KeyId = 1..Cardinality(KeyId) /\ Cardinality(KeyId) \in Nat /\ KeyId \subseteq Int
<1>1. IsFiniteSet(KeyId) /\ KeyId = 1..Cardinality(KeyId)
  BY KeysAssumption
<1>2. Cardinality(KeyId) \in Nat
  BY <1>1, FS_CardinalityType
<1>3. KeyId \subseteq Int
  BY <1>1, <1>2
<1> QED
  BY <1>1, <1>2, <1>3

LEMMA KeysNamedInit == Keys!Init => KeysNamed
<1> SUFFICES ASSUME Keys!Init PROVE KeysNamed
  OBVIOUS
<1>1. lastId = Cardinality({i \in KeyId : table[i] # None})
  BY DEF Keys!Init, Keys!Cardinality, Cardinality
<1>2. /\ IsFiniteSet({i \in KeyId : table[i] # None})
      /\ Cardinality({i \in KeyId : table[i] # None}) <= Cardinality(KeyId)
  BY KeysIds, FS_Subset
<1>3. lastId \in Nat
  BY <1>1, <1>2, FS_CardinalityType
<1>4. lastId \in 0..Cardinality(KeyId)
  BY <1>1, <1>2, <1>3, KeysIds
<1> QED
  BY <1>4 DEF Keys!Init, KeysNamed

LEMMA KeysNamedKept ==
  KeysNamed /\ UNCHANGED <<lastId, error, visible, saving>> => KeysNamed'
BY DEF KeysNamed

(* Ids are given in order, as long as there are any. *)
LEMMA KeysNumbered ==
  ASSUME KeysNamed, NEW i \in DOMAIN calls, Keys!Serve(i)
  PROVE  lastId' \in 0..Cardinality(KeyId)
<1>1. lastId \in 0..Cardinality(KeyId)
  BY DEF KeysNamed
<1>2. CASE Keys!ServeWrite(i)
  <2>1. CASE calls[i].kind = "create"
    <3>1. lastId' = lastId + 1 /\ lastId + 1 \in KeyId
      BY <1>2, <2>1 DEF Keys!ServeWrite
    <3> QED
      BY <1>1, <3>1, KeysIds
  <2>2. CASE calls[i].kind # "create"
    <3>1. UNCHANGED lastId
      BY <1>2, <2>2 DEF Keys!ServeWrite, Keys!Stored, Keys!Writes, Keys!Edited
    <3> QED
      BY <1>1, <3>1
  <2> QED
    BY <2>1, <2>2
<1>3. CASE ~Keys!ServeWrite(i)
  BY <1>1, <1>3 DEF Keys!Serve, Keys!ServeRead, Keys!Fail, Keys!server
<1> QED
  BY <1>2, <1>3

LEMMA KeysNamedStep == KeyTypes /\ KeysNamed /\ Keys!Next => KeysNamed'
<1> SUFFICES ASSUME KeyTypes, KeysNamed, Keys!Next PROVE KeysNamed'
  OBVIOUS
<1>1. ASSUME NEW op, NEW id \in KeyId \cup {None}, saving' = [saving EXCEPT ![op] = id],
             UNCHANGED <<lastId, visible>>, error' \in BOOLEAN
      PROVE  KeysNamed'
  BY <1>1 DEF KeysNamed
<1>2. ASSUME UNCHANGED <<lastId, saving>>, error' \in BOOLEAN, visible' \in BOOLEAN
      PROVE  KeysNamed'
  BY <1>2 DEF KeysNamed
<1>3. error \in BOOLEAN /\ visible \in BOOLEAN
  BY DEF KeysNamed
<1>4. ASSUME NEW kind, NEW id, NEW val, Keys!Operate(kind, id, val)
      PROVE  UNCHANGED lastId
  BY <1>4 DEF Keys!Operate, Keys!server
<1>5. ASSUME Keys!Quietly
      PROVE  UNCHANGED lastId
  BY <1>5 DEF Keys!Quietly, Keys!server
<1>6. CASE Keys!LoadKeys
  BY <1>2, <1>3, <1>4, <1>6 DEF Keys!LoadKeys, Keys!page
<1>7. CASE Keys!OpenCreate \/ Keys!Close \/ Keys!CloseVisible
  <2>1. Keys!Quietly /\ UNCHANGED <<saving, error>> /\ visible' \in BOOLEAN
    BY <1>3, <1>7 DEF Keys!OpenCreate, Keys!Close, Keys!CloseVisible
  <2> QED
    BY <1>2, <1>3, <1>5, <2>1
<1>8. CASE Keys!Refused
  BY <1>2, <1>3, <1>5, <1>8 DEF Keys!Refused
<1>9. CASE Keys!HandleCreate
  <2>1. CASE ~Keys!Refused
    BY <1>2, <1>3, <1>4, <1>9, <2>1 DEF Keys!HandleCreate
  <2> QED
    BY <1>8, <2>1
<1>10. ASSUME NEW id \in KeyId, Keys!OpenModelsDialog(id)
       PROVE  KeysNamed'
  BY <1>2, <1>3, <1>4, <1>10 DEF Keys!OpenModelsDialog
<1>11. ASSUME NEW id \in KeyId, Keys!HandleDelete(id)
       PROVE  KeysNamed'
  <2>1. /\ saving' = [saving EXCEPT !["delete"] = id] /\ UNCHANGED <<error, visible>>
        /\ Keys!Operate("delete", id, None)
    BY <1>11 DEF Keys!HandleDelete
  <2> QED
    BY <1>1, <1>3, <1>4, <2>1
<1>12. ASSUME NEW id, NEW op, Keys!OpenDialog(op, id)
       PROVE  KeysNamed'
  BY <1>2, <1>3, <1>5, <1>12 DEF Keys!OpenDialog
<1>13. CASE Keys!Edit /\ UNCHANGED saving
  BY <1>2, <1>3, <1>5, <1>13 DEF Keys!Edit
<1>14. ASSUME NEW op, NEW text, Keys!EditDraft(op, text)
       PROVE  KeysNamed'
  BY <1>13, <1>14 DEF Keys!EditDraft, Keys!Edit
<1>15. ASSUME NEW name, NEW q, Keys!EditNewKey(name, q)
       PROVE  KeysNamed'
  BY <1>13, <1>15 DEF Keys!EditNewKey, Keys!Edit
<1>16. ASSUME NEW m, Keys!AddModelRestriction(m) \/ Keys!RemoveModel(m)
       PROVE  KeysNamed'
  BY <1>14, <1>16 DEF Keys!AddModelRestriction, Keys!RemoveModel, Keys!EditModels
<1>17. ASSUME NEW op \in Keys!Edited, Keys!HandleSave(op)
       PROVE  KeysNamed'
  <2>1. CASE ~Keys!Refused
    <3>1. /\ dialog # None /\ dialog.op = op /\ saving' = [saving EXCEPT ![op] = dialog.id]
          /\ Keys!Operate(op, dialog.id, Keys!Payload(op, dialog.draft)) /\ UNCHANGED <<error, visible>>
      BY <1>17, <2>1 DEF Keys!HandleSave
    <3>2. dialog.id \in KeyId
      BY <3>1 DEF KeyTypes, IsKeyDialog
    <3> QED
      BY <1>1, <1>3, <1>4, <3>1, <3>2
  <2> QED
    BY <1>8, <2>1
<1>18. ASSUME NEW i \in DOMAIN calls, Keys!Serve(i)
       PROVE  KeysNamed'
  BY <1>18, KeysNumbered DEF Keys!Serve, Keys!page, KeysNamed
<1>19. ASSUME NEW i \in DOMAIN calls, NEW kinds, Keys!Answered(i, kinds)
       PROVE  UNCHANGED lastId
  BY <1>19 DEF Keys!Answered, Keys!server
<1>20. ASSUME NEW i, Keys!Failed(i) \/ error' = FALSE
       PROVE  error' \in BOOLEAN
  BY <1>3, <1>20 DEF Keys!Failed
<1>21. ASSUME NEW i \in DOMAIN calls, Keys!LoadAnswered(i) \/ Keys!CatalogAnswered(i)
       PROVE  KeysNamed'
  BY <1>2, <1>3, <1>19, <1>20, <1>21 DEF Keys!LoadAnswered, Keys!CatalogAnswered
<1>22. ASSUME NEW i \in DOMAIN calls, Keys!CreateAnswered(i)
       PROVE  KeysNamed'
  <2>1. Keys!Answered(i, {"create"}) /\ UNCHANGED saving /\ visible' \in {TRUE, visible}
        /\ (Keys!Failed(i) \/ error' = FALSE)
    BY <1>22 DEF Keys!CreateAnswered
  <2> QED
    BY <1>2, <1>3, <1>19, <1>20, <2>1
<1>23. ASSUME NEW i \in DOMAIN calls, NEW op, Keys!SaveAnswered(i, op)
       PROVE  KeysNamed'
  <2>1. /\ Keys!Answered(i, {op}) /\ saving' = [saving EXCEPT ![op] = None] /\ UNCHANGED visible
        /\ (Keys!Failed(i) \/ error' = FALSE)
    BY <1>23 DEF Keys!SaveAnswered, Keys!SaveEnds
  <2> QED
    BY <1>1, <1>19, <1>20, <2>1
<1>24. ASSUME NEW i \in DOMAIN calls, Keys!DeleteAnswered(i)
       PROVE  KeysNamed'
  <2>1. /\ Keys!Answered(i, {"delete"}) /\ saving' = [saving EXCEPT !["delete"] = None]
        /\ UNCHANGED visible /\ (Keys!Failed(i) \/ error' = FALSE)
    BY <1>24 DEF Keys!DeleteAnswered, Keys!SaveEnds
  <2> QED
    BY <1>1, <1>19, <1>20, <2>1
<1> QED
  BY <1>6, <1>7, <1>9, <1>10, <1>11, <1>12, <1>14, <1>15, <1>16, <1>17, <1>18, <1>21, <1>22, <1>23, <1>24
  DEF Keys!Next, Keys!EditRename, Keys!EditQuota, Keys!HandleRename, Keys!HandleSaveModels,
      Keys!HandleSaveQuota, Keys!RenameAnswered, Keys!ModelsAnswered, Keys!QuotaAnswered, Keys!Edited

LEMMA KeysTyped == KeysListed /\ KeysNamed => Keys!TypeOK
<1> SUFFICES ASSUME KeysListed, KeysNamed PROVE Keys!TypeOK
  OBVIOUS
<1>1. Keys!Cardinality(Keys!Out("create")) = IF creating THEN 1 ELSE 0
  <2>1. IsSequence(calls) /\ OneWhile(OutOf(calls, {"create"}), creating)
    BY DEF KeysListed, KeyTypes, KeysOut
  <2>2. Providers!Cardinality({i \in DOMAIN calls : calls[i].kind = "create"}) = IF creating THEN 1 ELSE 0
    BY <2>1, OneOut
  <2> QED
    BY <2>2, Zenon DEF Keys!Out, Keys!Cardinality, Providers!Cardinality
<1>2. ASSUME keys # None, ~excused, NEW j \in DOMAIN keys, NEW k \in DOMAIN keys, keys[j].id = keys[k].id
      PROVE  j = k
  <2>1. \A x, y \in DOMAIN keys : x < y => keys[x].id > keys[y].id
    BY <1>2 DEF KeysListed, KeysFresh, ShownKeys
  <2>2. keys \in Seq(ListedKeys) /\ DOMAIN keys = 1..Len(keys) /\ Len(keys) \in Nat
    BY <1>2, SequenceOf DEF KeysListed, KeyTypes
  <2>3. keys[j].id \in Int /\ keys[k].id \in Int
    <3>1. keys[j] \in ListedKeys /\ keys[k] \in ListedKeys
      BY <1>2, <2>2, ElementOfSeq
    <3> QED
      BY <3>1, KeysIds DEF ListedKeys
  <2> QED
    BY <1>2, <2>1, <2>2, <2>3
<1>3. /\ lastId \in 0..Keys!Cardinality(KeyId) /\ error \in BOOLEAN /\ visible \in BOOLEAN
      /\ \A op \in DOMAIN saving : saving[op] \in KeyId \cup {None}
  BY Zenon DEF KeysNamed, Keys!Cardinality, Cardinality
<1> QED
  BY <1>1, <1>2, <1>3, Zenon DEF Keys!TypeOK

(***************************************************************************)
(* The routes page: the aliases its buttons wait for.                      *)
(***************************************************************************)
RoutesNamed == togglingId \in AliasId \cup {None} /\ deletingId \in AliasId \cup {None}

LEMMA RoutesNamedInit == Routes!Init => RoutesNamed
BY DEF Routes!Init, RoutesNamed

LEMMA RoutesNamedKept == RoutesNamed /\ UNCHANGED <<togglingId, deletingId>> => RoutesNamed'
BY DEF RoutesNamed

LEMMA RoutesNamedStep == RoutesNamed /\ Routes!Next => RoutesNamed'
<1> SUFFICES ASSUME RoutesNamed, Routes!Next PROVE RoutesNamed'
  OBVIOUS
<1>1. CASE UNCHANGED <<togglingId, deletingId>>
  BY <1>1, RoutesNamedKept
<1>2. CASE Routes!Load \/ Routes!OpenCreate \/ Routes!CloseDialog \/ Routes!HandleSubmit
  BY <1>1, <1>2 DEF Routes!Load, Routes!OpenCreate, Routes!CloseDialog, Routes!HandleSubmit, Routes!rows
<1>3. ASSUME NEW id \in AliasId, Routes!OpenEdit(id) \/ Routes!HandleTest(id)
      PROVE  RoutesNamed'
  BY <1>1, <1>3 DEF Routes!OpenEdit, Routes!HandleTest, Routes!rows
<1>4. ASSUME NEW id \in AliasId, Routes!HandleToggle(id) \/ Routes!HandleDelete(id)
      PROVE  RoutesNamed'
  BY <1>4 DEF Routes!HandleToggle, Routes!HandleDelete, RoutesNamed
<1>5. ASSUME NEW targets, Routes!EditTarget(targets)
      PROVE  RoutesNamed'
  BY <1>1, <1>5 DEF Routes!EditTarget, Routes!Edit, Routes!rows
<1>6. CASE Routes!AliasForm
  BY <1>5, <1>6 DEF Routes!AliasForm, Routes!AddTarget, Routes!RemoveTarget, Routes!ChooseProvider,
     Routes!ChooseModel
<1>7. ASSUME NEW i \in DOMAIN calls, Routes!Serve(i)
      PROVE  RoutesNamed'
  BY <1>1, <1>7 DEF Routes!Serve, Routes!rows
<1>8. ASSUME NEW i \in DOMAIN calls,
             Routes!LoadAnswered(i) \/ Routes!SubmitAnswered(i) \/ Routes!TestAnswered(i)
      PROVE  RoutesNamed'
  BY <1>1, <1>8 DEF Routes!LoadAnswered, Routes!SubmitAnswered, Routes!TestAnswered
<1>9. ASSUME NEW i \in DOMAIN calls, Routes!ToggleAnswered(i) \/ Routes!DeleteAnswered(i)
      PROVE  RoutesNamed'
  BY <1>9 DEF Routes!ToggleAnswered, Routes!ToggleEnds, Routes!DeleteAnswered, RoutesNamed
<1> QED
  BY <1>2, <1>3, <1>4, <1>6, <1>7, <1>8, <1>9 DEF Routes!Next, Routes!User, Routes!Answer

LEMMA RoutesTyped == AliasesInv /\ RoutesNamed => Routes!TypeOK /\ Routes!OneAtATime
<1> SUFFICES ASSUME AliasesInv, RoutesNamed PROVE Routes!TypeOK /\ Routes!OneAtATime
  OBVIOUS
<1>1. TargetsInv /\ AliasesOut /\ AliasesFresh
  BY DEF AliasesInv
<1>2. aliases # None => \A k \in DOMAIN aliases : aliases[k] \in ListedAliases
  BY <1>1 DEF TargetsInv, AreRows, IsListed
<1>3. Routes!Range(dialog.targets) \subseteq Routes!Draft
  BY <1>1 DEF TargetsInv, AreTargets, IsTarget, Routes!Range
<1>4. aliases # None /\ ~excused => \A j, k \in DOMAIN aliases : aliases[j].id = aliases[k].id => j = k
  BY <1>1 DEF AliasesFresh, ShownRows
<1>5. Routes!TypeOK
  BY <1>1, <1>2, <1>3, <1>4, Zenon DEF AliasesOut, RoutesNamed, ListedAliases, Routes!TypeOK
<1>6. Routes!OneAtATime
  <2>1. /\ OutOf(calls, {"load"}) = Routes!Out({"load"}, None)
        /\ OutOf(calls, {"create", "update"}) = Routes!Out({"create", "update"}, None)
    BY DEF OutOf, Routes!Out
  <2>2. \A kinds : OutOf(calls, kinds) \subseteq DOMAIN calls
    BY DEF OutOf
  <2>3. /\ Providers!Cardinality(OutOf(calls, {"load"})) = IF "loading" \in flags THEN 1 ELSE 0
        /\ Providers!Cardinality(OutOf(calls, {"create", "update"})) = IF "submitting" \in flags THEN 1 ELSE 0
    BY <1>1, <2>2, OneCounted DEF TargetsInv, AliasesOut
  <2> QED
    BY <2>1, <2>3, Zenon DEF Routes!OneAtATime, Routes!Cardinality, Providers!Cardinality
<1> QED
  BY <1>5, <1>6

(***************************************************************************)
(* The lists of the route map: what is picked from a list, in its order,   *)
(* what is said once, what is put together and where a list begins.        *)
(***************************************************************************)
LEMMA SameLists ==
  /\ \A s, I : Map!Picked(s, I) = Failover!Picked(s, I)
  /\ \A s : Map!Range(s) = {s[i] : i \in DOMAIN s}
BY DEF Map!Picked, Map!Ascending, Map!Ordered, Map!Cardinality, Map!Range,
       Failover!Picked, Failover!Ascending, Failover!Ordered, Failover!Cardinality

(* The places in s of what is in the list t. *)
ArePlaces(s, I, t, place) ==
  /\ \A k \in DOMAIN t : place[k] \in I /\ t[k] = s[place[k]]
  /\ \A i \in I : \E k \in DOMAIN t : place[k] = i
  /\ \A j, k \in DOMAIN t : j < k => place[j] < place[k]

LEMMA PickedPlaces ==
  ASSUME NEW s, IsSequence(s), NEW I \in SUBSET DOMAIN s
  PROVE  LET t == Map!Picked(s, I) IN
         /\ IsSequence(t) /\ (t = <<>> <=> I = {})
         /\ ArePlaces(s, I, t, Failover!Ascending(I))
<1> DEFINE t == Failover!Picked(s, I)
           place == Failover!Ascending(I)
<1>1. Map!Picked(s, I) = t
  BY SameLists
<1>2. /\ IsSequence(t) /\ DOMAIN t = 1..Cardinality(I) /\ Len(t) = Cardinality(I)
      /\ I # {} => t # <<>>
      /\ \A k \in DOMAIN t : place[k] \in I /\ t[k] = s[place[k]]
  BY PickedElements
<1>3. DOMAIN s = 1..Len(s) /\ Len(s) \in Nat
  BY SequenceOf DEF IsSequence
<1>4. I \subseteq Int /\ IsFiniteSet(I)
  <2>1. IsFiniteSet(1..Len(s))
    BY <1>3, FS_Interval
  <2> QED
    BY <1>3, <2>1, FS_Subset
<1>5. /\ \A i \in I : \E k \in 1..Cardinality(I) : place[k] = i
      /\ \A j, k \in 1..Cardinality(I) : j < k => place[j] < place[k]
  BY <1>4, AscendingPlaces
<1> HIDE DEF t, place
<1>6. I = {} => t = <<>>
  <2>1. I = {} => Len(t) = 0
    BY <1>2, FS_EmptySet
  <2> QED
    BY <1>2, <2>1, EmptySeq DEF IsSequence
<1>7. ArePlaces(s, I, t, place)
  BY <1>2, <1>5 DEF ArePlaces
<1> QED
  BY <1>1, <1>2, <1>6, <1>7 DEF place

LEMMA PickedRange ==
  ASSUME NEW s, IsSequence(s), NEW I \in SUBSET DOMAIN s
  PROVE  Map!Range(Map!Picked(s, I)) = {s[i] : i \in I}
<1> DEFINE t == Map!Picked(s, I)
           place == Failover!Ascending(I)
<1>1. ArePlaces(s, I, t, place)
  BY PickedPlaces
<1> HIDE DEF t, place
<1>2. Map!Range(t) = {t[k] : k \in DOMAIN t}
  BY SameLists
<1>3. \A k \in DOMAIN t : t[k] \in {s[i] : i \in I}
  BY <1>1 DEF ArePlaces
<1>4. \A i \in I : s[i] \in {t[k] : k \in DOMAIN t}
  BY <1>1 DEF ArePlaces
<1> QED
  BY <1>2, <1>3, <1>4 DEF t

(* No other list has its elements from the places I, in their order. *)
LEMMA PickedOnce ==
  ASSUME NEW s, IsSequence(s), NEW I \in SUBSET DOMAIN s,
         NEW t, IsSequence(t), NEW place, ArePlaces(s, I, t, place)
  PROVE  t = Map!Picked(s, I)
<1> DEFINE B == Smaller(I)
<1>1. DOMAIN s = 1..Len(s) /\ Len(s) \in Nat /\ DOMAIN t = 1..Len(t) /\ Len(t) \in Nat
  BY SequenceOf DEF IsSequence
<1>2. I \subseteq Int /\ IsFiniteSet(I)
  <2>1. IsFiniteSet(1..Len(s))
    BY <1>1, FS_Interval
  <2> QED
    BY <1>1, <2>1, FS_Subset
<1>3. IsOrder(I, B) /\ Failover!Ascending(I) = Places(I, B)
  BY <1>2, NumbersOrdered
<1>4. IsOrdered(I, B, Len(t), place)
  <2>1. \A d, e \in I : d < e => d \in B[e]
    BY DEF Smaller
  <2> HIDE DEF B
  <2> QED
    BY <1>1, <2>1 DEF IsOrdered, ArePlaces
<1> HIDE DEF B
<1>5. Len(t) = Cardinality(I) /\ \A k \in 1..Len(t) : place[k] = Places(I, B)[k]
  BY <1>1, <1>2, <1>3, <1>4, OrderedOnce
<1>6. DOMAIN Places(I, B) = 1..Len(t)
  BY <1>2, <1>3, <1>5, OrderedPlaces
<1>7. Map!Picked(s, I) = [k \in 1..Len(t) |-> s[Places(I, B)[k]]]
  <2>1. Map!Picked(s, I) = [k \in DOMAIN Failover!Ascending(I) |-> s[Failover!Ascending(I)[k]]]
    BY SameLists DEF Failover!Picked
  <2> QED
    BY <1>3, <1>6, <2>1
<1>8. t = [k \in 1..Len(t) |-> t[k]]
  <2>1. t \in [1..Len(t) -> {t[k] : k \in DOMAIN t}]
    BY LenProperties DEF IsSequence
  <2> QED
    BY <2>1
<1>9. \A k \in 1..Len(t) : t[k] = s[Places(I, B)[k]]
  BY <1>1, <1>5 DEF ArePlaces
<1> QED
  BY <1>7, <1>8, <1>9

(* Picking from what was picked. *)
LEMMA PickedTwice ==
  ASSUME NEW s, IsSequence(s), NEW I \in SUBSET DOMAIN s, NEW Q
  PROVE  LET t == Map!Picked(s, I) IN
         Map!Picked(t, {k \in DOMAIN t : t[k] \in Q}) = Map!Picked(s, {i \in I : s[i] \in Q})
<1> DEFINE t == Map!Picked(s, I)
           J == {k \in DOMAIN t : t[k] \in Q}
           K == {i \in I : s[i] \in Q}
           u == Map!Picked(t, J)
           at == Failover!Ascending(I)
           of == Failover!Ascending(J)
           place == [k \in DOMAIN u |-> at[of[k]]]
<1>1. IsSequence(t) /\ ArePlaces(s, I, t, at)
  BY PickedPlaces
<1>2. J \in SUBSET DOMAIN t /\ K \in SUBSET DOMAIN s
  OBVIOUS
<1>3. \A k : k \in J <=> k \in DOMAIN t /\ t[k] \in Q
  OBVIOUS
<1>4. \A i : i \in K <=> i \in I /\ s[i] \in Q
  OBVIOUS
<1> HIDE DEF t, at, J, K
<1>5. IsSequence(u) /\ ArePlaces(t, J, u, of)
  BY <1>1, <1>2, PickedPlaces
<1> HIDE DEF u, of
<1>6. \A k \in DOMAIN u : place[k] = at[of[k]] /\ of[k] \in DOMAIN t /\ of[k] \in J /\ u[k] = t[of[k]]
  BY <1>3, <1>5 DEF ArePlaces
<1> HIDE DEF place
<1>7. \A k \in DOMAIN u : place[k] \in K /\ u[k] = s[place[k]]
  BY <1>1, <1>3, <1>4, <1>6 DEF ArePlaces
<1>8. ASSUME NEW i \in K
      PROVE  \E k \in DOMAIN u : place[k] = i
  <2>1. PICK l \in DOMAIN t : at[l] = i /\ t[l] = s[i]
    BY <1>1, <1>4 DEF ArePlaces
  <2>2. l \in J
    BY <1>3, <1>4, <2>1
  <2>3. PICK k \in DOMAIN u : of[k] = l
    BY <1>5, <2>2 DEF ArePlaces
  <2> QED
    BY <1>6, <2>1, <2>3
<1>9. \A j, k \in DOMAIN u : j < k => place[j] < place[k]
  BY <1>1, <1>5, <1>6 DEF ArePlaces
<1>10. ArePlaces(s, K, u, place)
  BY <1>7, <1>8, <1>9 DEF ArePlaces
<1> QED
  BY <1>2, <1>5, <1>10, PickedOnce DEF t, J, K, u

(* Two lists with the same places, picked alike. *)
LEMMA PickedAlike ==
  ASSUME NEW s, IsSequence(s), NEW u, IsSequence(u), DOMAIN u = DOMAIN s, NEW I \in SUBSET DOMAIN s
  PROVE  LET p == Map!Picked(s, I)
             q == Map!Picked(u, I) IN
         /\ DOMAIN p = DOMAIN q
         /\ \A k \in DOMAIN p : \E i \in I : p[k] = s[i] /\ q[k] = u[i]
<1> DEFINE p == Failover!Picked(s, I)
           q == Failover!Picked(u, I)
           place == Failover!Ascending(I)
<1>1. DOMAIN p = 1..Cardinality(I) /\ \A k \in DOMAIN p : place[k] \in I /\ p[k] = s[place[k]]
  BY PickedElements
<1>2. DOMAIN q = 1..Cardinality(I) /\ \A k \in DOMAIN q : place[k] \in I /\ q[k] = u[place[k]]
  BY PickedElements
<1> HIDE DEF p, q, place
<1>3. DOMAIN p = DOMAIN q /\ \A k \in DOMAIN p : \E i \in I : p[k] = s[i] /\ q[k] = u[i]
  BY <1>1, <1>2
<1> QED
  BY <1>3, SameLists DEF p, q

(* The least of some numbers. *)
LEMMA SmallestNumber ==
  ASSUME NEW S, S \subseteq Int, IsFiniteSet(S), S # {}
  PROVE  \E j \in S : \A k \in S : j <= k
<1> DEFINE place == Failover!Ascending(S)
<1>1. /\ Cardinality(S) \in Nat
      /\ \A k \in 1..Cardinality(S) : place[k] \in S
      /\ \A e \in S : \E k \in 1..Cardinality(S) : place[k] = e
      /\ \A j, k \in 1..Cardinality(S) : j < k => place[j] < place[k]
  BY AscendingPlaces
<1> HIDE DEF place
<1>2. Cardinality(S) # 0
  BY FS_EmptySet
<1>3. 1 \in 1..Cardinality(S) /\ \A k \in 1..Cardinality(S) : 1 = k \/ 1 < k
  BY <1>1, <1>2
<1>4. ASSUME NEW k \in 1..Cardinality(S)
      PROVE  place[1] <= place[k]
  <2>1. place[1] \in Int /\ place[k] \in Int /\ (place[1] = place[k] \/ place[1] < place[k])
    BY <1>1, <1>3
  <2> QED
    BY <2>1
<1>5. \A e \in S : place[1] <= e
  BY <1>1, <1>4
<1>6. place[1] \in S
  BY <1>1, <1>3
<1> QED
  BY <1>5, <1>6

(* The places of s where an element is said for the first time. *)
Firsts(s) == {i \in DOMAIN s : \A j \in 1..(i - 1) : s[j] # s[i]}

IsOnce(s) == \A j, k \in DOMAIN s : s[j] = s[k] => j = k

LEMMA DistinctIsPicked ==
  \A s : Map!Distinct(s) = Map!Picked(s, Firsts(s)) /\ Firsts(s) \in SUBSET DOMAIN s
BY DEF Map!Distinct, Firsts

(* Without a repetition a list has the same elements, and the same first. *)
LEMMA DistinctElements ==
  ASSUME NEW s, IsSequence(s)
  PROVE  /\ IsSequence(Map!Distinct(s)) /\ IsOnce(Map!Distinct(s))
         /\ Map!Range(Map!Distinct(s)) = Map!Range(s)
         /\ Map!Distinct(s) = <<>> <=> s = <<>>
<1> DEFINE t == Map!Distinct(s)
           I == Firsts(s)
           place == Failover!Ascending(I)
<1>1. t = Map!Picked(s, I) /\ I \in SUBSET DOMAIN s
  BY DistinctIsPicked
<1>2. DOMAIN s = 1..Len(s) /\ Len(s) \in Nat
  BY SequenceOf DEF IsSequence
<1>3. \A i, j \in I : s[i] = s[j] => i = j
  BY <1>2 DEF Firsts
<1>4. ASSUME NEW i \in DOMAIN s
      PROVE  \E j \in I : s[j] = s[i]
  <2> DEFINE S == {j \in 1..i : s[j] = s[i]}
  <2>1. S \subseteq Int /\ S # {} /\ IsFiniteSet(S)
    <3>1. IsFiniteSet(1..i)
      BY <1>2, FS_Interval
    <3>2. IsFiniteSet(S)
      BY <3>1, FS_Subset
    <3> QED
      BY <1>2, <3>2
  <2>2. PICK j \in S : \A k \in S : j <= k
    BY <2>1, SmallestNumber
  <2>3. j \in DOMAIN s /\ s[j] = s[i] /\ j \in Int /\ i \in Int
    BY <1>2, <2>2
  <2>4. ASSUME NEW k \in 1..(j - 1)
        PROVE  s[k] # s[j]
    <3>1. k \in 1..i /\ ~(j <= k)
      BY <1>2, <2>2, <2>3
    <3> QED
      BY <2>2, <2>3, <3>1
  <2> QED
    BY <2>3, <2>4 DEF Firsts
<1> HIDE DEF I
<1>5. IsSequence(t) /\ (t = <<>> <=> I = {}) /\ ArePlaces(s, I, t, place)
  BY <1>1, PickedPlaces
<1>6. Map!Range(t) = {s[i] : i \in I}
  BY <1>1, PickedRange
<1>7. DOMAIN t = 1..Len(t) /\ Len(t) \in Nat
  BY <1>5, SequenceOf DEF IsSequence
<1> HIDE DEF t, place
<1>8. IsOnce(t)
  <2> SUFFICES ASSUME NEW j \in DOMAIN t, NEW k \in DOMAIN t, t[j] = t[k] PROVE j = k
    BY DEF IsOnce
  <2>1. place[j] = place[k]
    BY <1>3, <1>5 DEF ArePlaces
  <2>2. ASSUME NEW a \in DOMAIN t, NEW b \in DOMAIN t, a < b PROVE place[a] # place[b]
    <3>1. place[a] < place[b] /\ place[b] \in Int /\ place[a] \in Int
      BY <1>1, <1>2, <1>5, <2>2 DEF ArePlaces
    <3> QED
      BY <3>1
  <2>3. ~(j < k) /\ ~(k < j)
    BY <2>1, <2>2
  <2> QED
    BY <1>7, <2>3
<1>9. Map!Range(t) = Map!Range(s)
  <2>1. {s[i] : i \in I} = {s[i] : i \in DOMAIN s}
    BY <1>1, <1>4
  <2> QED
    BY <1>6, <2>1, SameLists
<1>10. s = <<>> <=> I = {}
  <2>1. s = <<>> <=> DOMAIN s = {}
    BY <1>2, EmptySeq DEF IsSequence
  <2> QED
    BY <1>1, <1>4, <2>1
<1> QED
  BY <1>5, <1>8, <1>9, <1>10 DEF t

(* A list in which nothing is twice stays. *)
LEMMA DistinctOfOnce ==
  ASSUME NEW s, IsSequence(s), IsOnce(s)
  PROVE  Map!Distinct(s) = s
<1>1. DOMAIN s = 1..Len(s) /\ Len(s) \in Nat
  BY SequenceOf DEF IsSequence
<1>2. Firsts(s) = DOMAIN s
  BY <1>1 DEF Firsts, IsOnce
<1> QED
  BY <1>2, PickedAll, DistinctIsPicked, SameLists

(* What a list begins with stays in front, when nothing in it is twice. *)
LEMMA DistinctBegins ==
  ASSUME NEW s, IsSequence(s), NEW u, IsSequence(u), IsOnce(u), Map!Begins(s, u)
  PROVE  Map!Begins(Map!Distinct(s), u)
<1> DEFINE t == Map!Distinct(s)
           I == Firsts(s)
           n == Len(u)
           place == Failover!Ascending(I)
<1>1. t = Map!Picked(s, I) /\ I \in SUBSET DOMAIN s
  BY DistinctIsPicked
<1>2. /\ DOMAIN s = 1..Len(s) /\ Len(s) \in Nat /\ DOMAIN u = 1..n /\ n \in Nat
      /\ n <= Len(s) /\ \A i \in 1..n : s[i] = u[i]
  BY SequenceOf DEF IsSequence, Map!Begins
<1>3. 1..n \subseteq I
  BY <1>2 DEF Firsts, IsOnce
<1> HIDE DEF I, n
<1>4. I \subseteq Int /\ IsFiniteSet(I)
  <2>1. IsFiniteSet(1..Len(s))
    BY <1>2, FS_Interval
  <2> QED
    BY <1>1, <1>2, <2>1, FS_Subset
<1>5. /\ IsOrder(I, Smaller(I)) /\ place = Places(I, Smaller(I))
  BY <1>4, NumbersOrdered
<1>6. IsSequence(t) /\ ArePlaces(s, I, t, place) /\ DOMAIN t = 1..Cardinality(I)
      /\ Cardinality(I) \in Nat
  BY <1>1, PickedPlaces, PickedElements, SameLists
<1>7. DOMAIN t = 1..Len(t) /\ Len(t) \in Nat
  BY <1>6, SequenceOf DEF IsSequence
<1>8. ASSUME NEW k \in 1..n
      PROVE  k \in 1..Cardinality(I) /\ place[k] = k
  <2>1. k \in I
    BY <1>3
  <2>2. Smaller(I)[k] = 1..(k - 1)
    <3>1. Smaller(I)[k] = {d \in I : d < k}
      BY <2>1 DEF Smaller
    <3>2. \A d \in I : d < k <=> d \in 1..(k - 1)
      BY <1>1, <1>2
    <3>3. \A d \in 1..(k - 1) : d \in I
      BY <1>2, <1>3
    <3> QED
      BY <3>1, <3>2, <3>3
  <2>3. Cardinality(Smaller(I)[k]) = k - 1
    BY <1>2, <2>2, FS_Interval
  <2>4. PICK l \in 1..Cardinality(I) : place[l] = k /\ Cardinality(Smaller(I)[place[l]]) = l - 1
    <3>1. \A e \in I : \E l \in 1..Cardinality(I) : Places(I, Smaller(I))[l] = e
      BY <1>4, <1>5, OrderedPlaces
    <3>2. \A l \in 1..Cardinality(I) : Cardinality(Smaller(I)[Places(I, Smaller(I))[l]]) = l - 1
      BY <1>4, <1>5, OrderedPlaces
    <3> QED
      BY <1>5, <2>1, <3>1, <3>2
  <2>5. l = k
    BY <1>2, <2>3, <2>4
  <2> QED
    BY <2>4, <2>5
<1> HIDE DEF t, place
<1>9. \A k \in 1..n : k \in DOMAIN t /\ t[k] = u[k]
  BY <1>2, <1>6, <1>8 DEF ArePlaces
<1>10. n <= Len(t)
  <2>1. n = 0 \/ n \in 1..n
    BY <1>2
  <2> QED
    BY <1>7, <1>9, <2>1
<1> QED
  BY <1>2, <1>9, <1>10 DEF Map!Begins, t, n

(* Lists that say the same things twice at the same places. *)
LEMMA DistinctAlike ==
  ASSUME NEW s, IsSequence(s), NEW u, IsSequence(u), DOMAIN u = DOMAIN s,
         \A i, j \in DOMAIN s : s[i] = s[j] <=> u[i] = u[j]
  PROVE  LET p == Map!Distinct(s)
             q == Map!Distinct(u) IN
         /\ DOMAIN p = DOMAIN q
         /\ \A k \in DOMAIN p : \E i \in DOMAIN s : p[k] = s[i] /\ q[k] = u[i]
<1>1. DOMAIN s = 1..Len(s) /\ Len(s) \in Nat
  BY SequenceOf DEF IsSequence
<1>2. \A i \in DOMAIN s : \A j \in 1..(i - 1) : j \in DOMAIN s
  BY <1>1
<1>3. Firsts(u) = Firsts(s) /\ Firsts(s) \in SUBSET DOMAIN s
  BY <1>2 DEF Firsts
<1>4. Map!Distinct(s) = Map!Picked(s, Firsts(s)) /\ Map!Distinct(u) = Map!Picked(u, Firsts(s))
  BY <1>3, DistinctIsPicked
<1>5. /\ DOMAIN Map!Picked(s, Firsts(s)) = DOMAIN Map!Picked(u, Firsts(s))
      /\ \A k \in DOMAIN Map!Picked(s, Firsts(s)) : \E i \in Firsts(s) :
           Map!Picked(s, Firsts(s))[k] = s[i] /\ Map!Picked(u, Firsts(s))[k] = u[i]
  BY <1>3, PickedAlike
<1> QED
  BY <1>3, <1>4, <1>5

(* One list after the other. *)
LEMMA ConcatElements ==
  ASSUME NEW s, IsSequence(s), NEW u, IsSequence(u)
  PROVE  /\ IsSequence(s \o u) /\ Map!Begins(s \o u, s)
         /\ Map!Range(s \o u) = Map!Range(s) \cup Map!Range(u)
<1> DEFINE t == s \o u
           S == {s[i] : i \in DOMAIN s} \cup {u[i] : i \in DOMAIN u}
<1>1. s \in Seq(S) /\ u \in Seq(S)
  BY SeqMonotonic DEF IsSequence
<1>2. /\ DOMAIN s = 1..Len(s) /\ Len(s) \in Nat /\ DOMAIN u = 1..Len(u) /\ Len(u) \in Nat
  BY SequenceOf DEF IsSequence
<1> HIDE DEF S
<1>3. /\ t \in Seq(S) /\ Len(t) = Len(s) + Len(u)
      /\ \A i \in 1..Len(s) + Len(u) : t[i] = IF i <= Len(s) THEN s[i] ELSE u[i - Len(s)]
  BY <1>1, ConcatProperties
<1>4. IsSequence(t) /\ DOMAIN t = 1..Len(s) + Len(u)
  BY <1>3, SequenceOf
<1> HIDE DEF t
<1>5. \A i \in DOMAIN s : i \in DOMAIN t /\ t[i] = s[i]
  BY <1>2, <1>3, <1>4
<1>6. \A i \in DOMAIN u : Len(s) + i \in DOMAIN t /\ t[Len(s) + i] = u[i]
  <2> SUFFICES ASSUME NEW i \in DOMAIN u PROVE Len(s) + i \in DOMAIN t /\ t[Len(s) + i] = u[i]
    OBVIOUS
  <2>1. /\ Len(s) + i \in 1..Len(s) + Len(u) /\ ~(Len(s) + i <= Len(s))
        /\ (Len(s) + i) - Len(s) = i
    BY <1>2
  <2> QED
    BY <1>3, <1>4, <2>1
<1>7. ASSUME NEW i \in DOMAIN t
      PROVE  t[i] \in {s[j] : j \in DOMAIN s} \cup {u[j] : j \in DOMAIN u}
  <2>1. CASE i <= Len(s)
    <3>1. i \in DOMAIN s /\ t[i] = s[i]
      BY <1>2, <1>3, <1>4, <2>1
    <3> QED
      BY <3>1
  <2>2. CASE ~(i <= Len(s))
    <3>1. i - Len(s) \in DOMAIN u /\ t[i] = u[i - Len(s)]
      BY <1>2, <1>3, <1>4, <2>2
    <3> QED
      BY <3>1
  <2> QED
    BY <2>1, <2>2
<1>8. Map!Range(t) = Map!Range(s) \cup Map!Range(u)
  <2>1. Map!Range(t) \subseteq Map!Range(s) \cup Map!Range(u)
    BY <1>7, SameLists
  <2>2. Map!Range(s) \cup Map!Range(u) \subseteq Map!Range(t)
    BY <1>5, <1>6, SameLists
  <2> QED
    BY <2>1, <2>2
<1>9. Map!Begins(t, s)
  BY <1>2, <1>3, <1>5 DEF Map!Begins
<1> QED
  BY <1>4, <1>8, <1>9 DEF t

(* The first elements of a list. *)
LEMMA FirstElements ==
  ASSUME NEW s, IsSequence(s), NEW n \in Int
  PROVE  LET t == Map!First(n, s) IN
         /\ IsSequence(t) /\ Map!Begins(s, t)
         /\ Len(t) = IF n < 0 THEN 0 ELSE IF n < Len(s) THEN n ELSE Len(s)
<1> DEFINE S == {s[i] : i \in DOMAIN s}
           l == IF n < Len(s) THEN n ELSE Len(s)
           t == SubSeq(s, 1, l)
<1>1. DOMAIN s = 1..Len(s) /\ Len(s) \in Nat
  BY SequenceOf DEF IsSequence
<1>2. l \in Int /\ 1 \in Int /\ \A i \in 1..l : i \in DOMAIN s /\ s[i] \in S
  BY <1>1
<1>3. t = Map!First(n, s)
  BY DEF Map!First
<1>4. l <= Len(s) /\ l = IF n < Len(s) THEN n ELSE Len(s)
  BY <1>1
<1> HIDE DEF S, l
<1>5. /\ t \in Seq(S) /\ Len(t) = IF 1 <= l THEN l - 1 + 1 ELSE 0
      /\ \A i \in 1..l - 1 + 1 : t[i] = s[1 + i - 1]
  BY <1>2, SubSeqProperties
<1>6. IsSequence(t) /\ DOMAIN t = 1..Len(t)
  BY <1>5, SequenceOf
<1> HIDE DEF t
<1>7. Len(t) = IF n < 0 THEN 0 ELSE IF n < Len(s) THEN n ELSE Len(s)
  <2>1. Len(t) = IF 1 <= l THEN l - 1 + 1 ELSE 0
    BY <1>5
  <2>2. \A a, b, c \in Int : b >= 0 /\ c = (IF a < b THEN a ELSE b) =>
          (IF 1 <= c THEN c - 1 + 1 ELSE 0) = (IF a < 0 THEN 0 ELSE IF a < b THEN a ELSE b)
    OBVIOUS
  <2>3. Len(s) \in Int /\ Len(s) >= 0
    BY <1>1
  <2> QED
    BY <1>2, <1>4, <2>1, <2>2, <2>3
<1>8. Len(t) <= Len(s) /\ \A i \in 1..Len(t) : t[i] = s[i]
  <2>1. Len(t) <= Len(s)
    BY <1>1, <1>7
  <2>2. ASSUME NEW i \in 1..Len(t)
        PROVE  t[i] = s[i]
    <3>1. Len(t) = l /\ i \in 1..l - 1 + 1 /\ 1 + i - 1 = i
      <4>1. Len(t) = IF 1 <= l THEN l - 1 + 1 ELSE 0
        BY <1>5
      <4>2. 1 <= l
        BY <1>2, <4>1
      <4> QED
        BY <1>2, <4>1, <4>2
    <3>2. t[i] = s[1 + i - 1]
      BY <1>5, <3>1
    <3> QED
      BY <3>1, <3>2
  <2> QED
    BY <2>1, <2>2
<1> QED
  BY <1>3, <1>6, <1>7, <1>8 DEF Map!Begins

(* What a list begins with is from it. *)
LEMMA BegunElements ==
  ASSUME NEW s, IsSequence(s), NEW t, IsSequence(t), Map!Begins(s, t)
  PROVE  Map!Range(t) \subseteq Map!Range(s) /\ (Len(t) = Len(s) => t = s)
<1>1. /\ DOMAIN s = 1..Len(s) /\ Len(s) \in Nat /\ DOMAIN t = 1..Len(t) /\ Len(t) \in Nat
      /\ Len(t) <= Len(s) /\ \A i \in DOMAIN t : s[i] = t[i]
  BY SequenceOf DEF IsSequence, Map!Begins
<1>2. \A i \in DOMAIN t : i \in DOMAIN s
  BY <1>1
<1>3. s = [i \in DOMAIN s |-> s[i]] /\ t = [i \in DOMAIN t |-> t[i]]
  <2>1. /\ s \in [1..Len(s) -> {s[k] : k \in DOMAIN s}]
        /\ t \in [1..Len(t) -> {t[k] : k \in DOMAIN t}]
    BY LenProperties DEF IsSequence
  <2> QED
    BY <1>1, <2>1
<1>4. Len(t) = Len(s) => t = s
  BY <1>1, <1>3
<1>5. Map!Range(t) \subseteq Map!Range(s)
  BY <1>1, <1>2, SameLists
<1> QED
  BY <1>4, <1>5

AreSequences(ss) == IsSequence(ss) /\ \A i \in DOMAIN ss : IsSequence(ss[i])

(* The lists of a list, one after the other. *)
LEMMA JoinedElements ==
  ASSUME NEW ss, AreSequences(ss)
  PROVE  /\ IsSequence(Map!Joined(ss))
         /\ \A e : e \in Map!Range(Map!Joined(ss)) <=> \E i \in DOMAIN ss : e \in Map!Range(ss[i])
<1> DEFINE row == [i \in DOMAIN ss |-> {<<i, j>> : j \in DOMAIN ss[i]}]
           at == UNION {{<<i, j>> : j \in DOMAIN ss[i]} : i \in DOMAIN ss}
           B == [e \in at |-> {d \in at : d[1] < e[1] \/ (d[1] = e[1] /\ d[2] < e[2])}]
           place == Places(at, B)
           t == Map!Joined(ss)
<1>1. DOMAIN ss = 1..Len(ss) /\ Len(ss) \in Nat
  BY SequenceOf DEF IsSequence, AreSequences
<1>2. \A i \in DOMAIN ss : DOMAIN ss[i] = 1..Len(ss[i]) /\ Len(ss[i]) \in Nat
  BY SequenceOf DEF IsSequence, AreSequences
<1>3. IsFiniteSet(at)
  <2>1. \A i \in DOMAIN ss : IsFiniteSet({<<i, j>> : j \in DOMAIN ss[i]})
    <3> SUFFICES ASSUME NEW i \in DOMAIN ss PROVE IsFiniteSet({<<i, j>> : j \in DOMAIN ss[i]})
      OBVIOUS
    <3>1. IsFiniteSet({i}) /\ IsFiniteSet(DOMAIN ss[i])
      <4>1. IsFiniteSet({i})
        BY FS_Singleton
      <4>2. IsFiniteSet(1..Len(ss[i])) /\ DOMAIN ss[i] = 1..Len(ss[i])
        BY <1>2, FS_Interval
      <4> QED
        BY <4>1, <4>2
    <3>2. IsFiniteSet({i} \X DOMAIN ss[i])
      BY <3>1, FS_Product
    <3>3. {<<i, j>> : j \in DOMAIN ss[i]} \in SUBSET ({i} \X DOMAIN ss[i])
      OBVIOUS
    <3> QED
      BY <3>2, <3>3, FS_Subset
  <2>2. IsFiniteSet({{<<i, j>> : j \in DOMAIN ss[i]} : i \in DOMAIN ss})
    <3> DEFINE T == {{<<i, j>> : j \in DOMAIN ss[i]} : i \in DOMAIN ss}
    <3>1. row \in Surjection(DOMAIN ss, T)
      BY DEF Surjection
    <3>2. IsFiniteSet(DOMAIN ss)
      BY <1>1, FS_Interval
    <3> HIDE DEF T, row
    <3>3. IsFiniteSet(T)
      BY <3>1, <3>2, FS_Surjection
    <3> QED
      BY <3>3 DEF T
  <2> QED
    BY <2>1, <2>2, FS_UNION
<1>4. \A e : e \in at <=> \E i \in DOMAIN ss : \E j \in DOMAIN ss[i] : e = <<i, j>>
  OBVIOUS
<1> HIDE DEF at
<1>5. \A e \in at : e = <<e[1], e[2]>> /\ e[1] \in DOMAIN ss /\ e[2] \in DOMAIN ss[e[1]]
                    /\ e[1] \in Int /\ e[2] \in Int
  <2> SUFFICES ASSUME NEW i \in DOMAIN ss, NEW j \in DOMAIN ss[i]
               PROVE  i \in Int /\ j \in Int
    BY <1>4
  <2> QED
    BY <1>1, <1>2
<1>6. \A d, e \in at : d \in B[e] <=> d[1] < e[1] \/ (d[1] = e[1] /\ d[2] < e[2])
  OBVIOUS
<1>7. \A e \in at : B[e] \in SUBSET at
  OBVIOUS
<1>8. IsOrder(at, B)
  <2> HIDE DEF B
  <2>1. \A e \in at : e \notin B[e]
    BY <1>5, <1>6
  <2>2. \A d, e \in at : d \in B[e] => B[d] \subseteq B[e]
    <3> SUFFICES ASSUME NEW d \in at, NEW e \in at, d \in B[e], NEW x \in at, x \in B[d]
                 PROVE  x \in B[e]
      BY <1>7
    <3>1. /\ d[1] < e[1] \/ (d[1] = e[1] /\ d[2] < e[2])
          /\ x[1] < d[1] \/ (x[1] = d[1] /\ x[2] < d[2])
      BY <1>6
    <3>2. x[1] < e[1] \/ (x[1] = e[1] /\ x[2] < e[2])
      BY <1>5, <3>1
    <3> QED
      BY <1>6, <3>2
  <2>3. \A d, e \in at : d = e \/ d \in B[e] \/ e \in B[d]
    <3> SUFFICES ASSUME NEW d \in at, NEW e \in at, d # e PROVE d \in B[e] \/ e \in B[d]
      OBVIOUS
    <3>1. d[1] # e[1] \/ d[2] # e[2]
      BY <1>5
    <3>2. \/ d[1] < e[1] \/ (d[1] = e[1] /\ d[2] < e[2])
          \/ e[1] < d[1] \/ (e[1] = d[1] /\ e[2] < d[2])
      BY <1>5, <3>1
    <3> QED
      BY <1>6, <3>2
  <2> QED
    BY <1>7, <2>1, <2>2, <2>3 DEF IsOrder
<1>9. t = [k \in DOMAIN place |-> ss[place[k][1]][place[k][2]]]
  <2>1. Map!Ordered(at, LAMBDA p, q : p[1] < q[1] \/ (p[1] = q[1] /\ p[2] < q[2])) =
          [k \in 1..Cardinality(at) |-> CHOOSE e \in at :
             Cardinality({d \in at : d[1] < e[1] \/ (d[1] = e[1] /\ d[2] < e[2])}) = k - 1]
    BY DEF Map!Ordered, Map!Cardinality, Cardinality
  <2>2. \A k : (CHOOSE e \in at :
                  Cardinality({d \in at : d[1] < e[1] \/ (d[1] = e[1] /\ d[2] < e[2])}) = k - 1)
               = CHOOSE e \in at : Cardinality(B[e]) = k - 1
    OBVIOUS
  <2>3. place = Map!Ordered(at, LAMBDA p, q : p[1] < q[1] \/ (p[1] = q[1] /\ p[2] < q[2]))
    BY <2>1, <2>2, Zenon DEF Places
  <2> QED
    BY <2>3 DEF Map!Joined, at
<1> HIDE DEF B, t
<1>10. /\ Cardinality(at) \in Nat /\ DOMAIN place = 1..Cardinality(at)
       /\ \A k \in 1..Cardinality(at) : place[k] \in at
       /\ \A e \in at : \E k \in 1..Cardinality(at) : place[k] = e
  BY <1>3, <1>8, OrderedPlaces
<1> HIDE DEF place
<1>11. IsSequence(t) /\ DOMAIN t = DOMAIN place
  <2>1. t = [k \in 1..Cardinality(at) |-> t[k]] /\ DOMAIN t = DOMAIN place
    BY <1>9, <1>10
  <2> QED
    BY <1>10, <2>1, OnPlaces
<1>12. Map!Range(t) = {t[k] : k \in DOMAIN t}
  BY SameLists
<1>13. ASSUME NEW k \in DOMAIN t
       PROVE  \E i \in DOMAIN ss : t[k] \in Map!Range(ss[i])
  <2>1. t[k] = ss[place[k][1]][place[k][2]] /\ place[k] \in at
    BY <1>9, <1>10, <1>11
  <2>2. place[k][1] \in DOMAIN ss /\ place[k][2] \in DOMAIN ss[place[k][1]]
    BY <1>5, <2>1
  <2> QED
    BY <2>1, <2>2, SameLists
<1>14. ASSUME NEW i \in DOMAIN ss, NEW j \in DOMAIN ss[i]
       PROVE  ss[i][j] \in {t[k] : k \in DOMAIN t}
  <2>1. PICK k \in DOMAIN t : place[k] = <<i, j>>
    BY <1>4, <1>10, <1>11
  <2>2. t[k] = ss[i][j]
    BY <1>9, <1>11, <2>1
  <2> QED
    BY <2>2
<1>15. \A e : e \in Map!Range(t) <=> \E i \in DOMAIN ss : e \in Map!Range(ss[i])
  <2>1. ASSUME NEW i \in DOMAIN ss, NEW e \in Map!Range(ss[i])
        PROVE  e \in Map!Range(t)
    BY <1>12, <1>14, SameLists
  <2>2. ASSUME NEW e \in Map!Range(t)
        PROVE  \E i \in DOMAIN ss : e \in Map!Range(ss[i])
    BY <1>12, <1>13
  <2> QED
    BY <2>1, <2>2
<1> QED
  BY <1>11, <1>15 DEF t

(***************************************************************************)
(* The route map: its tables, and what they list.                          *)
(***************************************************************************)
MapInv ==
  /\ DOMAIN channels = RoutedChannel /\ AreMapped(channels)
  /\ DOMAIN aliases = RoutedName /\ AreTargeted(aliases)
  /\ policy \in Policies

LEMMA MapInit == Map!Init => MapInv
BY MapAssumption DEF Map!Init, MapInv

LEMMA MapSame == MapInv /\ UNCHANGED <<channels, aliases, policy>> => MapInv'
BY DEF MapInv, AreMapped, AreTargeted

LEMMA MapStep == MapInv /\ Map!Next => MapInv'
<1> SUFFICES ASSUME MapInv, Map!Next PROVE MapInv'
  OBVIOUS
<1>1. ASSUME NEW c \in RoutedChannel, Map!SwitchChannel(c) \/ Map!DeleteChannel(c)
      PROVE  MapInv'
  <2>1. UNCHANGED <<aliases, policy>> /\ DOMAIN channels' = RoutedChannel
    BY <1>1 DEF Map!SwitchChannel, Map!DeleteChannel, MapInv
  <2>2. ASSUME NEW d \in RoutedChannel, channels'[d] # None
        PROVE  channels'[d] \in MappedChannel
    <3>1. channels[d] # None
      BY <1>1, <2>2 DEF Map!SwitchChannel, Map!DeleteChannel, Map!Exists, MapInv
    <3>2. channels[d] \in MappedChannel
      BY <3>1 DEF MapInv, AreMapped
    <3>3. \/ channels'[d] = channels[d]
          \/ channels'[d] = [channels[d] EXCEPT !.enabled = ~channels[d].enabled]
      BY <1>1, <2>2 DEF Map!SwitchChannel, Map!DeleteChannel, MapInv
    <3> QED
      BY <3>2, <3>3 DEF MappedChannel
  <2> QED
    BY <2>1, <2>2 DEF MapInv, AreMapped, AreTargeted
<1>2. ASSUME NEW a \in RoutedName, Map!SwitchAlias(a)
      PROVE  MapInv'
  <2>1. UNCHANGED <<channels, policy>> /\ DOMAIN aliases' = RoutedName
    BY <1>2 DEF Map!SwitchAlias, MapInv
  <2>2. ASSUME NEW b \in RoutedName, aliases'[b] # None
        PROVE  aliases'[b] \in MappedAlias /\ aliases'[b].targets # <<>>
    <3>1. aliases[b] # None
      BY <1>2, <2>2 DEF Map!SwitchAlias, MapInv
    <3>2. aliases[b] \in MappedAlias /\ aliases[b].targets # <<>>
      BY <3>1 DEF MapInv, AreTargeted
    <3>3. \/ aliases'[b] = aliases[b]
          \/ aliases'[b] = [aliases[b] EXCEPT !.enabled = ~aliases[b].enabled]
      BY <1>2 DEF Map!SwitchAlias, MapInv
    <3> QED
      BY <3>2, <3>3 DEF MappedAlias
  <2> QED
    BY <2>1, <2>2 DEF MapInv, AreMapped, AreTargeted
<1>3. CASE Map!SavePolicy
  BY <1>3 DEF Map!SavePolicy, MapInv, AreMapped, AreTargeted
<1> QED
  BY <1>1, <1>2, <1>3 DEF Map!Next

LEMMA MapTyped == MapInv => Map!TypeOK
BY DEF MapInv, AreMapped, AreTargeted, MappedChannel, Map!TypeOK, Map!Exists

AreFallbacks(to) ==
  /\ IsSequence(to)
  /\ \A k \in DOMAIN to : to[k].provider \in RoutedChannel \cup {None} /\ to[k].name \in RoutedName

(* What the tables hold, field by field. *)
LEMMA MapTypes ==
  ASSUME MapInv
  PROVE  /\ \A c \in RoutedChannel : Map!Exists(c) =>
              /\ channels[c].enabled \in BOOLEAN /\ channels[c].direct \in BOOLEAN
              /\ channels[c].type \in Map!Type /\ channels[c].priority \in Int
              /\ IsSequence(channels[c].models) /\ Map!Range(channels[c].models) \subseteq RoutedName
         /\ \A a \in RoutedName : aliases[a] # None =>
              /\ aliases[a].enabled \in BOOLEAN /\ aliases[a].targets # <<>>
              /\ IsSequence(aliases[a].targets)
              /\ \A k \in DOMAIN aliases[a].targets :
                   /\ aliases[a].targets[k].provider \in RoutedChannel
                   /\ aliases[a].targets[k].model \in RoutedName
         /\ policy.enabled \in BOOLEAN /\ policy.max \in Int
         /\ policy.mode \in {"any_model", "same_model", "disabled"}
         /\ IsSequence(policy.custom)
         /\ \A k \in DOMAIN policy.custom : AreFallbacks(policy.custom[k].fallbacks)
<1>1. ASSUME NEW c \in RoutedChannel, Map!Exists(c)
      PROVE  /\ channels[c].enabled \in BOOLEAN /\ channels[c].direct \in BOOLEAN
             /\ channels[c].type \in Map!Type /\ channels[c].priority \in Int
             /\ IsSequence(channels[c].models) /\ Map!Range(channels[c].models) \subseteq RoutedName
  <2>1. channels[c] \in MappedChannel
    BY <1>1 DEF MapInv, AreMapped, Map!Exists
  <2>2. /\ channels[c].enabled \in BOOLEAN /\ channels[c].direct \in BOOLEAN
        /\ channels[c].type \in Map!Type /\ channels[c].priority \in Int
        /\ channels[c].models \in Seq(RoutedName)
    BY <2>1 DEF MappedChannel
  <2>3. channels[c].models \in [1..Len(channels[c].models) -> RoutedName]
    BY <2>2, LenProperties
  <2> QED
    BY <2>2, <2>3, SequenceOf, SameLists
<1>2. ASSUME NEW a \in RoutedName, aliases[a] # None
      PROVE  /\ aliases[a].enabled \in BOOLEAN /\ aliases[a].targets # <<>>
             /\ IsSequence(aliases[a].targets)
             /\ \A k \in DOMAIN aliases[a].targets :
                  /\ aliases[a].targets[k].provider \in RoutedChannel
                  /\ aliases[a].targets[k].model \in RoutedName
  <2> DEFINE T == [provider : RoutedChannel, model : RoutedName]
  <2>1. aliases[a] \in MappedAlias /\ aliases[a].targets # <<>>
    BY <1>2 DEF MapInv, AreTargeted
  <2>2. aliases[a].enabled \in BOOLEAN /\ aliases[a].targets \in Seq(T)
    BY <2>1 DEF MappedAlias
  <2>3. \A x \in T : x.provider \in RoutedChannel /\ x.model \in RoutedName
    OBVIOUS
  <2> HIDE DEF T
  <2>4. aliases[a].targets \in [1..Len(aliases[a].targets) -> T]
    BY <2>2, LenProperties
  <2> QED
    BY <2>1, <2>2, <2>3, <2>4, SequenceOf
<1>3. /\ policy.enabled \in BOOLEAN /\ policy.max \in Int
      /\ policy.mode \in {"any_model", "same_model", "disabled"}
      /\ IsSequence(policy.custom)
      /\ \A k \in DOMAIN policy.custom : AreFallbacks(policy.custom[k].fallbacks)
  <2> DEFINE F == [provider : RoutedChannel \cup {None}, name : RoutedName]
             T == [model : RoutedName, fallbacks : Seq(F)]
  <2>1. policy \in MappedPolicy
    BY MapAssumption DEF MapInv
  <2>2. /\ policy.enabled \in BOOLEAN /\ policy.max \in Int
        /\ policy.mode \in {"any_model", "same_model", "disabled"}
        /\ policy.custom \in Seq(T)
    BY <2>1 DEF MappedPolicy
  <2>3. \A x \in T : x.fallbacks \in Seq(F)
    OBVIOUS
  <2>4. \A x \in F : x.provider \in RoutedChannel \cup {None} /\ x.name \in RoutedName
    OBVIOUS
  <2> HIDE DEF T, F
  <2>5. ASSUME NEW s \in Seq(F)
        PROVE  AreFallbacks(s)
    <3>1. s \in [1..Len(s) -> F]
      BY LenProperties
    <3> QED
      BY <2>4, <3>1, SequenceOf DEF AreFallbacks
  <2>6. policy.custom \in [1..Len(policy.custom) -> T]
    BY <2>2, LenProperties
  <2> QED
    BY <2>2, <2>3, <2>5, <2>6, SequenceOf
<1> QED
  BY <1>1, <1>2, <1>3

(* The channels that are not missing, in the order of the names or bytes. *)
Present == {c \in RoutedChannel : Map!Exists(c)}
Preceding(rank) ==
  [e \in Present |-> {d \in Present :
     \/ channels[d].priority > channels[e].priority
     \/ channels[d].priority = channels[e].priority /\ rank[d] < rank[e]}]

LEMMA SortedPlaces ==
  ASSUME NEW rank
  PROVE  Map!Sorted(rank) = Places(Present, Preceding(rank))
<1> DEFINE Before(c, d) == \/ channels[c].priority > channels[d].priority
                           \/ channels[c].priority = channels[d].priority /\ rank[c] < rank[d]
<1>1. Map!Sorted(rank) =
        [k \in 1..Cardinality(Present) |->
           CHOOSE e \in Present : Cardinality({d \in Present : Before(d, e)}) = k - 1]
  BY DEF Map!Sorted, Map!Ordered, Map!Cardinality, Cardinality, Present
<1>2. \A k : (CHOOSE e \in Present : Cardinality({d \in Present : Before(d, e)}) = k - 1)
             = CHOOSE e \in Present : Cardinality(Preceding(rank)[e]) = k - 1
  BY DEF Preceding
<1> QED
  BY <1>1, <1>2, Zenon DEF Places

LEMMA SortedChannels ==
  ASSUME MapInv, NEW rank, IsRank(rank)
  PROVE  /\ IsSequence(Map!Sorted(rank)) /\ IsOnce(Map!Sorted(rank))
         /\ Map!Range(Map!Sorted(rank)) = {c \in RoutedChannel : Map!Exists(c)}
<1> DEFINE S == {c \in RoutedChannel : Map!Exists(c)}
           B == [e \in S |-> {d \in S :
                  \/ channels[d].priority > channels[e].priority
                  \/ channels[d].priority = channels[e].priority /\ rank[d] < rank[e]}]
           place == Places(S, B)
<1>1. IsFiniteSet(S)
  BY MapAssumption, FS_Subset
<1>2. \A c \in S : channels[c].priority \in Int /\ rank[c] \in Int
  BY MapTypes DEF IsRank
<1>3. \A c, d \in S : rank[c] = rank[d] => c = d
  BY DEF IsRank
<1>4. IsOrder(S, B)
  <2>1. \A d, e \in S : d \in B[e] <=>
          \/ channels[d].priority > channels[e].priority
          \/ channels[d].priority = channels[e].priority /\ rank[d] < rank[e]
    OBVIOUS
  <2>2. \A e \in S : B[e] \in SUBSET S
    OBVIOUS
  <2> HIDE DEF S, B
  <2>3. \A e \in S : e \notin B[e]
    BY <1>2, <2>1
  <2>4. \A d, e \in S : d \in B[e] => B[d] \subseteq B[e]
    <3> SUFFICES ASSUME NEW d \in S, NEW e \in S, d \in B[e], NEW x \in S, x \in B[d]
                 PROVE  x \in B[e]
      BY <2>2
    <3> QED
      BY <1>2, <2>1
  <2>5. \A d, e \in S : d = e \/ d \in B[e] \/ e \in B[d]
    <3> SUFFICES ASSUME NEW d \in S, NEW e \in S, d # e PROVE d \in B[e] \/ e \in B[d]
      OBVIOUS
    <3>1. rank[d] # rank[e]
      BY <1>3
    <3> QED
      BY <1>2, <2>1, <3>1
  <2> QED
    BY <2>2, <2>3, <2>4, <2>5 DEF IsOrder
<1>5. Map!Sorted(rank) = place
  BY SortedPlaces DEF Preceding, Present
<1> HIDE DEF S, B
<1>6. /\ Cardinality(S) \in Nat /\ DOMAIN place = 1..Cardinality(S)
      /\ \A k \in 1..Cardinality(S) : place[k] \in S
      /\ \A e \in S : \E k \in 1..Cardinality(S) : place[k] = e
      /\ \A j, k \in 1..Cardinality(S) : place[j] = place[k] => j = k
  BY <1>1, <1>4, OrderedPlaces
<1>7. place = [k \in 1..Cardinality(S) |-> place[k]]
  BY <1>6 DEF Places
<1> HIDE DEF place
<1>8. IsSequence(place)
  BY <1>6, <1>7, OnPlaces
<1>9. IsOnce(place)
  BY <1>6 DEF IsOnce
<1>10. {place[k] : k \in DOMAIN place} = S
  BY <1>6
<1> QED
  BY <1>5, <1>8, <1>9, <1>10, SameLists DEF S

LEMMA SortedAlike ==
  Map!NamesSortAlike => Map!Sorted(LocaleRank) = Map!Sorted(ByteRank)
<1> SUFFICES ASSUME Map!NamesSortAlike PROVE Map!Sorted(LocaleRank) = Map!Sorted(ByteRank)
  OBVIOUS
<1>1. Preceding(LocaleRank) = Preceding(ByteRank)
  BY DEF Preceding, Present, Map!NamesSortAlike
<1> QED
  BY <1>1, SortedPlaces

LEMMA MappedList ==
  ASSUME NEW s, IsSequence(s), NEW u, u = [k \in DOMAIN s |-> u[k]]
  PROVE  IsSequence(u) /\ DOMAIN u = DOMAIN s
<1>1. DOMAIN s = 1..Len(s) /\ Len(s) \in Nat
  BY SequenceOf DEF IsSequence
<1> QED
  BY <1>1, OnPlaces

LEMMA PickedStaysOnce ==
  ASSUME NEW s, IsSequence(s), IsOnce(s), NEW I \in SUBSET DOMAIN s
  PROVE  IsOnce(Map!Picked(s, I))
<1> DEFINE t == Map!Picked(s, I)
           place == Failover!Ascending(I)
<1>1. IsSequence(t) /\ ArePlaces(s, I, t, place)
  BY PickedPlaces
<1>2. /\ DOMAIN s = 1..Len(s) /\ Len(s) \in Nat /\ DOMAIN t = 1..Len(t) /\ Len(t) \in Nat
  BY <1>1, SequenceOf DEF IsSequence
<1> HIDE DEF t, place
<1>3. ASSUME NEW a \in DOMAIN t, NEW b \in DOMAIN t, a < b
      PROVE  t[a] # t[b]
  <2>1. /\ place[a] \in DOMAIN s /\ place[b] \in DOMAIN s /\ place[a] < place[b]
        /\ t[a] = s[place[a]] /\ t[b] = s[place[b]]
    BY <1>1, <1>3 DEF ArePlaces
  <2>2. place[a] # place[b]
    BY <1>2, <2>1
  <2> QED
    BY <2>1, <2>2 DEF IsOnce
<1>4. \A j, k \in DOMAIN t : j = k \/ j < k \/ k < j
  BY <1>2
<1>5. IsOnce(t)
  BY <1>3, <1>4 DEF IsOnce
<1> QED
  BY <1>5 DEF t

(* The channels that serve a model themselves. *)
Fitting(m, t) == {c \in Present : Map!Direct(c) /\ channels[c].type = t /\ Map!Lists(c, m)}

LEMMA FittingChannels ==
  ASSUME MapInv, NEW rank, IsRank(rank), NEW m, NEW t
  PROVE  LET I == {i \in DOMAIN Map!Sorted(rank) : /\ Map!Direct(Map!Sorted(rank)[i])
                                                   /\ channels[Map!Sorted(rank)[i]].type = t
                                                   /\ Map!Lists(Map!Sorted(rank)[i], m)}
             fits == Map!Picked(Map!Sorted(rank), I) IN
         IsSequence(fits) /\ IsOnce(fits) /\ Map!Range(fits) = Fitting(m, t)
<1> DEFINE s == Map!Sorted(rank)
           I == {i \in DOMAIN s : Map!Direct(s[i]) /\ channels[s[i]].type = t /\ Map!Lists(s[i], m)}
<1>1. IsSequence(s) /\ IsOnce(s) /\ Map!Range(s) = Present
  BY SortedChannels DEF Present
<1>2. {s[i] : i \in I} = Fitting(m, t)
  <2>1. {s[i] : i \in DOMAIN s} = Present
    BY <1>1, SameLists
  <2> QED
    BY <2>1 DEF Fitting
<1>3. I \in SUBSET DOMAIN s
  OBVIOUS
<1> QED
  BY <1>1, <1>2, <1>3, PickedPlaces, PickedRange, PickedStaysOnce

Found(c) == [channel |-> c, resolved |-> None]

(* The routes that both sides find without an alias. *)
LEMMA DirectRoutes ==
  ASSUME MapInv, NEW m, NEW t
  PROVE  LET G == Map!GetModelRoutes(m, t)
             F == Map!FindRoutesByModel(m, t) IN
         /\ IsSequence(G) /\ IsOnce(G) /\ Map!Range(G) = {Map!Route(c, m) : c \in Fitting(m, t)}
         /\ IsSequence(F) /\ IsOnce(F) /\ Map!Range(F) = {Found(c) : c \in Fitting(m, t)}
         /\ Map!NamesSortAlike =>
              /\ DOMAIN G = DOMAIN F
              /\ \A k \in DOMAIN G : \E c \in Fitting(m, t) : G[k] = Map!Route(c, m) /\ F[k] = Found(c)
<1> DEFINE s(rank) == Map!Sorted(rank)
           I(rank) == {i \in DOMAIN s(rank) : /\ Map!Direct(s(rank)[i])
                                              /\ channels[s(rank)[i]].type = t
                                              /\ Map!Lists(s(rank)[i], m)}
           p == Map!Picked(s(LocaleRank), I(LocaleRank))
           q == Map!Picked(s(ByteRank), I(ByteRank))
           G == Map!GetModelRoutes(m, t)
           F == Map!FindRoutesByModel(m, t)
<1>1. IsRank(LocaleRank) /\ IsRank(ByteRank)
  BY MapAssumption
<1>2. IsSequence(p) /\ IsOnce(p) /\ Map!Range(p) = Fitting(m, t)
  BY <1>1, FittingChannels
<1>3. IsSequence(q) /\ IsOnce(q) /\ Map!Range(q) = Fitting(m, t)
  BY <1>1, FittingChannels
<1>4. G = [k \in DOMAIN p |-> Map!Route(p[k], m)]
  BY DEF Map!GetModelRoutes, Map!Where, Map!SortProvidersByRoutingPriority
<1>5. F = [k \in DOMAIN q |-> Found(q[k])]
  BY DEF Map!FindRoutesByModel, Map!Where, Found
<1>6. Map!NamesSortAlike => p = q
  BY SortedAlike
<1> HIDE DEF p, q, G, F
<1>7. \A c, d : (Map!Route(c, m) = Map!Route(d, m) => c = d) /\ (Found(c) = Found(d) => c = d)
  BY DEF Map!Route, Found
<1>8. IsSequence(G) /\ DOMAIN G = DOMAIN p /\ IsSequence(F) /\ DOMAIN F = DOMAIN q
  BY <1>2, <1>3, <1>4, <1>5, MappedList
<1>9. \A k \in DOMAIN p : G[k] = Map!Route(p[k], m)
  BY <1>4
<1>10. \A k \in DOMAIN q : F[k] = Found(q[k])
  BY <1>5
<1>11. IsOnce(G) /\ IsOnce(F)
  BY <1>2, <1>3, <1>7, <1>8, <1>9, <1>10 DEF IsOnce
<1>12. Fitting(m, t) = {p[k] : k \in DOMAIN p} /\ Fitting(m, t) = {q[k] : k \in DOMAIN q}
  BY <1>2, <1>3, SameLists
<1>13. Map!Range(G) = {G[k] : k \in DOMAIN G} /\ Map!Range(F) = {F[k] : k \in DOMAIN F}
  BY SameLists
<1>14. Map!Range(G) = {Map!Route(c, m) : c \in Fitting(m, t)}
  BY <1>8, <1>9, <1>12, <1>13
<1>15. Map!Range(F) = {Found(c) : c \in Fitting(m, t)}
  <2>1. Map!Range(F) = {Found(q[k]) : k \in DOMAIN q}
    BY <1>8, <1>10, <1>13
  <2> QED
    BY <1>12, <2>1
<1>16. ASSUME Map!NamesSortAlike, NEW k \in DOMAIN G
       PROVE  \E c \in Fitting(m, t) : G[k] = Map!Route(c, m) /\ F[k] = Found(c)
  <2>1. p[k] \in Fitting(m, t) /\ p[k] = q[k] /\ k \in DOMAIN q
    BY <1>6, <1>8, <1>12, <1>16
  <2> QED
    BY <1>8, <1>9, <1>10, <2>1
<1>17. Map!NamesSortAlike => DOMAIN G = DOMAIN F
  BY <1>6, <1>8
<1> QED
  BY <1>8, <1>11, <1>14, <1>15, <1>16, <1>17 DEF G, F

(* Routes in use, as the upstreams see them. *)
InUsePairs(R) == {<<r.provider, r.model>> : r \in {x \in R : Map!Enabled(x.provider)}}

LEMMA InUseElements ==
  ASSUME NEW routes, IsSequence(routes)
  PROVE  /\ IsSequence(Map!InUse(routes)) /\ IsOnce(Map!InUse(routes))
         /\ Map!Range(Map!InUse(routes)) = InUsePairs(Map!Range(routes))
<1> DEFINE I == {i \in DOMAIN routes : Map!Enabled(routes[i].provider)}
           used == Map!Picked(routes, I)
           pairs == [i \in DOMAIN used |-> <<used[i].provider, used[i].model>>]
<1>1. Map!InUse(routes) = Map!Distinct(pairs)
  BY DEF Map!InUse, Map!Where
<1>2. IsSequence(used) /\ Map!Range(used) = {routes[i] : i \in I}
  BY PickedPlaces, PickedRange
<1>3. {routes[i] : i \in I} = {x \in Map!Range(routes) : Map!Enabled(x.provider)}
  BY SameLists
<1> HIDE DEF used, I
<1>4. IsSequence(pairs)
  BY <1>2, MappedList
<1>5. Map!Range(pairs) = {<<r.provider, r.model>> : r \in Map!Range(used)}
  BY SameLists
<1> HIDE DEF pairs
<1> QED
  BY <1>1, <1>2, <1>3, <1>4, <1>5, DistinctElements DEF InUsePairs

(* What both sides do with the targets of an alias. *)
IsUsable(x, t) == Map!Enabled(x.provider) /\ channels[x.provider].type = t
Resolved(x) == [channel |-> x.provider, resolved |-> x.model]
Sent(U) == [k \in DOMAIN U |-> <<U[k].channel, U[k].resolved>>]

LEMMA AliasRoutes ==
  ASSUME MapInv, NEW a \in RoutedName, aliases[a] # None, NEW t
  PROVE  LET R == Map!OfType(Map!GetAliasRoutes(a), t)
             U == Map!ResolveExplicitTargets(aliases[a].targets, t)
             usable == {x \in Map!Range(aliases[a].targets) : IsUsable(x, t)} IN
         /\ IsSequence(R) /\ IsSequence(U)
         /\ Map!Range(U) = {Resolved(x) : x \in usable}
         /\ \A x \in usable : Map!Route(x.provider, x.model) \in Map!Range(R)
         /\ InUsePairs(Map!Range(R)) = {<<x.provider, x.model>> : x \in usable}
         /\ Map!InUse(R) = Map!Distinct(Sent(U))
<1> DEFINE targets == aliases[a].targets
           g == Map!GetAliasRoutes(a)
           I == {i \in DOMAIN g : g[i].type = t}
           R == Map!Picked(g, I)
           J == {k \in DOMAIN R : Map!Enabled(R[k].provider)}
           Q == {r \in Map!Range(g) : Map!Enabled(r.provider)}
           used == Map!Picked(R, J)
           K == {i \in DOMAIN targets : IsUsable(targets[i], t)}
           w == Map!Picked(targets, K)
           U == Map!ResolveExplicitTargets(targets, t)
<1>1. /\ IsSequence(targets)
      /\ \A k \in DOMAIN targets : targets[k].provider \in RoutedChannel
  BY MapTypes
<1>2. /\ R = Map!OfType(Map!GetAliasRoutes(a), t)
      /\ Map!InUse(R) = Map!Distinct([i \in DOMAIN used |-> <<used[i].provider, used[i].model>>])
  BY DEF Map!OfType, Map!Where, Map!InUse
<1>3. U = [k \in DOMAIN w |-> Resolved(w[k])]
  BY DEF Map!ResolveExplicitTargets, Map!Where, IsUsable, Resolved
<1>4. /\ g = [i \in DOMAIN targets |-> g[i]]
      /\ \A i \in DOMAIN targets :
           /\ g[i].provider = targets[i].provider /\ g[i].model = targets[i].model
           /\ Map!Exists(targets[i].provider) => g[i] = Map!Route(targets[i].provider, targets[i].model)
  BY DEF Map!GetAliasRoutes, Map!Route
<1> HIDE DEF g, targets
<1>5. IsSequence(g) /\ DOMAIN g = DOMAIN targets
  BY <1>1, <1>4, MappedList
<1>6. I \in SUBSET DOMAIN g /\ K \in SUBSET DOMAIN targets /\ K \in SUBSET DOMAIN g
  BY <1>5
<1>7. \A k \in DOMAIN R : R[k] \in Map!Range(g)
  <2>1. Map!Range(R) = {g[i] : i \in I} /\ \A k \in DOMAIN R : R[k] \in Map!Range(R)
    BY <1>5, <1>6, PickedRange, SameLists
  <2> QED
    BY <1>6, <2>1, SameLists
<1>8. J = {k \in DOMAIN R : R[k] \in Q}
  BY <1>7
<1>9. K = {i \in I : g[i] \in Q}
  <2>1. \A i \in DOMAIN g : g[i] \in Q <=> Map!Enabled(targets[i].provider)
    BY <1>4, <1>5, SameLists
  <2>2. \A i \in DOMAIN g : Map!Enabled(targets[i].provider) =>
          (g[i].type = t <=> channels[targets[i].provider].type = t)
    BY <1>4, <1>5 DEF Map!Enabled, Map!Route
  <2> QED
    BY <1>5, <2>1, <2>2 DEF IsUsable
<1>10. used = Map!Picked(g, K)
  <2> HIDE DEF I, K, Q
  <2>1. Map!Picked(R, {k \in DOMAIN R : R[k] \in Q}) = Map!Picked(g, {i \in I : g[i] \in Q})
    BY <1>5, <1>6, PickedTwice
  <2> HIDE DEF R, J
  <2> QED
    BY <1>8, <1>9, <2>1
<1>11. /\ DOMAIN used = DOMAIN w
       /\ \A k \in DOMAIN used : \E i \in K : used[k] = g[i] /\ w[k] = targets[i]
  <2>1. LET p == Map!Picked(g, K)
            q == Map!Picked(targets, K) IN
        DOMAIN p = DOMAIN q /\ \A k \in DOMAIN p : \E i \in K : p[k] = g[i] /\ q[k] = targets[i]
    <3> HIDE DEF I, K
    <3> QED
      BY <1>1, <1>5, <1>6, PickedAlike
  <2> QED
    BY <1>10, <2>1
<1>12. IsSequence(R) /\ Map!Range(R) = {g[i] : i \in I}
  BY <1>5, <1>6, PickedPlaces, PickedRange
<1>13. IsSequence(w) /\ Map!Range(w) = {targets[i] : i \in K}
  BY <1>1, <1>6, PickedPlaces, PickedRange
<1> DEFINE usable == {x \in Map!Range(targets) : IsUsable(x, t)}
<1>14. usable = {targets[i] : i \in K}
  BY SameLists
<1>15. InUsePairs(Map!Range(R)) = {<<x.provider, x.model>> : x \in usable}
  <2>1. {x \in Map!Range(R) : Map!Enabled(x.provider)} = {g[i] : i \in K}
    <3>1. \A i \in DOMAIN g : i \in K <=> i \in I /\ Map!Enabled(g[i].provider)
      BY <1>9, SameLists
    <3> QED
      BY <1>6, <1>12, <3>1
  <2>2. InUsePairs(Map!Range(R)) = {<<g[i].provider, g[i].model>> : i \in K}
    BY <2>1 DEF InUsePairs
  <2>3. \A i \in K : g[i].provider = targets[i].provider /\ g[i].model = targets[i].model
    BY <1>4, <1>6
  <2> QED
    BY <1>14, <2>2, <2>3
<1>16. \A x \in usable : Map!Route(x.provider, x.model) \in Map!Range(R)
  <2> SUFFICES ASSUME NEW i \in K PROVE Map!Route(targets[i].provider, targets[i].model) \in Map!Range(R)
    BY <1>14
  <2>1. Map!Exists(targets[i].provider) /\ i \in I
    BY <1>9 DEF IsUsable, Map!Enabled
  <2> QED
    BY <1>4, <1>6, <1>12, <2>1
<1> HIDE DEF w, used, I, J, K, R
<1>17. IsSequence(U) /\ DOMAIN U = DOMAIN w /\ \A k \in DOMAIN w : U[k] = Resolved(w[k])
  BY <1>3, <1>13, MappedList
<1> HIDE DEF U
<1>18. Map!Range(U) = {Resolved(x) : x \in usable}
  <2>1. Map!Range(U) = {Resolved(w[k]) : k \in DOMAIN w}
    BY <1>17, SameLists
  <2>2. {w[k] : k \in DOMAIN w} = usable
    BY <1>13, <1>14, SameLists
  <2> QED
    BY <2>1, <2>2
<1>19. [i \in DOMAIN used |-> <<used[i].provider, used[i].model>>] = Sent(U)
  <2>1. \A k \in DOMAIN U : used[k].provider = U[k].channel /\ used[k].model = U[k].resolved
    <3> SUFFICES ASSUME NEW k \in DOMAIN U
                 PROVE  used[k].provider = U[k].channel /\ used[k].model = U[k].resolved
      OBVIOUS
    <3>1. PICK i \in K : used[k] = g[i] /\ w[k] = targets[i]
      BY <1>11, <1>17
    <3>2. g[i].provider = targets[i].provider /\ g[i].model = targets[i].model
      BY <1>4, <1>6, <3>1
    <3>3. U[k] = Resolved(targets[i])
      BY <1>11, <1>17, <3>1
    <3> QED
      BY <3>1, <3>2, <3>3 DEF Resolved
  <2> QED
    BY <1>11, <1>17, <2>1 DEF Sent
<1> QED
  BY <1>2, <1>12, <1>15, <1>16, <1>17, <1>18, <1>19 DEF targets, U

(* Routes that carry the model they ask for. *)
SentPairs(S) == {<<r.channel, r.resolved>> : r \in S}
CarryModels(S) == \A r \in S : r.resolved \in RoutedName

LEMMA ResolvedPairs ==
  ASSUME NEW S
  PROVE  SentPairs({Resolved(x) : x \in S}) = {<<x.provider, x.model>> : x \in S}
<1>1. \A x : Resolved(x).channel = x.provider /\ Resolved(x).resolved = x.model
  BY DEF Resolved
<1> QED
  BY <1>1 DEF SentPairs

(* Every model of every channel, on both sides. *)
Offering(t) == {c \in Present : Map!Direct(c) /\ channels[c].type = t}

LEMMA AnyRoutes ==
  ASSUME MapInv, NEW t
  PROVE  LET A == Map!AnyModelRoutes(t)
             B == Map!ResolveRoutesForAnyModelFallback(t) IN
         /\ IsSequence(A) /\ IsSequence(B)
         /\ \A r : r \in Map!Range(A) <=>
              \E c \in Offering(t) : \E n \in Map!Range(channels[c].models) : r = Map!Route(c, n)
         /\ \A r : r \in Map!Range(B) <=>
              \E c \in Offering(t) : \E n \in Map!Range(channels[c].models) :
                r = [channel |-> c, resolved |-> n]
<1> DEFINE s(rank) == Map!Sorted(rank)
           I == {i \in DOMAIN s(LocaleRank) : Map!Direct(s(LocaleRank)[i])}
           p == Map!Picked(s(LocaleRank), I)
           J == {i \in DOMAIN s(ByteRank) :
                   Map!Direct(s(ByteRank)[i]) /\ channels[s(ByteRank)[i]].type = t}
           q == Map!Picked(s(ByteRank), J)
           each == [i \in DOMAIN p |->
                      [j \in DOMAIN channels[p[i]].models |-> Map!Route(p[i], channels[p[i]].models[j])]]
           rows == [i \in DOMAIN q |->
                      [j \in DOMAIN channels[q[i]].models |->
                         [channel |-> q[i], resolved |-> channels[q[i]].models[j]]]]
           all == Map!Joined(each)
           K == {k \in DOMAIN all : all[k].type = t}
           A == Map!Picked(all, K)
           B == Map!Joined(rows)
<1>1. A = Map!AnyModelRoutes(t) /\ B = Map!ResolveRoutesForAnyModelFallback(t)
  BY DEF Map!AnyModelRoutes, Map!OfType, Map!Where, Map!SortProvidersByRoutingPriority,
         Map!ResolveRoutesForAnyModelFallback
<1>2. \A rank : IsRank(rank) => IsSequence(s(rank)) /\ Map!Range(s(rank)) = Present
  BY SortedChannels DEF Present
<1>3. IsRank(LocaleRank) /\ IsRank(ByteRank)
  BY MapAssumption
<1>4. IsSequence(p) /\ Map!Range(p) = {c \in Present : Map!Direct(c)}
  <2>1. IsSequence(p) /\ Map!Range(p) = {s(LocaleRank)[i] : i \in I}
    BY <1>2, <1>3, PickedPlaces, PickedRange
  <2>2. {s(LocaleRank)[i] : i \in DOMAIN s(LocaleRank)} = Present
    BY <1>2, <1>3, SameLists
  <2> QED
    BY <2>1, <2>2
<1>5. IsSequence(q) /\ Map!Range(q) = Offering(t)
  <2>1. IsSequence(q) /\ Map!Range(q) = {s(ByteRank)[i] : i \in J}
    BY <1>2, <1>3, PickedPlaces, PickedRange
  <2>2. {s(ByteRank)[i] : i \in DOMAIN s(ByteRank)} = Present
    BY <1>2, <1>3, SameLists
  <2> QED
    BY <2>1, <2>2 DEF Offering
<1>6. \A c \in Present : IsSequence(channels[c].models)
  BY MapTypes DEF Present
<1>7. /\ \A i \in DOMAIN p : p[i] \in Present /\ Map!Direct(p[i])
      /\ \A c \in Present : Map!Direct(c) => \E i \in DOMAIN p : p[i] = c
  BY <1>4, SameLists
<1>8. /\ \A i \in DOMAIN q : q[i] \in Offering(t) /\ q[i] \in Present
      /\ \A c \in Offering(t) : \E i \in DOMAIN q : q[i] = c
  BY <1>5, SameLists DEF Offering
<1> HIDE DEF p, q, I, J
<1>9. AreSequences(each)
  <2>1. IsSequence(each) /\ DOMAIN each = DOMAIN p
    BY <1>4, MappedList
  <2>2. ASSUME NEW i \in DOMAIN p
        PROVE  IsSequence(each[i])
    <3>1. IsSequence(channels[p[i]].models)
      BY <1>6, <1>7
    <3> QED
      BY <3>1, MappedList
  <2> QED
    BY <2>1, <2>2 DEF AreSequences
<1>10. AreSequences(rows)
  <2>1. IsSequence(rows) /\ DOMAIN rows = DOMAIN q
    BY <1>5, MappedList
  <2>2. ASSUME NEW i \in DOMAIN q
        PROVE  IsSequence(rows[i])
    <3>1. IsSequence(channels[q[i]].models)
      BY <1>6, <1>8
    <3> QED
      BY <3>1, MappedList
  <2> QED
    BY <2>1, <2>2 DEF AreSequences
<1>11. \A i \in DOMAIN each : \A r : r \in Map!Range(each[i]) <=>
         \E n \in Map!Range(channels[p[i]].models) : r = Map!Route(p[i], n)
  BY SameLists
<1>12. \A i \in DOMAIN rows : \A r : r \in Map!Range(rows[i]) <=>
         \E n \in Map!Range(channels[q[i]].models) : r = [channel |-> q[i], resolved |-> n]
  BY SameLists
<1>13. DOMAIN each = DOMAIN p /\ DOMAIN rows = DOMAIN q
  OBVIOUS
<1> HIDE DEF each, rows
<1>14. /\ IsSequence(all)
       /\ \A r : r \in Map!Range(all) <=> \E i \in DOMAIN each : r \in Map!Range(each[i])
  BY <1>9, JoinedElements
<1>15. /\ IsSequence(B)
       /\ \A r : r \in Map!Range(B) <=> \E i \in DOMAIN rows : r \in Map!Range(rows[i])
  BY <1>10, JoinedElements
<1> HIDE DEF all, B
<1>16. IsSequence(A) /\ Map!Range(A) = {r \in Map!Range(all) : r.type = t}
  <2>1. IsSequence(A) /\ Map!Range(A) = {all[k] : k \in K}
    BY <1>14, PickedPlaces, PickedRange
  <2> QED
    BY <2>1, SameLists
<1> HIDE DEF A
<1>17. ASSUME NEW r
       PROVE  r \in Map!Range(A) <=>
                \E c \in Offering(t) : \E n \in Map!Range(channels[c].models) : r = Map!Route(c, n)
  <2>1. \A c, n : Map!Route(c, n).type = channels[c].type
    BY DEF Map!Route
  <2>2. r \in Map!Range(all) <=>
          \E i \in DOMAIN p : \E n \in Map!Range(channels[p[i]].models) : r = Map!Route(p[i], n)
    BY <1>11, <1>13, <1>14
  <2>3. r \in Map!Range(all) <=>
          \E c \in Present : Map!Direct(c) /\ \E n \in Map!Range(channels[c].models) : r = Map!Route(c, n)
    BY <1>7, <2>2
  <2> QED
    BY <1>16, <2>1, <2>3 DEF Offering
<1>18. ASSUME NEW r
       PROVE  r \in Map!Range(B) <=>
                \E c \in Offering(t) : \E n \in Map!Range(channels[c].models) :
                  r = [channel |-> c, resolved |-> n]
  BY <1>8, <1>12, <1>13, <1>15
<1> QED
  BY <1>1, <1>15, <1>16, <1>17, <1>18

LEMMA EmptyList == IsSequence(<<>>) /\ Map!Range(<<>>) = {}
<1>1. <<>> \in Seq({}) /\ DOMAIN <<>> = {}
  OBVIOUS
<1> QED
  BY <1>1, SequenceOf, SameLists

LEMMA OneElement == \A e : IsSequence(<<e>>) /\ Map!Range(<<e>>) = {e}
<1> SUFFICES ASSUME NEW e PROVE IsSequence(<<e>>) /\ Map!Range(<<e>>) = {e}
  OBVIOUS
<1>1. <<e>> \in Seq({e}) /\ DOMAIN <<e>> = {1} /\ <<e>>[1] = e
  OBVIOUS
<1> QED
  BY <1>1, SequenceOf, SameLists

(* One fallback of a rule, on both sides. *)
LEMMA FallbackRoute ==
  ASSUME MapInv, NEW f, f.provider \in RoutedChannel \cup {None}, f.name \in RoutedName, NEW t
  PROVE  LET S == Map!ResolveFallbackTarget(f, t)
             T == Map!ResolveFallback(f, t) IN
         /\ IsSequence(S) /\ IsSequence(T) /\ CarryModels(Map!Range(T))
         /\ InUsePairs(Map!Range(S)) = SentPairs(Map!Range(T))
<1> DEFINE S == Map!ResolveFallbackTarget(f, t)
           T == Map!ResolveFallback(f, t)
<1>1. \A R : R = {} => InUsePairs(R) = {} /\ SentPairs(R) = {}
  BY DEF InUsePairs, SentPairs
<1>2. CASE f.provider = None /\ Map!IsAlias(f.name)
  <2> DEFINE a == f.name
             usable == {x \in Map!Range(aliases[a].targets) : IsUsable(x, t)}
             R == Map!OfType(Map!GetAliasRoutes(a), t)
             U == Map!ResolveExplicitTargets(aliases[a].targets, t)
  <2>1. a \in RoutedName /\ aliases[a] # None /\ aliases[a].enabled
    BY <1>2 DEF Map!IsAlias
  <2>2. T = U /\ S = IF Map!IsAliasRoutable(a) THEN R ELSE <<>>
    BY <1>2 DEF Map!ResolveFallbackTarget, Map!ResolveFallback
  <2>3. /\ IsSequence(R) /\ IsSequence(U) /\ Map!Range(U) = {Resolved(x) : x \in usable}
        /\ InUsePairs(Map!Range(R)) = {<<x.provider, x.model>> : x \in usable}
    BY <2>1, AliasRoutes
  <2>4. SentPairs(Map!Range(U)) = {<<x.provider, x.model>> : x \in usable}
    BY <2>3, ResolvedPairs
  <2>5. CarryModels(Map!Range(U))
    <3>1. \A x \in usable : x.model \in RoutedName
      BY <2>1, MapTypes, SameLists
    <3> QED
      BY <2>3, <3>1 DEF CarryModels, Resolved
  <2>6. ~Map!IsAliasRoutable(a) => usable = {}
    BY <2>1 DEF Map!IsAliasRoutable, IsUsable
  <2> HIDE DEF usable, R, U
  <2>7. IsSequence(S)
    BY <2>2, <2>3, EmptyList
  <2>8. InUsePairs(Map!Range(S)) = SentPairs(Map!Range(T))
    <3>1. CASE Map!IsAliasRoutable(a)
      BY <2>2, <2>3, <2>4, <3>1
    <3>2. CASE ~Map!IsAliasRoutable(a)
      <4>1. {<<x.provider, x.model>> : x \in usable} = {}
        BY <2>6, <3>2
      <4> QED
        BY <1>1, <2>2, <2>4, <3>2, <4>1, EmptyList
    <3> QED
      BY <3>1, <3>2
  <2> QED
    BY <2>2, <2>3, <2>5, <2>7, <2>8
<1>3. CASE f.provider = None /\ ~Map!IsAlias(f.name)
  <2>1. S = <<>> /\ T = <<>>
    BY <1>3 DEF Map!ResolveFallbackTarget, Map!ResolveFallback, Map!IsAliasRoutable, Map!IsAlias
  <2> QED
    BY <1>1, <2>1, EmptyList DEF CarryModels
<1>4. CASE f.provider # None
  <2> DEFINE serves == /\ Map!Enabled(f.provider) /\ channels[f.provider].type = t
                       /\ Map!Lists(f.provider, f.name)
             r == Map!Route(f.provider, f.name)
             u == [channel |-> f.provider, resolved |-> f.name]
  <2>1. CASE serves
    <3>1. S = <<r>> /\ T = <<u>>
      BY <1>4, <2>1 DEF Map!ResolveFallbackTarget, Map!ResolveFallback
    <3>2. r.provider = f.provider /\ r.model = f.name
      BY DEF Map!Route
    <3> HIDE DEF r
    <3>3. InUsePairs({r}) = {<<r.provider, r.model>>}
      BY <2>1, <3>2 DEF InUsePairs
    <3>4. SentPairs({u}) = {<<u.channel, u.resolved>>}
      BY DEF SentPairs
    <3>5. IsSequence(S) /\ IsSequence(T) /\ Map!Range(S) = {r} /\ Map!Range(T) = {u}
      BY <3>1, OneElement
    <3>6. CarryModels({u})
      BY DEF CarryModels
    <3> QED
      BY <3>2, <3>3, <3>4, <3>5, <3>6
  <2>2. CASE ~serves
    <3>1. S = <<>> /\ T = <<>>
      BY <1>4, <2>2 DEF Map!ResolveFallbackTarget, Map!ResolveFallback
    <3> QED
      BY <1>1, <3>1, EmptyList DEF CarryModels
  <2> QED
    BY <2>1, <2>2
<1> QED
  BY <1>2, <1>3, <1>4

(* The rules of a model, on both sides. *)
LEMMA CustomLists ==
  ASSUME MapInv, NEW m, NEW t
  PROVE  LET C == Map!CustomRoutes(m, t)
             D == Map!ResolveRoutesForFallbackModels(m, t) IN
         /\ IsSequence(C) /\ IsSequence(D) /\ CarryModels(Map!Range(D))
         /\ Map!OneRule(m) => InUsePairs(Map!Range(C)) = SentPairs(Map!Range(D))
         /\ Map!CustomFallbacksByModel(m) = <<>> => C = <<>>
<1> DEFINE I == {k \in DOMAIN policy.custom : policy.custom[k].model = m}
           rules == Map!Picked(policy.custom, I)
           to == Map!CustomFallbacksByModel(m)
           of == Map!CustomFallbackModels(m)
           each == [i \in DOMAIN to |-> Map!ResolveFallbackTarget(to[i], t)]
           rows == [i \in DOMAIN of |-> Map!ResolveFallback(of[i], t)]
           C == Map!Joined(each)
           D == Map!Joined(rows)
<1>1. /\ to = IF rules = <<>> THEN <<>> ELSE rules[Len(rules)].fallbacks
      /\ of = IF rules = <<>> THEN <<>> ELSE Head(rules).fallbacks
      /\ Map!OneRule(m) <=> Len(rules) <= 1
  BY DEF Map!CustomFallbacksByModel, Map!CustomFallbackModels, Map!OneRule, Map!Where
<1>2. C = Map!CustomRoutes(m, t) /\ Map!Distinct(D) = Map!ResolveRoutesForFallbackModels(m, t)
  BY DEF Map!CustomRoutes, Map!ResolveRoutesForFallbackModels
<1>3. IsSequence(rules) /\ \A k \in DOMAIN rules : AreFallbacks(rules[k].fallbacks)
  <2>1. IsSequence(policy.custom) /\ \A k \in DOMAIN policy.custom : AreFallbacks(policy.custom[k].fallbacks)
    BY MapTypes
  <2>2. IsSequence(rules) /\ Map!Range(rules) = {policy.custom[k] : k \in I}
    BY <2>1, PickedPlaces, PickedRange
  <2> QED
    BY <2>1, <2>2, SameLists
<1>4. /\ DOMAIN rules = 1..Len(rules) /\ Len(rules) \in Nat /\ (rules # <<>> => Len(rules) > 0)
      /\ rules # <<>> => Head(rules) = rules[1]
  <2>1. DOMAIN rules = 1..Len(rules) /\ Len(rules) \in Nat
    BY <1>3, SequenceOf DEF IsSequence
  <2>2. rules # <<>> => Len(rules) # 0
    BY <1>3, EmptySeq DEF IsSequence
  <2> QED
    BY <2>1, <2>2
<1> HIDE DEF rules, to, of
<1>5. AreFallbacks(to) /\ AreFallbacks(of) /\ (Map!OneRule(m) => to = of)
  <2>1. CASE rules = <<>>
    BY <1>1, <2>1, EmptyList DEF AreFallbacks
  <2>2. CASE rules # <<>>
    <3>1. 1 \in DOMAIN rules /\ Len(rules) \in DOMAIN rules
      BY <1>4, <2>2
    <3>2. Len(rules) <= 1 => Len(rules) = 1
      BY <1>4, <2>2
    <3> QED
      BY <1>1, <1>3, <1>4, <2>2, <3>1, <3>2
  <2> QED
    BY <2>1, <2>2
<1>6. \A i \in DOMAIN to : LET S == Map!ResolveFallbackTarget(to[i], t)
                               T == Map!ResolveFallback(to[i], t) IN
        IsSequence(S) /\ InUsePairs(Map!Range(S)) = SentPairs(Map!Range(T))
  BY <1>5, FallbackRoute DEF AreFallbacks
<1>7. \A i \in DOMAIN of : LET T == Map!ResolveFallback(of[i], t) IN
        IsSequence(T) /\ CarryModels(Map!Range(T))
  BY <1>5, FallbackRoute DEF AreFallbacks
<1>8. AreSequences(each) /\ AreSequences(rows)
  <2>1. IsSequence(each) /\ IsSequence(rows)
    BY <1>5, MappedList DEF AreFallbacks
  <2> QED
    BY <1>6, <1>7, <2>1 DEF AreSequences
<1>9. /\ DOMAIN each = DOMAIN to /\ \A i \in DOMAIN to : each[i] = Map!ResolveFallbackTarget(to[i], t)
      /\ DOMAIN rows = DOMAIN of /\ \A i \in DOMAIN of : rows[i] = Map!ResolveFallback(of[i], t)
  OBVIOUS
<1>10. to = <<>> => each = <<>>
  <2>1. to = <<>> => DOMAIN each = {}
    OBVIOUS
  <2>2. to = <<>> => Len(each) = 0
    BY <1>8, <2>1, SequenceOf DEF AreSequences, IsSequence
  <2> QED
    BY <1>8, <2>2, EmptySeq DEF AreSequences, IsSequence
<1> HIDE DEF each, rows
<1>11. /\ IsSequence(C)
       /\ \A e : e \in Map!Range(C) <=> \E i \in DOMAIN each : e \in Map!Range(each[i])
  BY <1>8, JoinedElements
<1>12. /\ IsSequence(D)
       /\ \A e : e \in Map!Range(D) <=> \E i \in DOMAIN rows : e \in Map!Range(rows[i])
  BY <1>8, JoinedElements
<1> HIDE DEF C, D
<1>13. IsSequence(Map!Distinct(D)) /\ Map!Range(Map!Distinct(D)) = Map!Range(D)
  BY <1>12, DistinctElements
<1>14. CarryModels(Map!Range(D))
  BY <1>7, <1>9, <1>12 DEF CarryModels
<1>15. ASSUME Map!OneRule(m)
       PROVE  InUsePairs(Map!Range(C)) = SentPairs(Map!Range(D))
  <2>1. \A i \in DOMAIN to : InUsePairs(Map!Range(each[i])) = SentPairs(Map!Range(rows[i]))
    BY <1>5, <1>6, <1>9, <1>15
  <2>2. \A e : e \in InUsePairs(Map!Range(C)) <=>
                 \E i \in DOMAIN to : e \in InUsePairs(Map!Range(each[i]))
    BY <1>9, <1>11 DEF InUsePairs
  <2>3. \A e : e \in SentPairs(Map!Range(D)) <=>
                 \E i \in DOMAIN to : e \in SentPairs(Map!Range(rows[i]))
    BY <1>5, <1>9, <1>12, <1>15 DEF SentPairs
  <2> QED
    BY <2>1, <2>2, <2>3
<1>16. to = <<>> => C = <<>>
  <2> SUFFICES ASSUME to = <<>> PROVE C = <<>>
    OBVIOUS
  <2>1. Map!Range(C) = {}
    BY <1>9, <1>11
  <2>2. DOMAIN C = {} /\ DOMAIN C = 1..Len(C) /\ Len(C) \in Nat
    BY <1>11, <2>1, SequenceOf, SameLists DEF IsSequence
  <2>3. Len(C) = 0
    BY <2>2
  <2> QED
    BY <1>11, <2>3, EmptySeq DEF IsSequence
<1> QED
  BY <1>2, <1>11, <1>13, <1>14, <1>15, <1>16 DEF to

(* The pairs that the gateway asks its upstreams for. *)
AskedPairs(S, m) == {Map!Asked(r, m) : r \in S}

LEMMA AskedAsCarried ==
  ASSUME NEW S, CarryModels(S), NEW m
  PROVE  AskedPairs(S, m) = SentPairs(S)
<1>1. \A r \in S : Map!Asked(r, m) = <<r.channel, r.resolved>>
  BY MapAssumption DEF CarryModels, Map!Asked
<1> QED
  BY <1>1 DEF AskedPairs, SentPairs

LEMMA PairsOfUnion ==
  /\ \A R, S : InUsePairs(R \cup S) = InUsePairs(R) \cup InUsePairs(S)
  /\ \A R, S : R \subseteq S => InUsePairs(R) \subseteq InUsePairs(S)
  /\ \A R, S, m : AskedPairs(R \cup S, m) = AskedPairs(R, m) \cup AskedPairs(S, m)
  /\ InUsePairs({}) = {} /\ \A m : AskedPairs({}, m) = {}
BY DEF InUsePairs, AskedPairs

LEMMA NothingListed == \A s : IsSequence(s) /\ Map!Range(s) = {} => s = <<>>
<1> SUFFICES ASSUME NEW s, IsSequence(s), Map!Range(s) = {} PROVE s = <<>>
  OBVIOUS
<1>1. DOMAIN s = 1..Len(s) /\ Len(s) \in Nat /\ DOMAIN s = {}
  BY SequenceOf, SameLists DEF IsSequence
<1>2. Len(s) = 0
  BY <1>1
<1> QED
  BY <1>2, EmptySeq DEF IsSequence

LEMMA FittingPairs ==
  ASSUME NEW m, NEW t
  PROVE  InUsePairs({Map!Route(c, m) : c \in Fitting(m, t)}) = {<<c, m>> : c \in Fitting(m, t)}
<1>1. /\ \A c : Map!Route(c, m).provider = c /\ Map!Route(c, m).model = m
      /\ \A c \in Fitting(m, t) : Map!Enabled(c)
  BY DEF Map!Route, Fitting, Map!Direct
<1> QED
  BY <1>1 DEF InUsePairs

(* Why a model has routes: an alias with a target in use, or a channel. *)
ByAlias(m, t) ==
  /\ Map!MatchedAlias(m, t) /\ m \in RoutedName /\ aliases[m] # None
  /\ Map!ResolveRoutesByModel(m, t) = Map!Distinct(Map!ResolveExplicitTargets(aliases[m].targets, t))
ByChannel(m, t) ==
  /\ ~Map!MatchedAlias(m, t) /\ Fitting(m, t) # {}
  /\ Map!ResolveRoutesByModel(m, t) = Map!FindRoutesByModel(m, t)

LEMMA ServedFitting == \A m, t : Map!ServedDirectly(m, t) <=> Fitting(m, t) # {}
BY DEF Map!ServedDirectly, Fitting, Present, Map!Direct, Map!Enabled

LEMMA TargetMatches ==
  ASSUME MapInv, NEW m \in RoutedName, NEW t, Map!IsAlias(m),
         NEW x \in Map!Range(aliases[m].targets), IsUsable(x, t)
  PROVE  Map!MatchedAlias(m, t)
<1>1. Map!Route(x.provider, x.model) \in Map!Range(Map!OfType(Map!GetAliasRoutes(m), t))
  BY AliasRoutes DEF Map!IsAlias
<1>2. Map!OfType(Map!GetAliasRoutes(m), t) # <<>>
  BY <1>1, EmptyList
<1> QED
  BY <1>2 DEF Map!MatchedAlias, Map!IsAliasRoutable, Map!IsAlias, IsUsable

LEMMA WhyServed ==
  ASSUME MapInv, NEW m \in RoutedName, NEW t, Map!Comparable(m, t)
  PROVE  /\ ByAlias(m, t) \/ ByChannel(m, t)
         /\ Map!ResolveRoutesByModel(m, t) # <<>>
<1>1. CASE Map!MatchedAlias(m, t)
  <2>1. Map!IsAlias(m)
    BY <1>1 DEF Map!MatchedAlias, Map!IsAliasRoutable, Map!IsAlias
  <2> QED
    BY <1>1, <2>1 DEF ByAlias, Map!IsAlias, Map!ResolveRoutesByModel, Map!Comparable, Map!Refused
<1>2. CASE ~Map!MatchedAlias(m, t)
  <2>1. Fitting(m, t) # {}
    BY <1>2, ServedFitting DEF Map!Comparable, Map!IsRequestModel
  <2>2. ~Map!IsAlias(m)
    <3> SUFFICES ASSUME Map!IsAlias(m) PROVE FALSE
      OBVIOUS
    <3> DEFINE U == Map!ResolveExplicitTargets(aliases[m].targets, t)
    <3>1. Map!Distinct(U) # <<>> /\ aliases[m] # None
      BY DEF Map!Comparable, Map!Refused, Map!ResolveRoutesByModel, Map!IsAlias
    <3>2. IsSequence(U) /\ \A x \in Map!Range(aliases[m].targets) : ~IsUsable(x, t)
      BY <1>2, <3>1, TargetMatches, AliasRoutes
    <3>3. Map!Range(U) = {}
      <4> DEFINE usable == {x \in Map!Range(aliases[m].targets) : IsUsable(x, t)}
      <4>1. Map!Range(U) = {Resolved(x) : x \in usable}
        BY <3>1, AliasRoutes
      <4>2. usable = {}
        BY <3>2
      <4> QED
        BY <4>1, <4>2
    <3> HIDE DEF U
    <3>4. U = <<>>
      BY <3>2, <3>3, NothingListed
    <3> QED
      BY <3>1, <3>2, <3>4, DistinctElements
  <2>3. Map!ResolveRoutesByModel(m, t) = Map!FindRoutesByModel(m, t)
    BY <2>2 DEF Map!ResolveRoutesByModel
  <2>4. Map!FindRoutesByModel(m, t) # <<>>
    <3>1. Map!Range(Map!FindRoutesByModel(m, t)) # {}
      BY <2>1, DirectRoutes
    <3> QED
      BY <3>1, EmptyList
  <2> QED
    BY <1>2, <2>1, <2>3, <2>4 DEF ByChannel
<1> QED
  BY <1>1, <1>2

AskedList(s, m) == [i \in DOMAIN s |-> Map!Asked(s[i], m)]

(* The routes that the gateway starts with. *)
LEMMA InitialRoutes ==
  ASSUME MapInv, NEW m \in RoutedName, NEW t, Map!Comparable(m, t)
  PROVE  LET initial == Map!ResolveRoutesByModel(m, t) IN
         /\ IsSequence(initial) /\ initial # <<>> /\ IsOnce(AskedList(initial, m))
         /\ IsSequence(AskedList(initial, m)) /\ AskedList(initial, m) # <<>>
         /\ Map!Range(AskedList(initial, m)) = AskedPairs(Map!Range(initial), m)
         /\ ByAlias(m, t) => Map!InUse(Map!PrimaryRoutes(m, t)) = AskedList(initial, m)
         /\ ByChannel(m, t) => AskedPairs(Map!Range(initial), m) = {<<c, m>> : c \in Fitting(m, t)}
<1> DEFINE initial == Map!ResolveRoutesByModel(m, t)
           asks == AskedList(initial, m)
<1>1. initial # <<>> /\ (ByAlias(m, t) \/ ByChannel(m, t))
  BY WhyServed
<1>2. ASSUME ByAlias(m, t)
      PROVE  IsSequence(initial) /\ IsOnce(asks) /\ Map!InUse(Map!PrimaryRoutes(m, t)) = asks
  <2> DEFINE U == Map!ResolveExplicitTargets(aliases[m].targets, t)
             X == Sent(U)
             usable == {x \in Map!Range(aliases[m].targets) : IsUsable(x, t)}
  <2>1. /\ IsSequence(U) /\ Map!Range(U) = {Resolved(x) : x \in usable}
        /\ Map!InUse(Map!OfType(Map!GetAliasRoutes(m), t)) = Map!Distinct(X)
    BY <1>2, AliasRoutes DEF ByAlias
  <2>2. /\ initial = Map!Distinct(U)
        /\ Map!PrimaryRoutes(m, t) = Map!OfType(Map!GetAliasRoutes(m), t)
    BY <1>2 DEF ByAlias, Map!PrimaryRoutes
  <2>3. \A i \in DOMAIN U : \E x : U[i] = Resolved(x) /\ x.model # None
    <3>1. \A x \in Map!Range(aliases[m].targets) : x.model \in RoutedName
      BY <1>2, MapTypes, SameLists DEF ByAlias
    <3>2. \A i \in DOMAIN U : U[i] \in Map!Range(U)
      BY SameLists
    <3> QED
      BY <2>1, <3>1, <3>2, MapAssumption
  <2> HIDE DEF U
  <2>4. IsSequence(X) /\ DOMAIN X = DOMAIN U /\ \A i \in DOMAIN U : X[i] = <<U[i].channel, U[i].resolved>>
    BY <2>1, MappedList DEF Sent
  <2>5. \A i, j \in DOMAIN U : U[i] = U[j] <=> X[i] = X[j]
    BY <2>3, <2>4 DEF Resolved
  <2> HIDE DEF X
  <2>6. /\ DOMAIN Map!Distinct(U) = DOMAIN Map!Distinct(X)
        /\ \A k \in DOMAIN Map!Distinct(U) : \E i \in DOMAIN U :
             Map!Distinct(U)[k] = U[i] /\ Map!Distinct(X)[k] = X[i]
    BY <2>1, <2>4, <2>5, DistinctAlike
  <2>7. \A i \in DOMAIN U : Map!Asked(U[i], m) = X[i]
    BY <2>3, <2>4 DEF Resolved, Map!Asked
  <2>8. IsSequence(initial) /\ IsSequence(Map!Distinct(X)) /\ IsOnce(Map!Distinct(X))
    BY <2>1, <2>2, <2>4, DistinctElements
  <2>9. Map!Distinct(X) = [k \in DOMAIN Map!Distinct(X) |-> Map!Distinct(X)[k]]
    <3>1. \A s : IsSequence(s) => s = [k \in DOMAIN s |-> s[k]]
      BY LenProperties DEF IsSequence
    <3> QED
      BY <2>8, <3>1
  <2>10. asks = Map!Distinct(X)
    BY <2>2, <2>6, <2>7, <2>9 DEF AskedList
  <2> QED
    BY <2>1, <2>2, <2>8, <2>10
<1>3. ASSUME ByChannel(m, t)
      PROVE  /\ IsSequence(initial) /\ IsOnce(asks)
             /\ AskedPairs(Map!Range(initial), m) = {<<c, m>> : c \in Fitting(m, t)}
  <2>1. /\ IsSequence(initial) /\ IsOnce(initial)
        /\ Map!Range(initial) = {Found(c) : c \in Fitting(m, t)}
    BY <1>3, DirectRoutes DEF ByChannel
  <2>2. \A c : Map!Asked(Found(c), m) = <<c, m>>
    BY DEF Found, Map!Asked
  <2>3. \A i \in DOMAIN initial : \E c : initial[i] = Found(c)
    BY <2>1, SameLists
  <2> HIDE DEF initial
  <2>4. IsOnce(asks)
    BY <2>1, <2>2, <2>3 DEF IsOnce, AskedList
  <2>5. AskedPairs(Map!Range(initial), m) = {Map!Asked(Found(c), m) : c \in Fitting(m, t)}
    BY <2>1 DEF AskedPairs
  <2> QED
    BY <2>1, <2>2, <2>4, <2>5
<1> HIDE DEF initial
<1>4. IsSequence(initial)
  BY <1>1, <1>2, <1>3
<1>5. IsSequence(asks) /\ DOMAIN asks = DOMAIN initial
  BY <1>4, MappedList DEF AskedList
<1>6. Map!Range(asks) = AskedPairs(Map!Range(initial), m)
  BY SameLists DEF AskedList, AskedPairs
<1>7. asks # <<>>
  <2>1. DOMAIN initial # {}
    BY <1>1, <1>4, NothingListed, SameLists
  <2> QED
    BY <1>5, <2>1
<1> QED
  BY <1>1, <1>2, <1>3, <1>4, <1>5, <1>6, <1>7 DEF initial

GatewaySite(m, t) ==
  CASE policy.mode = "any_model"  -> Map!ResolveRoutesForAnyModelFallback(t)
    [] policy.mode = "same_model" -> Map!ResolveRoutesByModel(m, t)
    [] policy.mode = "disabled"   -> <<>>

(* The fallbacks of the site, on both sides. *)
LEMMA SiteRoutes ==
  ASSUME MapInv, NEW m \in RoutedName, NEW t, Map!Comparable(m, t)
  PROVE  LET S == Map!SitePolicyRoutes(m, t)
             T == GatewaySite(m, t) IN
         /\ IsSequence(S) /\ IsSequence(T)
         /\ InUsePairs(Map!Range(S)) = AskedPairs(Map!Range(T), m)
         /\ ByChannel(m, t) /\ policy.mode # "disabled" =>
              \A c \in Fitting(m, t) : Map!Route(c, m) \in Map!Range(S)
<1> DEFINE S == Map!SitePolicyRoutes(m, t)
           T == GatewaySite(m, t)
<1>1. policy.mode \in {"any_model", "same_model", "disabled"}
  BY MapTypes
<1>2. CASE policy.mode = "any_model"
  <2> DEFINE A == Map!AnyModelRoutes(t)
             B == Map!ResolveRoutesForAnyModelFallback(t)
  <2>1. S = A /\ T = B
    BY <1>2 DEF Map!SitePolicyRoutes, GatewaySite
  <2>2. /\ IsSequence(A) /\ IsSequence(B)
        /\ \A r : r \in Map!Range(A) <=>
             \E c \in Offering(t) : \E n \in Map!Range(channels[c].models) : r = Map!Route(c, n)
        /\ \A r : r \in Map!Range(B) <=>
             \E c \in Offering(t) : \E n \in Map!Range(channels[c].models) :
               r = [channel |-> c, resolved |-> n]
    BY AnyRoutes
  <2>3. \A c \in Offering(t) : Map!Enabled(c) /\ \A n \in Map!Range(channels[c].models) : n # None
    BY MapTypes, MapAssumption DEF Offering, Present, Map!Direct
  <2> HIDE DEF A, B
  <2>4. \A e : e \in InUsePairs(Map!Range(A)) <=>
          \E c \in Offering(t) : \E n \in Map!Range(channels[c].models) : e = <<c, n>>
    <3>1. \A c, n : Map!Route(c, n).provider = c /\ Map!Route(c, n).model = n
      BY DEF Map!Route
    <3> QED
      BY <2>2, <2>3, <3>1 DEF InUsePairs
  <2>5. \A e : e \in AskedPairs(Map!Range(B), m) <=>
          \E c \in Offering(t) : \E n \in Map!Range(channels[c].models) : e = <<c, n>>
    <3>1. \A c \in Offering(t) : \A n \in Map!Range(channels[c].models) :
            Map!Asked([channel |-> c, resolved |-> n], m) = <<c, n>>
      BY <2>3 DEF Map!Asked
    <3>2. ASSUME NEW r \in Map!Range(B)
          PROVE  \E c \in Offering(t) : \E n \in Map!Range(channels[c].models) :
                   Map!Asked(r, m) = <<c, n>>
      BY <2>2, <3>1
    <3>3. ASSUME NEW c \in Offering(t), NEW n \in Map!Range(channels[c].models)
          PROVE  <<c, n>> \in AskedPairs(Map!Range(B), m)
      <4>1. [channel |-> c, resolved |-> n] \in Map!Range(B)
        BY <2>2
      <4> QED
        BY <3>1, <4>1 DEF AskedPairs
    <3> QED
      BY <3>2, <3>3 DEF AskedPairs
  <2>6. \A c \in Fitting(m, t) : Map!Route(c, m) \in Map!Range(A)
    BY <2>2 DEF Fitting, Offering, Map!Lists
  <2> QED
    BY <2>1, <2>2, <2>4, <2>5, <2>6
<1>3. CASE policy.mode = "same_model" /\ ByAlias(m, t)
  <2> DEFINE R == Map!PrimaryRoutes(m, t)
             I == Map!ResolveRoutesByModel(m, t)
  <2>1. S = R /\ T = I /\ R = Map!OfType(Map!GetAliasRoutes(m), t)
    BY <1>3 DEF Map!SitePolicyRoutes, GatewaySite, ByAlias, Map!PrimaryRoutes
  <2>2. IsSequence(R)
    BY <1>3, <2>1, AliasRoutes DEF ByAlias
  <2>3. /\ IsSequence(I) /\ Map!InUse(R) = AskedList(I, m)
        /\ Map!Range(AskedList(I, m)) = AskedPairs(Map!Range(I), m)
    BY <1>3, InitialRoutes
  <2>4. Map!Range(Map!InUse(R)) = InUsePairs(Map!Range(R))
    BY <2>2, InUseElements
  <2> QED
    BY <1>3, <2>1, <2>2, <2>3, <2>4 DEF ByAlias, ByChannel
<1>4. CASE policy.mode = "same_model" /\ ByChannel(m, t)
  <2> DEFINE G == Map!GetModelRoutes(m, t)
             I == Map!ResolveRoutesByModel(m, t)
  <2>1. S = G /\ T = I
    BY <1>4 DEF Map!SitePolicyRoutes, GatewaySite, ByChannel
  <2>2. IsSequence(G) /\ Map!Range(G) = {Map!Route(c, m) : c \in Fitting(m, t)}
    BY DirectRoutes
  <2>3. IsSequence(I) /\ AskedPairs(Map!Range(I), m) = {<<c, m>> : c \in Fitting(m, t)}
    BY <1>4, InitialRoutes
  <2>4. InUsePairs(Map!Range(G)) = {<<c, m>> : c \in Fitting(m, t)}
    BY <2>2, FittingPairs
  <2> QED
    BY <2>1, <2>2, <2>3, <2>4
<1>5. CASE policy.mode = "disabled"
  <2>1. S = <<>> /\ T = <<>>
    BY <1>5 DEF Map!SitePolicyRoutes, GatewaySite
  <2> QED
    BY <1>5, <2>1, EmptyList, PairsOfUnion
<1> QED
  BY <1>1, <1>2, <1>3, <1>4, <1>5, WhyServed

LEMMA SameLength ==
  ASSUME NEW s, IsSequence(s), NEW u, IsSequence(u), DOMAIN u = DOMAIN s
  PROVE  Len(u) = Len(s)
<1>1. /\ DOMAIN s = 1..Len(s) /\ Len(s) \in Nat /\ DOMAIN u = 1..Len(u) /\ Len(u) \in Nat
  BY SequenceOf DEF IsSequence
<1>2. \A m, n \in Nat : 1..m = 1..n => m = n
  <2> SUFFICES ASSUME NEW m \in Nat, NEW n \in Nat, 1..m = 1..n PROVE m = n
    OBVIOUS
  <2>1. (m # 0 => m \in 1..n) /\ (n # 0 => n \in 1..m)
    OBVIOUS
  <2> QED
    BY <2>1
<1> QED
  BY <1>1, <1>2

LEMMA BeginsTwice ==
  ASSUME NEW s, IsSequence(s), NEW u, IsSequence(u), NEW w, IsSequence(w),
         Map!Begins(s, u), Map!Begins(u, w)
  PROVE  Map!Begins(s, w)
<1>1. /\ DOMAIN s = 1..Len(s) /\ Len(s) \in Nat /\ DOMAIN u = 1..Len(u) /\ Len(u) \in Nat
      /\ DOMAIN w = 1..Len(w) /\ Len(w) \in Nat
  BY SequenceOf DEF IsSequence
<1>2. /\ Len(u) <= Len(s) /\ \A i \in DOMAIN u : s[i] = u[i]
      /\ Len(w) <= Len(u) /\ \A i \in DOMAIN w : u[i] = w[i]
  BY DEF Map!Begins
<1>3. \A i \in DOMAIN w : i \in DOMAIN u
  BY <1>1, <1>2
<1>4. Len(w) <= Len(s) /\ \A i \in DOMAIN w : s[i] = w[i]
  BY <1>1, <1>2, <1>3
<1> QED
  BY <1>4 DEF Map!Begins

(* Routes and what is asked of them. *)
LEMMA AskedElements ==
  ASSUME NEW s, IsSequence(s), NEW m
  PROVE  /\ IsSequence(AskedList(s, m)) /\ DOMAIN AskedList(s, m) = DOMAIN s
         /\ Map!Range(AskedList(s, m)) = AskedPairs(Map!Range(s), m)
         /\ IsOnce(AskedList(s, m)) => IsOnce(s)
<1>1. IsSequence(AskedList(s, m)) /\ DOMAIN AskedList(s, m) = DOMAIN s
  BY MappedList DEF AskedList
<1>2. Map!Range(AskedList(s, m)) = AskedPairs(Map!Range(s), m)
  BY SameLists DEF AskedList, AskedPairs
<1>3. IsOnce(AskedList(s, m)) => IsOnce(s)
  BY DEF IsOnce, AskedList
<1> QED
  BY <1>1, <1>2, <1>3

LEMMA AskedBegins ==
  ASSUME NEW s, IsSequence(s), NEW u, IsSequence(u), Map!Begins(s, u), NEW m
  PROVE  Map!Begins(AskedList(s, m), AskedList(u, m))
<1>1. /\ DOMAIN s = 1..Len(s) /\ Len(s) \in Nat /\ DOMAIN u = 1..Len(u) /\ Len(u) \in Nat
  BY SequenceOf DEF IsSequence
<1>2. Len(u) <= Len(s) /\ \A i \in DOMAIN u : s[i] = u[i] /\ i \in DOMAIN s
  BY <1>1 DEF Map!Begins
<1>3. Len(AskedList(s, m)) = Len(s) /\ Len(AskedList(u, m)) = Len(u)
  BY AskedElements, SameLength
<1>4. \A i \in DOMAIN u : AskedList(s, m)[i] = AskedList(u, m)[i]
  BY <1>2 DEF AskedList
<1> QED
  BY <1>2, <1>3, <1>4, AskedElements DEF Map!Begins

(* What the gateway tries: first the routes it starts with. *)
LEMMA TriedList ==
  ASSUME MapInv, NEW m \in RoutedName, NEW t, Map!Comparable(m, t)
  PROVE  LET initial == Map!ResolveRoutesByModel(m, t)
             D == Map!ResolveRoutesForFallbackModels(m, t)
             tried == Map!TriedRoutes(m, t) IN
         /\ IsSequence(tried) /\ Map!Begins(tried, AskedList(initial, m))
         /\ Map!Range(tried) = AskedPairs(Map!Range(initial), m) \cup
              IF policy.enabled /\ policy.max > 0
              THEN SentPairs(Map!Range(D)) \cup AskedPairs(Map!Range(GatewaySite(m, t)), m)
              ELSE {}
<1> DEFINE initial == Map!ResolveRoutesByModel(m, t)
           D == Map!ResolveRoutesForFallbackModels(m, t)
           site == GatewaySite(m, t)
           all == (initial \o D) \o site
           B == Map!BuildFailoverCandidates(m, t)
           tried == Map!TriedRoutes(m, t)
<1>1. /\ IsSequence(initial) /\ initial # <<>> /\ IsOnce(AskedList(initial, m))
      /\ IsOnce(initial)
  BY InitialRoutes, AskedElements
<1>2. IsSequence(D) /\ CarryModels(Map!Range(D)) /\ IsSequence(site)
  BY CustomLists, SiteRoutes
<1>3. policy.enabled \in BOOLEAN /\ policy.max \in Int
  BY MapTypes
<1>4. B = IF initial = <<>> \/ ~policy.enabled \/ policy.max <= 0 THEN initial ELSE Map!Distinct(all)
  BY DEF Map!BuildFailoverCandidates, GatewaySite
<1>5. tried = Map!Distinct(AskedList(B, m))
  BY DEF Map!TriedRoutes, AskedList
<1> HIDE DEF initial, D, site, B, tried
<1>6. /\ IsSequence(all) /\ Map!Begins(all, initial)
      /\ Map!Range(all) = Map!Range(initial) \cup (Map!Range(D) \cup Map!Range(site))
  <2>1. /\ IsSequence(initial \o D) /\ Map!Begins(initial \o D, initial)
        /\ Map!Range(initial \o D) = Map!Range(initial) \cup Map!Range(D)
    BY <1>1, <1>2, ConcatElements
  <2>2. /\ IsSequence(all) /\ Map!Begins(all, initial \o D)
        /\ Map!Range(all) = Map!Range(initial \o D) \cup Map!Range(site)
    BY <1>2, <2>1, ConcatElements
  <2> HIDE DEF all
  <2>3. Map!Begins(all, initial)
    BY <1>1, <2>1, <2>2, BeginsTwice
  <2> QED
    BY <2>1, <2>2, <2>3
<1> HIDE DEF all
<1>7. /\ IsSequence(B) /\ Map!Begins(B, initial)
      /\ Map!Range(B) = Map!Range(initial) \cup
           IF policy.enabled /\ policy.max > 0 THEN Map!Range(D) \cup Map!Range(site) ELSE {}
  <2>1. CASE ~policy.enabled \/ policy.max <= 0
    <3>1. B = initial /\ ~(policy.enabled /\ policy.max > 0)
      BY <1>3, <1>4, <2>1
    <3>2. Map!Begins(initial, initial)
      <4>1. Len(initial) \in Nat
        BY <1>1, SequenceOf DEF IsSequence
      <4> QED
        BY <4>1 DEF Map!Begins
    <3> QED
      BY <1>1, <3>1, <3>2
  <2>2. CASE ~(~policy.enabled \/ policy.max <= 0)
    <3>1. B = Map!Distinct(all) /\ policy.enabled /\ policy.max > 0
      BY <1>1, <1>3, <1>4, <2>2
    <3>2. IsSequence(B) /\ Map!Range(B) = Map!Range(all)
      BY <1>6, <3>1, DistinctElements
    <3>3. Map!Begins(B, initial)
      BY <1>1, <1>6, <3>1, DistinctBegins
    <3> QED
      BY <1>6, <3>1, <3>2, <3>3
  <2> QED
    BY <2>1, <2>2
<1>8. /\ IsSequence(AskedList(B, m)) /\ Map!Range(AskedList(B, m)) = AskedPairs(Map!Range(B), m)
  BY <1>7, AskedElements
<1>9. Map!Begins(AskedList(B, m), AskedList(initial, m)) /\ IsSequence(AskedList(initial, m))
  BY <1>1, <1>7, AskedBegins, AskedElements
<1>10. IsSequence(tried) /\ Map!Range(tried) = Map!Range(AskedList(B, m))
  BY <1>5, <1>8, DistinctElements
<1>11. Map!Begins(tried, AskedList(initial, m))
  BY <1>1, <1>5, <1>8, <1>9, DistinctBegins
<1>12. AskedPairs(Map!Range(D), m) = SentPairs(Map!Range(D))
  BY <1>2, AskedAsCarried
<1>13. Map!Range(tried) = AskedPairs(Map!Range(initial), m) \cup
         IF policy.enabled /\ policy.max > 0
         THEN SentPairs(Map!Range(D)) \cup AskedPairs(Map!Range(site), m) ELSE {}
  <2>1. Map!Range(tried) = AskedPairs(Map!Range(B), m)
    BY <1>8, <1>10
  <2>2. CASE policy.enabled /\ policy.max > 0
    <3>1. Map!Range(B) = Map!Range(initial) \cup (Map!Range(D) \cup Map!Range(site))
      BY <1>7, <2>2
    <3>2. AskedPairs(Map!Range(B), m) = AskedPairs(Map!Range(initial), m) \cup
            (AskedPairs(Map!Range(D), m) \cup AskedPairs(Map!Range(site), m))
      <4>1. \A A, R, S, T : A = R \cup (S \cup T) =>
              AskedPairs(A, m) = AskedPairs(R, m) \cup (AskedPairs(S, m) \cup AskedPairs(T, m))
        BY DEF AskedPairs
      <4> DEFINE A == Map!Range(B)
                 R == Map!Range(initial)
                 S == Map!Range(D)
                 T == Map!Range(site)
      <4>2. A = R \cup (S \cup T)
        BY <3>1
      <4> HIDE DEF A, R, S, T
      <4>3. AskedPairs(A, m) = AskedPairs(R, m) \cup (AskedPairs(S, m) \cup AskedPairs(T, m))
        BY <4>1, <4>2
      <4> QED
        BY <4>3 DEF A, R, S, T
    <3> QED
      BY <1>12, <2>1, <2>2, <3>2
  <2>3. CASE ~(policy.enabled /\ policy.max > 0)
    <3>1. Map!Range(B) = Map!Range(initial)
      BY <1>7, <2>3
    <3> QED
      BY <2>1, <2>3, <3>1
  <2> QED
    BY <2>2, <2>3
<1> QED
  BY <1>10, <1>11, <1>13 DEF initial, D, site, tried

(* What the map shows: first where the model goes. *)
LEMMA PrimaryList ==
  ASSUME MapInv, NEW m \in RoutedName, NEW t, Map!Comparable(m, t)
  PROVE  LET P == Map!PrimaryRoutes(m, t)
             asks == AskedPairs(Map!Range(Map!ResolveRoutesByModel(m, t)), m) IN
         /\ IsSequence(P) /\ InUsePairs(Map!Range(P)) \subseteq asks
         /\ ByAlias(m, t) => InUsePairs(Map!Range(P)) = asks
<1> DEFINE P == Map!PrimaryRoutes(m, t)
           initial == Map!ResolveRoutesByModel(m, t)
           asks == AskedPairs(Map!Range(initial), m)
<1>1. ASSUME ByAlias(m, t)
      PROVE  IsSequence(P) /\ InUsePairs(Map!Range(P)) = asks
  <2>1. P = Map!OfType(Map!GetAliasRoutes(m), t)
    BY <1>1 DEF ByAlias, Map!PrimaryRoutes
  <2>2. IsSequence(P)
    BY <1>1, <2>1, AliasRoutes DEF ByAlias
  <2>3. Map!InUse(P) = AskedList(initial, m) /\ Map!Range(AskedList(initial, m)) = asks
    BY <1>1, InitialRoutes
  <2> QED
    BY <2>2, <2>3, InUseElements
<1>2. ASSUME ByChannel(m, t)
      PROVE  IsSequence(P) /\ InUsePairs(Map!Range(P)) \subseteq asks
  <2> DEFINE G == Map!GetModelRoutes(m, t)
  <2>1. P = Map!First(1, G)
    BY <1>2 DEF ByChannel, Map!PrimaryRoutes
  <2>2. IsSequence(G) /\ Map!Range(G) = {Map!Route(c, m) : c \in Fitting(m, t)}
    BY DirectRoutes
  <2>3. asks = {<<c, m>> : c \in Fitting(m, t)}
    BY <1>2, InitialRoutes
  <2>4. InUsePairs(Map!Range(G)) = asks
    BY <2>2, <2>3, FittingPairs
  <2> HIDE DEF G
  <2>5. IsSequence(P) /\ Map!Begins(G, P)
    BY <2>1, <2>2, FirstElements
  <2>6. Map!Range(P) \subseteq Map!Range(G)
    BY <2>2, <2>5, BegunElements
  <2> QED
    BY <2>4, <2>5, <2>6, PairsOfUnion
<1> QED
  BY <1>1, <1>2, WhyServed

(* And then the fallbacks that are not shown yet. *)
LEMMA FallbackList ==
  ASSUME MapInv, NEW m \in RoutedName, NEW t, Map!Comparable(m, t)
  PROVE  LET P == Map!PrimaryRoutes(m, t)
             X == Map!FallbackRoutes(m, t)
             all == Map!Range(Map!CustomRoutes(m, t)) \cup Map!Range(Map!SitePolicyRoutes(m, t)) IN
         /\ IsSequence(X) /\ Map!Range(X) \subseteq all /\ Map!Range(X) \cap Map!Range(P) = {}
         /\ policy.enabled /\ Len(X) < policy.max => all \subseteq Map!Range(P) \cup Map!Range(X)
         /\ ~(policy.enabled /\ policy.max > 0) => X = <<>>
<1> DEFINE P == Map!PrimaryRoutes(m, t)
           C == Map!CustomRoutes(m, t)
           S == Map!SitePolicyRoutes(m, t)
           all == IF policy.enabled THEN C \o S ELSE <<>>
           once == Map!Distinct(all)
           I == {k \in DOMAIN once : once[k] \notin Map!Range(P)}
           new == Map!Picked(once, I)
           X == Map!FallbackRoutes(m, t)
<1>1. X = Map!First(policy.max, new)
  BY DEF Map!FallbackRoutes, Map!Where
<1>2. IsSequence(C) /\ IsSequence(S)
  BY CustomLists, SiteRoutes
<1>3. policy.enabled \in BOOLEAN /\ policy.max \in Int
  BY MapTypes
<1> HIDE DEF P, C, S, X
<1>4. /\ IsSequence(all)
      /\ Map!Range(all) = IF policy.enabled THEN Map!Range(C) \cup Map!Range(S) ELSE {}
  BY <1>2, <1>3, ConcatElements, EmptyList
<1> HIDE DEF all
<1>5. IsSequence(once) /\ Map!Range(once) = Map!Range(all)
  BY <1>4, DistinctElements
<1> HIDE DEF once
<1>6. IsSequence(new) /\ Map!Range(new) = {r \in Map!Range(once) : r \notin Map!Range(P)}
  <2>1. IsSequence(new) /\ Map!Range(new) = {once[k] : k \in I}
    BY <1>5, PickedPlaces, PickedRange
  <2> QED
    BY <2>1, SameLists
<1> HIDE DEF new
<1>7. /\ IsSequence(X) /\ Map!Begins(new, X)
      /\ Len(X) = IF policy.max < 0 THEN 0 ELSE IF policy.max < Len(new) THEN policy.max ELSE Len(new)
  BY <1>1, <1>3, <1>6, FirstElements
<1>8. Map!Range(X) \subseteq Map!Range(new) /\ (Len(X) = Len(new) => X = new)
  BY <1>6, <1>7, BegunElements
<1>9. Len(new) \in Nat
  BY <1>6, SequenceOf DEF IsSequence
<1>10. ASSUME policy.enabled, Len(X) < policy.max
       PROVE  Map!Range(C) \cup Map!Range(S) \subseteq Map!Range(P) \cup Map!Range(X)
  <2>1. Len(X) = Len(new)
    BY <1>3, <1>7, <1>9, <1>10
  <2> QED
    BY <1>4, <1>5, <1>6, <1>8, <1>10, <2>1
<1>11. ASSUME ~(policy.enabled /\ policy.max > 0)
       PROVE  X = <<>>
  <2>1. CASE ~policy.enabled
    <3>1. Map!Range(X) = {}
      BY <1>4, <1>5, <1>6, <1>8, <2>1
    <3> QED
      BY <1>7, <3>1, NothingListed
  <2>2. CASE ~(policy.max > 0)
    <3>1. Len(X) = 0
      BY <1>3, <1>7, <1>9, <2>2
    <3> QED
      BY <1>7, <3>1, EmptySeq DEF IsSequence
  <2> QED
    BY <1>11, <2>1, <2>2
<1>12. Map!Range(X) \subseteq Map!Range(C) \cup Map!Range(S) /\ Map!Range(X) \cap Map!Range(P) = {}
  BY <1>4, <1>5, <1>6, <1>8
<1> QED
  BY <1>7, <1>10, <1>11, <1>12 DEF P, C, S, X

LEMMA ShownList ==
  ASSUME MapInv, NEW m \in RoutedName, NEW t, Map!Comparable(m, t)
  PROVE  LET P == Map!PrimaryRoutes(m, t)
             X == Map!FallbackRoutes(m, t)
             shown == Map!ShownRoutes(m, t) IN
         /\ IsSequence(shown) /\ Map!Range(shown) = Map!Range(P) \cup Map!Range(X)
         /\ Map!Range(Map!InUse(shown)) = InUsePairs(Map!Range(P)) \cup InUsePairs(Map!Range(X))
<1>1. IsSequence(Map!PrimaryRoutes(m, t)) /\ IsSequence(Map!FallbackRoutes(m, t))
  BY PrimaryList, FallbackList
<1>2. Map!ShownRoutes(m, t) = Map!PrimaryRoutes(m, t) \o Map!FallbackRoutes(m, t)
  BY DEF Map!ShownRoutes
<1>3. /\ IsSequence(Map!ShownRoutes(m, t))
      /\ Map!Range(Map!ShownRoutes(m, t)) =
           Map!Range(Map!PrimaryRoutes(m, t)) \cup Map!Range(Map!FallbackRoutes(m, t))
  BY <1>1, <1>2, ConcatElements
<1> QED
  BY <1>3, InUseElements, PairsOfUnion

(* The routes that the map shows in use, and those that are tried. *)
LEMMA MapShown == MapInv => Map!ShownRoutesAreTried
<1> SUFFICES ASSUME MapInv, NEW m \in RoutedName, NEW t \in Map!Type,
                    Map!Comparable(m, t), Map!OneRule(m)
             PROVE  Map!Range(Map!InUse(Map!ShownRoutes(m, t))) \subseteq Map!Range(Map!TriedRoutes(m, t))
  BY DEF Map!ShownRoutesAreTried
<1> DEFINE P == Map!PrimaryRoutes(m, t)
           X == Map!FallbackRoutes(m, t)
           initial == AskedPairs(Map!Range(Map!ResolveRoutesByModel(m, t)), m)
           C == Map!Range(Map!CustomRoutes(m, t))
           S == Map!Range(Map!SitePolicyRoutes(m, t))
           D == SentPairs(Map!Range(Map!ResolveRoutesForFallbackModels(m, t)))
           site == AskedPairs(Map!Range(GatewaySite(m, t)), m)
           tried == Map!Range(Map!TriedRoutes(m, t))
<1>1. Map!Range(Map!InUse(Map!ShownRoutes(m, t))) = InUsePairs(Map!Range(P)) \cup InUsePairs(Map!Range(X))
  BY ShownList
<1>2. InUsePairs(Map!Range(P)) \subseteq initial
  BY PrimaryList
<1>3. Map!Range(X) \subseteq C \cup S /\ (~(policy.enabled /\ policy.max > 0) => X = <<>>)
  BY FallbackList
<1>4. InUsePairs(C) = D /\ InUsePairs(S) = site
  BY CustomLists, SiteRoutes
<1>5. tried = initial \cup IF policy.enabled /\ policy.max > 0 THEN D \cup site ELSE {}
  BY TriedList
<1> HIDE DEF P, X, initial, C, S, D, site, tried
<1>6. InUsePairs(Map!Range(X)) \subseteq tried
  <2>1. CASE policy.enabled /\ policy.max > 0
    <3>1. InUsePairs(Map!Range(X)) \subseteq InUsePairs(C \cup S)
      BY <1>3, PairsOfUnion, Zenon
    <3>2. InUsePairs(C \cup S) = D \cup site
      BY <1>4, PairsOfUnion, Zenon
    <3> QED
      BY <1>5, <2>1, <3>1, <3>2
  <2>2. CASE ~(policy.enabled /\ policy.max > 0)
    <3>1. InUsePairs(Map!Range(X)) = {}
      BY <1>3, <2>2, EmptyList, PairsOfUnion
    <3> QED
      BY <3>1
  <2> QED
    BY <2>1, <2>2
<1> QED
  BY <1>1, <1>2, <1>5, <1>6 DEF tried

LEMMA MapHidesNone == MapInv => Map!TriedRoutesAreShown
<1> SUFFICES ASSUME MapInv, NEW m \in RoutedName, NEW t \in Map!Type,
                    Map!Comparable(m, t), Map!OneRule(m), policy.enabled, policy.mode # "disabled",
                    Len(Map!FallbackRoutes(m, t)) < policy.max
             PROVE  Map!Range(Map!TriedRoutes(m, t)) \subseteq Map!Range(Map!InUse(Map!ShownRoutes(m, t)))
  BY DEF Map!TriedRoutesAreShown
<1> DEFINE P == Map!PrimaryRoutes(m, t)
           X == Map!FallbackRoutes(m, t)
           initial == AskedPairs(Map!Range(Map!ResolveRoutesByModel(m, t)), m)
           C == Map!Range(Map!CustomRoutes(m, t))
           S == Map!Range(Map!SitePolicyRoutes(m, t))
           D == SentPairs(Map!Range(Map!ResolveRoutesForFallbackModels(m, t)))
           site == AskedPairs(Map!Range(GatewaySite(m, t)), m)
           tried == Map!Range(Map!TriedRoutes(m, t))
           shown == Map!Range(Map!InUse(Map!ShownRoutes(m, t)))
<1>1. shown = InUsePairs(Map!Range(P)) \cup InUsePairs(Map!Range(X))
  BY ShownList
<1>2. C \cup S \subseteq Map!Range(P) \cup Map!Range(X)
  BY FallbackList
<1>3. InUsePairs(C) = D /\ InUsePairs(S) = site
  BY CustomLists, SiteRoutes
<1>4. tried \subseteq initial \cup (D \cup site)
  <2>1. tried = initial \cup IF policy.enabled /\ policy.max > 0 THEN D \cup site ELSE {}
    BY TriedList
  <2> HIDE DEF tried, initial, D, site
  <2> QED
    BY <2>1
<1>5. initial \subseteq InUsePairs(Map!Range(P)) \cup InUsePairs(S)
  <2>1. CASE ByAlias(m, t)
    <3>1. InUsePairs(Map!Range(P)) = initial
      BY <2>1, PrimaryList
    <3> QED
      BY <3>1
  <2>2. CASE ByChannel(m, t)
    <3>1. initial = {<<c, m>> : c \in Fitting(m, t)}
      BY <2>2, InitialRoutes
    <3>2. {Map!Route(c, m) : c \in Fitting(m, t)} \subseteq S
      BY <2>2, SiteRoutes
    <3> HIDE DEF S, initial, P
    <3>3. InUsePairs({Map!Route(c, m) : c \in Fitting(m, t)}) \subseteq InUsePairs(S)
      BY <3>2, PairsOfUnion, Zenon
    <3> QED
      BY <3>1, <3>3, FittingPairs
  <2> QED
    BY <2>1, <2>2, WhyServed
<1> HIDE DEF P, X, initial, C, S, D, site, tried, shown
<1>6. InUsePairs(C) \cup InUsePairs(S) \subseteq shown
  <2>1. InUsePairs(C \cup S) \subseteq InUsePairs(Map!Range(P) \cup Map!Range(X))
    BY <1>2, PairsOfUnion, Zenon
  <2>2. /\ InUsePairs(C \cup S) = InUsePairs(C) \cup InUsePairs(S)
        /\ InUsePairs(Map!Range(P) \cup Map!Range(X)) = InUsePairs(Map!Range(P)) \cup InUsePairs(Map!Range(X))
    BY PairsOfUnion, Zenon
  <2> QED
    BY <1>1, <2>1, <2>2
<1>7. tried \subseteq shown
  BY <1>1, <1>3, <1>4, <1>5, <1>6
<1> QED
  BY <1>7 DEF tried, shown

(* Without failover nothing that an alias covers is tried. *)
LEMMA MapCovers == MapInv => Map!CoveredRoutesAreCovered
<1> SUFFICES ASSUME MapInv, NEW m \in RoutedName, NEW t \in Map!Type,
                    Map!Comparable(m, t), ~policy.enabled
             PROVE  Map!Range(Map!TriedRoutes(m, t)) \cap Map!Range(Map!InUse(Map!HiddenRoutes(m, t)))
                      \subseteq Map!Range(Map!InUse(Map!PrimaryRoutes(m, t)))
  BY DEF Map!CoveredRoutesAreCovered
<1>1. CASE ByAlias(m, t)
  <2>1. Map!Range(Map!TriedRoutes(m, t)) = AskedPairs(Map!Range(Map!ResolveRoutesByModel(m, t)), m)
    BY TriedList
  <2>2. Map!Range(Map!InUse(Map!PrimaryRoutes(m, t))) = AskedPairs(Map!Range(Map!ResolveRoutesByModel(m, t)), m)
    BY <1>1, InitialRoutes
  <2> QED
    BY <2>1, <2>2
<1>2. CASE ByChannel(m, t)
  <2>1. Map!HiddenRoutes(m, t) = <<>>
    BY <1>2 DEF ByChannel, Map!HiddenRoutes
  <2>2. Map!Range(Map!InUse(<<>>)) = {}
    BY EmptyList, InUseElements, PairsOfUnion
  <2> QED
    BY <2>1, <2>2
<1> QED
  BY <1>1, <1>2, WhyServed

(* An alias without a complaint about a target. *)
LEMMA MapBadges == MapInv => Map!UnmarkedAliasesWork
<1> SUFFICES ASSUME MapInv, NEW a \in RoutedName, aliases[a] # None, aliases[a].enabled,
                    Map!AliasStatus(a) = None, NEW x \in Map!Range(aliases[a].targets)
             PROVE  <<x.provider, x.model>> \in Map!Range(Map!TriedRoutes(a, channels[x.provider].type))
  BY DEF Map!UnmarkedAliasesWork
<1> DEFINE t == channels[x.provider].type
           U == Map!ResolveExplicitTargets(aliases[a].targets, t)
<1>1. Map!Exists(x.provider) /\ Map!Enabled(x.provider)
  <2>1. None # "provider_missing" /\ None # "model_removed" /\ None # "provider_disabled"
    BY MapAssumption
  <2> QED
    BY <2>1 DEF Map!AliasStatus
<1>2. Map!IsAlias(a) /\ IsUsable(x, t)
  BY <1>1 DEF Map!IsAlias, IsUsable
<1>3. Resolved(x) \in Map!Range(U) /\ IsSequence(U)
  BY <1>2, AliasRoutes
<1>4. Map!Distinct(U) = Map!ResolveRoutesByModel(a, t)
  BY <1>2 DEF Map!ResolveRoutesByModel
<1>5. Map!Range(Map!Distinct(U)) = Map!Range(U) /\ Map!Distinct(U) # <<>>
  BY <1>3, DistinctElements, EmptyList
<1>6. Map!MatchedAlias(a, t)
  BY <1>2, TargetMatches
<1> HIDE DEF t, U
<1>7. Map!Comparable(a, t)
  BY <1>4, <1>5, <1>6 DEF Map!Comparable, Map!IsRequestModel, Map!Refused
<1>8. <<x.provider, x.model>> \in AskedPairs(Map!Range(Map!ResolveRoutesByModel(a, t)), a)
  <2>1. x.model \in RoutedName
    BY MapTypes, SameLists
  <2>2. Map!Asked(Resolved(x), a) = <<x.provider, x.model>>
    BY <2>1, MapAssumption DEF Map!Asked, Resolved
  <2> QED
    BY <1>3, <1>4, <1>5, <2>2 DEF AskedPairs
<1>9. <<x.provider, x.model>> \in Map!Range(Map!TriedRoutes(a, t))
  BY <1>7, <1>8, TriedList
<1> QED
  BY <1>9 DEF t

(* What is listed has an entry, and a route. *)
LEMMA MapLists == MapInv => Map!ListedModelsAreMapped
<1> SUFFICES ASSUME MapInv, NEW m \in RoutedName, NEW t \in Map!Type
             PROVE  /\ Map!IsRequestModel(m, t) => Map!PrimaryRoutes(m, t) # <<>>
                    /\ Map!IsListedModel(m, t) =>
                         /\ Map!IsRequestModel(m, t)
                         /\ Map!TriedRoutes(m, t) # <<>> \/ Map!Refused(m, t)
  BY DEF Map!ListedModelsAreMapped
<1>1. ASSUME Map!IsRequestModel(m, t)
      PROVE  Map!PrimaryRoutes(m, t) # <<>>
  <2>1. CASE Map!MatchedAlias(m, t)
    BY <2>1 DEF Map!PrimaryRoutes, Map!MatchedAlias
  <2>2. CASE ~Map!MatchedAlias(m, t)
    <3> DEFINE G == Map!GetModelRoutes(m, t)
               P == Map!First(1, G)
    <3>1. Map!PrimaryRoutes(m, t) = P
      BY <2>2 DEF Map!PrimaryRoutes
    <3>2. Fitting(m, t) # {}
      BY <1>1, <2>2, ServedFitting DEF Map!IsRequestModel
    <3>3. IsSequence(G) /\ Map!Range(G) # {}
      BY <3>2, DirectRoutes
    <3> HIDE DEF G
    <3>4. Len(G) \in Nat /\ Len(G) # 0
      <4>1. Len(G) \in Nat
        BY <3>3, SequenceOf DEF IsSequence
      <4>2. Len(G) # 0
        BY <3>3, EmptySeq, EmptyList DEF IsSequence
      <4> QED
        BY <4>1, <4>2
    <3> HIDE DEF P
    <3>5. Len(P) = IF 1 < 0 THEN 0 ELSE IF 1 < Len(G) THEN 1 ELSE Len(G)
      <4>1. 1 \in Int
        OBVIOUS
      <4>2. \A n \in Int : Len(Map!First(n, G)) = IF n < 0 THEN 0 ELSE IF n < Len(G) THEN n ELSE Len(G)
        BY <3>3, FirstElements
      <4> QED
        BY <4>1, <4>2 DEF P
    <3>6. Len(P) # 0
      BY <3>4, <3>5
    <3>7. P # <<>>
      BY <3>6
    <3> QED
      BY <3>1, <3>7
  <2> QED
    BY <2>1, <2>2
<1>2. ASSUME Map!IsListedModel(m, t)
      PROVE  Map!IsRequestModel(m, t)
  <2>1. CASE Map!ServedDirectly(m, t)
    BY <2>1 DEF Map!IsRequestModel
  <2>2. CASE Map!IsAlias(m) /\ Map!FirstAliasType(m) = t
    <3> DEFINE targets == aliases[m].targets
               I == {i \in DOMAIN targets : /\ Map!Enabled(targets[i].provider)
                                            /\ Map!Lists(targets[i].provider, targets[i].model)}
               usable == Map!Picked(targets, I)
    <3>1. usable # <<>> /\ t = channels[Head(usable).provider].type
      <4>1. None # t
        BY MapAssumption
      <4> QED
        BY <2>2, <4>1 DEF Map!FirstAliasType, Map!Where
    <3>2. IsSequence(targets)
      BY <2>2, MapTypes DEF Map!IsAlias
    <3> HIDE DEF targets
    <3>3. IsSequence(usable) /\ Map!Range(usable) = {targets[i] : i \in I}
      BY <3>2, PickedPlaces, PickedRange
    <3>4. Head(usable) \in Map!Range(usable)
      <4> HIDE DEF usable
      <4>1. DOMAIN usable = 1..Len(usable) /\ Len(usable) \in Nat /\ Len(usable) # 0
        BY <3>1, <3>3, SequenceOf, EmptySeq DEF IsSequence
      <4>2. Head(usable) = usable[1] /\ 1 \in DOMAIN usable
        BY <3>1, <4>1
      <4> QED
        BY <4>2, SameLists
    <3>5. PICK i \in I : Head(usable) = targets[i]
      BY <3>3, <3>4
    <3>6. targets[i] \in Map!Range(targets) /\ IsUsable(targets[i], t)
      BY <3>1, <3>5, SameLists DEF IsUsable
    <3>7. Map!MatchedAlias(m, t)
      BY <2>2, <3>6, TargetMatches DEF targets
    <3> QED
      BY <3>7 DEF Map!IsRequestModel
  <2> QED
    BY <1>2, <2>1, <2>2 DEF Map!IsListedModel
<1>3. ASSUME Map!IsRequestModel(m, t), ~Map!Refused(m, t)
      PROVE  Map!TriedRoutes(m, t) # <<>>
  <2> DEFINE initial == AskedList(Map!ResolveRoutesByModel(m, t), m)
             tried == Map!TriedRoutes(m, t)
  <2>1. Map!Comparable(m, t)
    BY <1>3 DEF Map!Comparable
  <2>2. IsSequence(initial) /\ initial # <<>>
    BY <2>1, InitialRoutes
  <2>3. IsSequence(tried) /\ Map!Begins(tried, initial)
    BY <2>1, TriedList
  <2> HIDE DEF initial, tried
  <2>4. Map!Range(initial) \subseteq Map!Range(tried) /\ Map!Range(initial) # {}
    BY <2>2, <2>3, BegunElements, NothingListed
  <2>5. tried # <<>>
    BY <2>4, EmptyList
  <2> QED
    BY <2>5 DEF tried
<1> QED
  BY <1>1, <1>2, <1>3

(* Lists that begin alike have the same first element. *)
LEMMA SameHead ==
  ASSUME NEW s, IsSequence(s), NEW u, IsSequence(u), u # <<>>, Map!Begins(s, u)
  PROVE  Head(s) = Head(u)
<1>1. /\ DOMAIN s = 1..Len(s) /\ Len(s) \in Nat /\ DOMAIN u = 1..Len(u) /\ Len(u) \in Nat
      /\ Len(u) # 0
  BY SequenceOf, EmptySeq DEF IsSequence
<1>2. Len(u) <= Len(s) /\ \A i \in DOMAIN u : s[i] = u[i]
  BY DEF Map!Begins
<1>3. 1 \in DOMAIN u /\ Len(s) # 0
  BY <1>1, <1>2
<1>4. s[1] = u[1] /\ s # <<>>
  BY <1>2, <1>3
<1> QED
  BY <1>4

(* Routes of one model through channels in use are all asked for. *)
LEMMA AllInUse ==
  ASSUME NEW m, NEW t, NEW u, IsSequence(u), IsOnce(u),
         \A k \in DOMAIN u : \E c \in Fitting(m, t) : u[k] = Map!Route(c, m)
  PROVE  /\ DOMAIN Map!InUse(u) = DOMAIN u
         /\ \A k \in DOMAIN u : Map!InUse(u)[k] = <<u[k].provider, m>>
<1> DEFINE I == {i \in DOMAIN u : Map!Enabled(u[i].provider)}
           pairs == [i \in DOMAIN u |-> <<u[i].provider, u[i].model>>]
<1>1. \A k \in DOMAIN u : \E c \in Fitting(m, t) :
        u[k] = Map!Route(c, m) /\ u[k].provider = c /\ u[k].model = m
  BY DEF Map!Route
<1>2. \A c \in Fitting(m, t) : Map!Enabled(c)
  BY DEF Fitting, Map!Direct
<1>3. I = DOMAIN u
  BY <1>1, <1>2
<1> HIDE DEF I
<1>4. Map!Picked(u, I) = u
  BY <1>3, PickedAll, SameLists
<1>5. Map!InUse(u) = Map!Distinct([i \in DOMAIN Map!Picked(u, I) |->
        <<Map!Picked(u, I)[i].provider, Map!Picked(u, I)[i].model>>])
  BY DEF Map!InUse, Map!Where, I
<1>6. Map!InUse(u) = Map!Distinct(pairs)
  BY <1>4, <1>5
<1>7. IsSequence(pairs)
  BY MappedList
<1>8. IsOnce(pairs)
  <2> SUFFICES ASSUME NEW j \in DOMAIN u, NEW k \in DOMAIN u, pairs[j] = pairs[k] PROVE j = k
    BY DEF IsOnce
  <2>1. u[j].provider = u[k].provider
    OBVIOUS
  <2>2. u[j] = u[k]
    BY <1>1, <2>1
  <2> QED
    BY <2>2 DEF IsOnce
<1>9. DOMAIN pairs = DOMAIN u /\ \A k \in DOMAIN u : pairs[k] = <<u[k].provider, m>>
  BY <1>1
<1> HIDE DEF pairs
<1>10. Map!InUse(u) = pairs
  BY <1>6, <1>7, <1>8, DistinctOfOnce
<1> QED
  BY <1>9, <1>10

(* What is shown of the channels of a model is tried in that order. *)
LEMMA ChannelsInOrder ==
  ASSUME MapInv, Map!NamesSortAlike, NEW m \in RoutedName, NEW t,
         Map!Comparable(m, t), ByChannel(m, t),
         NEW u, IsSequence(u), Map!Begins(Map!GetModelRoutes(m, t), u)
  PROVE  /\ Map!Begins(Map!TriedRoutes(m, t), Map!InUse(u))
         /\ u # <<>> => Map!InUse(u) # <<>>
<1> DEFINE G == Map!GetModelRoutes(m, t)
           F == Map!FindRoutesByModel(m, t)
           asks == AskedList(F, m)
           tried == Map!TriedRoutes(m, t)
           used == Map!InUse(u)
<1>1. /\ IsSequence(G) /\ IsOnce(G) /\ IsSequence(F) /\ DOMAIN G = DOMAIN F
      /\ \A k \in DOMAIN G : \E c \in Fitting(m, t) : G[k] = Map!Route(c, m) /\ F[k] = Found(c)
  BY DirectRoutes
<1>2. Map!ResolveRoutesByModel(m, t) = F
  BY DEF ByChannel
<1>3. /\ IsSequence(tried) /\ Map!Begins(tried, asks)
      /\ IsSequence(asks) /\ DOMAIN asks = DOMAIN F
  BY <1>1, <1>2, TriedList, AskedElements
<1>4. \A k \in DOMAIN F : asks[k] = Map!Asked(F[k], m)
  BY DEF AskedList
<1>5. Map!Begins(G, u)
  OBVIOUS
<1>6. IsSequence(used) /\ (used = <<>> => Map!Range(used) = {})
  BY InUseElements, EmptyList
<1> HIDE DEF G, F, asks, tried, used
<1>7. /\ DOMAIN G = 1..Len(G) /\ Len(G) \in Nat /\ DOMAIN u = 1..Len(u) /\ Len(u) \in Nat
      /\ Len(u) <= Len(G) /\ \A i \in DOMAIN u : G[i] = u[i]
  BY <1>1, <1>5, SequenceOf DEF IsSequence, Map!Begins
<1>8. \A k \in DOMAIN u : k \in DOMAIN G
  BY <1>7
<1>9. \A k \in DOMAIN u : \E c \in Fitting(m, t) : u[k] = Map!Route(c, m) /\ F[k] = Found(c)
  BY <1>1, <1>7, <1>8
<1>10. IsOnce(u)
  BY <1>1, <1>7, <1>8 DEF IsOnce
<1>11. DOMAIN used = DOMAIN u /\ \A k \in DOMAIN u : used[k] = <<u[k].provider, m>>
  BY <1>9, <1>10, AllInUse DEF used
<1>12. \A k \in DOMAIN used : asks[k] = used[k]
  <2> SUFFICES ASSUME NEW k \in DOMAIN u PROVE asks[k] = used[k]
    BY <1>11
  <2>1. PICK c \in Fitting(m, t) : u[k] = Map!Route(c, m) /\ F[k] = Found(c)
    BY <1>9
  <2>2. asks[k] = <<c, m>>
    BY <1>1, <1>4, <1>8, <2>1 DEF Found, Map!Asked
  <2>3. used[k] = <<c, m>>
    BY <1>11, <2>1 DEF Map!Route
  <2> QED
    BY <2>2, <2>3
<1>13. Len(used) = Len(u) /\ Len(asks) = Len(G)
  BY <1>1, <1>3, <1>6, <1>11, SameLength
<1>14. Map!Begins(asks, used)
  BY <1>7, <1>12, <1>13 DEF Map!Begins
<1>15. Map!Begins(tried, used)
  BY <1>3, <1>6, <1>14, BeginsTwice
<1>16. u # <<>> => used # <<>>
  <2>1. u # <<>> => DOMAIN u # {}
    BY NothingListed, SameLists
  <2>2. used = <<>> => DOMAIN used = {}
    BY <1>6, SameLists
  <2> QED
    BY <1>11, <2>1, <2>2
<1> QED
  BY <1>15, <1>16 DEF tried, used

(* The first route shown is the first one tried. *)
LEMMA MapFirst == MapInv /\ Map!NamesSortAlike => Map!FirstShownIsFirstTried
<1> SUFFICES ASSUME MapInv, Map!NamesSortAlike, NEW m \in RoutedName, NEW t \in Map!Type,
                    Map!Comparable(m, t)
             PROVE  LET shown == Map!InUse(Map!PrimaryRoutes(m, t)) IN
                    shown # <<>> /\ Head(shown) = Head(Map!TriedRoutes(m, t))
  BY DEF Map!FirstShownIsFirstTried
<1> DEFINE P == Map!PrimaryRoutes(m, t)
           shown == Map!InUse(P)
           tried == Map!TriedRoutes(m, t)
           asks == AskedList(Map!ResolveRoutesByModel(m, t), m)
<1>1. IsSequence(P) /\ P # <<>>
  BY PrimaryList, MapLists DEF Map!Comparable, Map!ListedModelsAreMapped
<1>2. IsSequence(shown)
  BY <1>1, InUseElements
<1>3. IsSequence(tried) /\ Map!Begins(tried, asks) /\ asks # <<>>
  BY TriedList, InitialRoutes
<1>4. shown # <<>> /\ Map!Begins(tried, shown)
  <2>1. CASE ByAlias(m, t)
    <3>1. shown = asks
      BY <2>1, InitialRoutes
    <3> QED
      BY <1>3, <3>1
  <2>2. CASE ByChannel(m, t)
    <3> DEFINE G == Map!GetModelRoutes(m, t)
    <3>1. P = Map!First(1, G)
      BY <2>2 DEF ByChannel, Map!PrimaryRoutes
    <3>2. IsSequence(G)
      BY DirectRoutes
    <3>3. Map!Begins(G, P)
      <4> HIDE DEF G, P
      <4>1. 1 \in Int
        OBVIOUS
      <4>2. \A n \in Int : Map!Begins(G, Map!First(n, G))
        BY <3>2, FirstElements
      <4> QED
        BY <3>1, <4>1, <4>2
    <3> QED
      BY <1>1, <2>2, <3>3, ChannelsInOrder
  <2> QED
    BY <2>1, <2>2, WhyServed
<1> HIDE DEF shown, tried
<1>5. Head(tried) = Head(shown)
  BY <1>2, <1>3, <1>4, SameHead
<1> QED
  BY <1>4, <1>5 DEF shown, tried

(* The first route of a list and, after it, the others in their order. *)
LEMMA FirstAndOthers ==
  ASSUME NEW G, IsSequence(G), IsOnce(G), G # <<>>, NEW n \in Int
  PROVE  LET P == Map!First(1, G)
             new == Map!Picked(G, {k \in DOMAIN G : G[k] \notin Map!Range(P)})
             shown == P \o Map!First(n, new) IN
         IsSequence(shown) /\ Map!Begins(G, shown)
<1> DEFINE P == Map!First(1, G)
           I == {k \in DOMAIN G : G[k] \notin Map!Range(P)}
           new == Map!Picked(G, I)
           X == Map!First(n, new)
           T == [k \in 1..(Len(G) - 1) |-> G[k + 1]]
           place == [k \in 1..(Len(G) - 1) |-> k + 1]
           shown == P \o X
<1>1. DOMAIN G = 1..Len(G) /\ Len(G) \in Nat /\ Len(G) # 0
  BY SequenceOf, EmptySeq DEF IsSequence
<1>2. IsSequence(P) /\ Len(P) = 1 /\ DOMAIN P = {1} /\ P[1] = G[1] /\ 1 \in DOMAIN G
  <2>1. 1 \in Int
    OBVIOUS
  <2>2. \A l \in Int : /\ IsSequence(Map!First(l, G)) /\ Map!Begins(G, Map!First(l, G))
                       /\ Len(Map!First(l, G)) = IF l < 0 THEN 0 ELSE IF l < Len(G) THEN l ELSE Len(G)
    BY FirstElements
  <2>3. /\ IsSequence(P) /\ Map!Begins(G, P)
        /\ Len(P) = IF 1 < 0 THEN 0 ELSE IF 1 < Len(G) THEN 1 ELSE Len(G)
    BY <2>1, <2>2
  <2> HIDE DEF P
  <2>4. Len(P) = 1
    BY <1>1, <2>3
  <2>5. DOMAIN P = 1..Len(P)
    BY <2>3, SequenceOf DEF IsSequence
  <2>6. DOMAIN P = {1}
    BY <2>4, <2>5
  <2>7. P[1] = G[1]
    BY <2>3, <2>6 DEF Map!Begins
  <2> QED
    BY <1>1, <2>3, <2>4, <2>6, <2>7
<1> HIDE DEF P
<1>3. Map!Range(P) = {G[1]}
  BY <1>2, SameLists
<1>4. \A k : k \in I <=> k \in DOMAIN G /\ k # 1
  BY <1>2, <1>3 DEF IsOnce
<1>5. I \in SUBSET DOMAIN G
  BY <1>4
<1> HIDE DEF I
<1>6. new = T
  <2>1. DOMAIN T = 1..(Len(G) - 1) /\ DOMAIN place = 1..(Len(G) - 1) /\ Len(G) - 1 \in Nat
    BY <1>1
  <2>2. \A k \in 1..(Len(G) - 1) : T[k] = G[k + 1] /\ place[k] = k + 1 /\ k + 1 \in DOMAIN G /\ k + 1 # 1
    BY <1>1
  <2>3. IsSequence(T)
    BY <2>1, OnPlaces
  <2>4. \A i \in I : i - 1 \in 1..(Len(G) - 1) /\ place[i - 1] = i
    BY <1>1, <1>4
  <2>5. \A j, k \in DOMAIN T : j < k => place[j] < place[k]
    BY <1>1, <2>1, <2>2
  <2> HIDE DEF T, place
  <2>6. ArePlaces(G, I, T, place)
    BY <1>4, <2>1, <2>2, <2>4, <2>5 DEF ArePlaces
  <2> QED
    BY <1>5, <2>3, <2>6, PickedOnce
<1>7. IsSequence(new)
  BY <1>5, PickedPlaces
<1>8. \A k \in 1..(Len(G) - 1) : new[k] = G[k + 1]
  BY <1>6
<1>9. DOMAIN new = 1..(Len(G) - 1)
  BY <1>6
<1> HIDE DEF new
<1>10. IsSequence(X) /\ Map!Begins(new, X)
  BY <1>7, FirstElements
<1> HIDE DEF X
<1>11. /\ DOMAIN X = 1..Len(X) /\ Len(X) \in Nat /\ DOMAIN new = 1..Len(new) /\ Len(new) \in Nat
       /\ Len(X) <= Len(new) /\ \A i \in DOMAIN X : new[i] = X[i]
  BY <1>7, <1>10, SequenceOf DEF IsSequence, Map!Begins
<1>12. Len(new) = Len(G) - 1
  <2>1. \A a, b \in Nat : 1..a = 1..b => a = b
    <3> SUFFICES ASSUME NEW a \in Nat, NEW b \in Nat, 1..a = 1..b PROVE a = b
      OBVIOUS
    <3>1. (a # 0 => a \in 1..b) /\ (b # 0 => b \in 1..a)
      OBVIOUS
    <3> QED
      BY <3>1
  <2>2. Len(G) - 1 \in Nat
    BY <1>1
  <2> QED
    BY <1>9, <1>11, <2>1, <2>2
<1>13. IsSequence(shown)
  BY <1>2, <1>10, ConcatElements
<1>14. /\ Len(shown) = 1 + Len(X)
       /\ \A i \in 1..(1 + Len(X)) : shown[i] = IF i <= 1 THEN P[i] ELSE X[i - 1]
  <2> DEFINE S == {P[i] : i \in DOMAIN P} \cup {X[i] : i \in DOMAIN X}
  <2>1. P \in Seq(S) /\ X \in Seq(S)
    BY <1>2, <1>10, SeqMonotonic DEF IsSequence
  <2> HIDE DEF S
  <2>2. Len(shown) = Len(P) + Len(X) /\ \A i \in 1..(Len(P) + Len(X)) :
          shown[i] = IF i <= Len(P) THEN P[i] ELSE X[i - Len(P)]
    BY <2>1, ConcatProperties
  <2> QED
    BY <1>2, <2>2
<1> HIDE DEF shown
<1>15. \A i \in 1..(1 + Len(X)) : G[i] = shown[i]
  <2> SUFFICES ASSUME NEW i \in 1..(1 + Len(X)) PROVE G[i] = shown[i]
    OBVIOUS
  <2>1. CASE i = 1
    BY <1>2, <1>14, <2>1
  <2>2. CASE i # 1
    <3>1. i - 1 \in 1..Len(X) /\ i - 1 \in 1..(Len(G) - 1) /\ (i - 1) + 1 = i /\ ~(i <= 1)
      BY <1>1, <1>11, <1>12, <2>2
    <3> QED
      BY <1>8, <1>11, <1>14, <3>1
  <2> QED
    BY <2>1, <2>2
<1>16. Len(shown) <= Len(G) /\ DOMAIN shown = 1..(1 + Len(X))
  <2>1. DOMAIN shown = 1..Len(shown)
    BY <1>13, SequenceOf DEF IsSequence
  <2> QED
    BY <1>1, <1>11, <1>12, <1>14, <2>1
<1>17. Map!Begins(G, shown)
  BY <1>15, <1>16 DEF Map!Begins
<1> QED
  BY <1>13, <1>17 DEF shown, X, new, I, P

(* Without a rule of its own a model has no other routes before its own. *)
LEMMA NoCustomRoutes ==
  ASSUME MapInv, NEW m, NEW t, Map!CustomFallbacksByModel(m) = <<>>
  PROVE  Map!CustomRoutes(m, t) = <<>>
<1> DEFINE to == Map!CustomFallbacksByModel(m)
           ss == [i \in DOMAIN to |-> Map!ResolveFallbackTarget(to[i], t)]
<1>1. Map!CustomRoutes(m, t) = Map!Joined(ss)
  BY DEF Map!CustomRoutes
<1>2. IsSequence(to) /\ DOMAIN to = {}
  BY EmptyList, SameLists
<1> HIDE DEF to
<1>3. IsSequence(ss) /\ DOMAIN ss = {}
  BY <1>2, MappedList
<1> HIDE DEF ss
<1>4. AreSequences(ss)
  BY <1>3 DEF AreSequences
<1>5. IsSequence(Map!Joined(ss)) /\ Map!Range(Map!Joined(ss)) = {}
  BY <1>3, <1>4, JoinedElements
<1> QED
  BY <1>1, <1>5, NothingListed

(* With the same model at its other channels for a fallback, all in order. *)
LEMMA MapOrder == MapInv /\ Map!NamesSortAlike => Map!SameModelInOrder
<1> SUFFICES ASSUME MapInv, Map!NamesSortAlike, NEW m \in RoutedName, NEW t \in Map!Type,
                    Map!Comparable(m, t), policy.mode = "same_model",
                    Map!CustomFallbacksByModel(m) = <<>>
             PROVE  Map!Begins(Map!TriedRoutes(m, t), Map!InUse(Map!ShownRoutes(m, t)))
  BY DEF Map!SameModelInOrder
<1> DEFINE P == Map!PrimaryRoutes(m, t)
           X == Map!FallbackRoutes(m, t)
           C == Map!CustomRoutes(m, t)
           S == Map!SitePolicyRoutes(m, t)
           G == Map!GetModelRoutes(m, t)
           tried == Map!TriedRoutes(m, t)
           shown == Map!ShownRoutes(m, t)
<1>1. shown = P \o X /\ C = <<>>
  BY NoCustomRoutes DEF Map!ShownRoutes
<1>2. IsSequence(P) /\ IsSequence(X)
  BY PrimaryList, FallbackList
<1>3. ASSUME X = <<>>
      PROVE  shown = P
  <2> HIDE DEF P, X, shown
  <2> QED
    BY <1>1, <1>2, <1>3, ConcatEmptySeq DEF IsSequence
<1>4. CASE ByAlias(m, t)
  <2>1. S = P
    BY <1>4 DEF ByAlias, Map!SitePolicyRoutes
  <2>2. Map!Range(X) \subseteq Map!Range(C) \cup Map!Range(S) /\ Map!Range(X) \cap Map!Range(P) = {}
    BY FallbackList
  <2>3. X = <<>>
    <3> HIDE DEF X, C, S, P
    <3>1. Map!Range(X) = {}
      BY <1>1, <2>1, <2>2, EmptyList
    <3> QED
      BY <1>2, <3>1, NothingListed
  <2>4. Map!InUse(P) = AskedList(Map!ResolveRoutesByModel(m, t), m)
    BY <1>4, InitialRoutes
  <2>5. Map!Begins(tried, AskedList(Map!ResolveRoutesByModel(m, t), m))
    BY TriedList
  <2> QED
    BY <1>3, <2>3, <2>4, <2>5
<1>5. CASE ByChannel(m, t)
  <2>1. P = Map!First(1, G)
    BY <1>5 DEF ByChannel, Map!PrimaryRoutes
  <2>2. IsSequence(G) /\ IsOnce(G) /\ Map!Range(G) = {Map!Route(c, m) : c \in Fitting(m, t)}
    BY DirectRoutes
  <2>3. G # <<>>
    <3> HIDE DEF G
    <3> QED
      BY <1>5, <2>2, EmptyList DEF ByChannel
  <2>4. IsSequence(shown) /\ Map!Begins(G, shown)
    <3>1. CASE policy.enabled
      <4>1. S = G
        BY <1>5 DEF ByChannel, Map!SitePolicyRoutes
      <4>2. C \o S = G
        <5> HIDE DEF C, S, G
        <5> QED
          BY <1>1, <2>2, <4>1, ConcatEmptySeq DEF IsSequence
      <4>3. Map!Distinct(G) = G
        BY <2>2, DistinctOfOnce
      <4>4. X = Map!First(policy.max, Map!Picked(Map!Distinct(C \o S),
              {k \in DOMAIN Map!Distinct(C \o S) : Map!Distinct(C \o S)[k] \notin Map!Range(P)}))
        BY <3>1 DEF Map!FallbackRoutes, Map!Where
      <4> HIDE DEF X, C, S, G, P, shown
      <4>5. X = Map!First(policy.max, Map!Picked(G, {k \in DOMAIN G : G[k] \notin Map!Range(P)}))
        BY <4>2, <4>3, <4>4
      <4>6. policy.max \in Int
        BY MapTypes
      <4> QED
        BY <1>1, <2>1, <2>2, <2>3, <4>5, <4>6, FirstAndOthers
    <3>2. CASE ~policy.enabled
      <4>1. shown = P
        BY <1>3, <3>2, FallbackList
      <4>2. Map!Begins(G, P)
        <5> HIDE DEF G, P
        <5>1. 1 \in Int
          OBVIOUS
        <5>2. \A n \in Int : Map!Begins(G, Map!First(n, G))
          BY <2>2, FirstElements
        <5> QED
          BY <2>1, <5>1, <5>2
      <4> QED
        BY <1>2, <4>1, <4>2
    <3> QED
      BY <3>1, <3>2
  <2> QED
    BY <1>5, <2>4, ChannelsInOrder
<1> QED
  BY <1>4, <1>5, WhyServed

(***************************************************************************)
(* The providers page: its tables, the channels its calls and its dialogs  *)
(* name, and its stack of dialogs, which holds each of them once.          *)
(***************************************************************************)
IsTypedCall(k) ==
  /\ k.kind # "list" => k.ch \in ListedChannel
  /\ k.kind = "toggle" => k.val \in BOOLEAN
  /\ k.kind = "create" /\ k.then = "import" => k.val \in Seq(ListedChannel)
  /\ k.kind = "list" /\ k.at = "ok" => k.ans \in ChannelTable

CallsTyped ==
  /\ \A i \in DOMAIN calls : IsTypedCall(calls[i])
  /\ Len(calls) <= MaxCalls["providers"]

TablesTyped ==
  /\ channels \in ChannelTable /\ providers \in {None} \cup ChannelTable
  /\ ops \in 0..MaxOps["providers"]

DialogsTyped ==
  /\ editor \in [mode : {"create", "edit"}, of : ListedChannel \cup {None},
                 form : ListedChannel \cup {None}]
  /\ deleting \in ListedChannel \cup {None} /\ tester.of \in ListedChannel \cup {None}
  /\ DOMAIN transfer = {"mode", "entries", "valid", "error"}
  /\ transfer.entries \in Seq(ListedChannel)

MarksTyped ==
  /\ pending \subseteq {"submit", "delete"}
  /\ toggling \subseteq ListedChannel /\ testing \subseteq ListedChannel /\ tested \subseteq ListedChannel

OpenOnce(s) ==
  /\ \A k \in DOMAIN s : s[k] \in Providers!Children \cup {"form"}
  /\ \A j, k \in DOMAIN s : s[j] = s[k] => j = k

ListTyped == CallsTyped /\ TablesTyped /\ DialogsTyped /\ MarksTyped /\ OpenOnce(stack)

LEMMA ListTypedInit == Providers!Init => ListTyped
<1> SUFFICES ASSUME Providers!Init PROVE ListTyped
  OBVIOUS
<1> DEFINE call == [kind |-> "list", ch |-> None, then |-> "shown", val |-> None,
                    at |-> "sent", ans |-> None]
<1>1. calls = <<call>> /\ call.kind = "list" /\ call.at = "sent"
  BY DEF Providers!Init
<1> HIDE DEF call
<1>2. CallsTyped
  BY <1>1, TablesAssumption DEF CallsTyped, IsTypedCall
<1>3. TablesTyped
  BY TablesAssumption DEF Providers!Init, TablesTyped
<1>4. DialogsTyped
  <2>1. <<>> \in Seq(ListedChannel)
    BY EmptySeq
  <2> QED
    BY <2>1 DEF Providers!Init, DialogsTyped
<1>5. MarksTyped
  BY DEF Providers!Init, MarksTyped
<1>6. OpenOnce(stack)
  <2>1. stack = <<>> /\ DOMAIN stack = {}
    BY EmptySeq DEF Providers!Init
  <2> QED
    BY <2>1 DEF OpenOnce
<1> QED
  BY <1>2, <1>3, <1>4, <1>5, <1>6 DEF ListTyped

LEMMA ListTypedSame ==
  ListTyped /\ UNCHANGED <<channels, providers, calls, ops, stack, editor, deleting, tester,
                           transfer, pending, toggling, testing, tested>> => ListTyped'
BY DEF ListTyped, CallsTyped, TablesTyped, DialogsTyped, MarksTyped

LEMMA LengthOf ==
  ASSUME NEW s, IsSequence(s)
  PROVE  Len(s) \in Nat /\ DOMAIN s = 1..Len(s)
BY SequenceOf DEF IsSequence

LEMMA LengthAtMost ==
  ASSUME NEW s, NEW t, IsSequence(s), IsSequence(t), DOMAIN t \subseteq DOMAIN s
  PROVE  Len(t) <= Len(s)
<1>1. Len(s) \in Nat /\ Len(t) \in Nat /\ DOMAIN s = 1..Len(s) /\ DOMAIN t = 1..Len(t)
  BY LengthOf
<1>2. Len(t) # 0 => Len(t) \in DOMAIN t
  BY <1>1
<1>3. Len(t) # 0 => Len(t) \in 1..Len(s)
  BY <1>1, <1>2
<1> QED
  BY <1>1, <1>3

(* The calls after one is sent, answered, or followed by another.            *)
LEMMA CallsSent ==
  ASSUME ProvidersInv, CallsTyped, NEW k, IsTypedCall(k), Providers!Operate(<<k>>)
  PROVE  CallsTyped'
<1>1. calls' = Append(calls, k)
  BY ProvidersSentOne
<1>2. /\ Len(calls) \in Nat /\ DOMAIN calls' = 1..Len(calls) + 1 /\ DOMAIN calls = 1..Len(calls)
      /\ (\A i \in 1..Len(calls) : calls'[i] = calls[i]) /\ calls'[Len(calls) + 1] = k
      /\ IsSequence(calls')
  BY <1>1, Appended DEF ProvidersInv, ChannelCalls
<1>3. Len(calls') = Len(calls) + 1
  BY <1>1, Appended DEF ProvidersInv, ChannelCalls
<1>4. Len(calls) + 1 <= MaxCalls["providers"]
  BY DEF Providers!Operate
<1>5. \A i \in DOMAIN calls' : i \in DOMAIN calls \/ i = Len(calls) + 1
  BY <1>2
<1> QED
  BY <1>2, <1>3, <1>4, <1>5 DEF CallsTyped

LEMMA CallsLeft ==
  ASSUME ProvidersInv, CallsTyped, NEW i \in DOMAIN calls, calls' = Left(calls, i)
  PROVE  CallsTyped'
<1>1. /\ IsSequence(calls') /\ DOMAIN calls' = 1..Len(calls) - 1 /\ Len(calls) \in Nat
      /\ DOMAIN calls = 1..Len(calls)
      /\ \A j \in DOMAIN calls' : Place(i, j) \in DOMAIN calls \ {i} /\ calls'[j] = calls[Place(i, j)]
  BY Removed DEF ProvidersInv, ChannelCalls
<1>2. Len(calls') \in Nat
  BY <1>1, LengthOf
<1>3. Len(calls') <= Len(calls)
  <2>1. IsSequence(calls) /\ DOMAIN calls' \subseteq DOMAIN calls
    BY <1>1 DEF ProvidersInv, ChannelCalls
  <2> QED
    BY <1>1, <2>1, LengthAtMost
<1> QED
  BY <1>1, <1>2, <1>3, TablesAssumption DEF CallsTyped

LEMMA CallsFollowed ==
  ASSUME ProvidersInv, CallsTyped, NEW i \in DOMAIN calls, NEW k, IsTypedCall(k),
         calls' = Append(Left(calls, i), k)
  PROVE  CallsTyped'
<1> DEFINE m == Left(calls, i)
<1>1. /\ IsSequence(m) /\ DOMAIN m = 1..Len(calls) - 1 /\ Len(calls) \in Nat
      /\ DOMAIN calls = 1..Len(calls)
      /\ \A j \in DOMAIN m : Place(i, j) \in DOMAIN calls \ {i} /\ m[j] = calls[Place(i, j)]
  BY Removed DEF ProvidersInv, ChannelCalls
<1>0. calls' = Append(m, k)
  OBVIOUS
<1> HIDE DEF m
<1>2. /\ Len(m) \in Nat /\ DOMAIN m = 1..Len(m) /\ DOMAIN calls' = 1..Len(m) + 1
      /\ (\A j \in 1..Len(m) : calls'[j] = m[j]) /\ calls'[Len(m) + 1] = k
      /\ Len(calls') = Len(m) + 1
  <2>0. IsSequence(m)
    BY <1>1
  <2>1. /\ IsSequence(Append(m, k)) /\ Len(Append(m, k)) = Len(m) + 1 /\ Len(m) \in Nat
        /\ DOMAIN m = 1..Len(m) /\ DOMAIN Append(m, k) = 1..Len(m) + 1
        /\ \A j \in 1..Len(m) : Append(m, k)[j] = m[j]
        /\ Append(m, k)[Len(m) + 1] = k
    BY ONLY <2>0, Appended
  <2> QED
    BY <1>0, <2>1, Zenon
<1>3. Len(calls) >= 1
  BY <1>1
<1>4. Len(calls') <= Len(calls)
  <2>1. CASE Len(m) = 0
    BY <1>1, <1>2, <1>3, <2>1
  <2>2. CASE Len(m) # 0
    <3>1. Len(m) \in DOMAIN m
      BY <1>2, <2>2
    <3>2. Len(m) \in 1..Len(calls) - 1
      BY <1>1, <3>1
    <3> QED
      BY <1>1, <1>2, <3>2
  <2> QED
    BY <2>1, <2>2
<1>5. \A j \in DOMAIN calls' : j \in DOMAIN m \/ j = Len(m) + 1
  BY <1>2
<1> QED
  BY <1>1, <1>2, <1>4, <1>5 DEF CallsTyped

LEMMA ReloadsTyped ==
  ASSUME ProvidersInv, CallsTyped, NEW i \in DOMAIN calls, NEW c, NEW then,
         Providers!Reload(Providers!Rest(i), c, then)
  PROVE  CallsTyped'
<1> DEFINE k == Providers!Call("list", c, then, None)
<1>1. calls' = Append(Left(calls, i), k)
  BY DEF Providers!Reload, Providers!Rest, Providers!WithoutAt, Left
<1>2. IsTypedCall(k)
  BY DEF Providers!Call, IsTypedCall
<1> HIDE DEF k
<1> QED
  BY <1>1, <1>2, CallsFollowed

(* What the server carries out leaves a table, and what it tells is one.     *)
LEMMA TableWritten ==
  ASSUME TablesTyped, NEW k, IsTypedCall(k), k.kind \in Providers!Writes, Providers!Exists(k.ch)
                                                                 \/ k.kind = "create"
  PROVE  Providers!After(k) \in ChannelTable
<1>1. channels \in ChannelTable /\ k.ch \in ListedChannel
  BY DEF TablesTyped, IsTypedCall, Providers!Writes
<1>2. \A row \in {None} \cup [enabled : BOOLEAN, rev : 0..MaxRev] :
        [channels EXCEPT ![k.ch] = row] \in ChannelTable
  BY <1>1 DEF ChannelTable
<1>3. Providers!Exists(k.ch) => channels[k.ch] \in [enabled : BOOLEAN, rev : 0..MaxRev]
  BY <1>1 DEF ChannelTable, Providers!Exists
<1>4. Providers!Bumped(k.ch) \in 0..MaxRev
  <2>1. MaxRev \in Nat \ {0}
    BY TablesAssumption
  <2>2. CASE Providers!Exists(k.ch)
    <3>1. channels[k.ch].rev \in Nat
      BY <1>3, <2>1, <2>2
    <3>2. (channels[k.ch].rev + 1) % MaxRev \in 0..MaxRev - 1
      BY <2>1, <3>1
    <3> QED
      BY <2>1, <2>2, <3>2 DEF Providers!Bumped
  <2>3. CASE ~Providers!Exists(k.ch)
    BY <2>1, <2>3 DEF Providers!Bumped
  <2> QED
    BY <2>2, <2>3
<1>5. CASE k.kind = "toggle"
  <2>1. k.val \in BOOLEAN
    BY <1>5 DEF IsTypedCall
  <2>2. [channels[k.ch] EXCEPT !.enabled = k.val] \in [enabled : BOOLEAN, rev : 0..MaxRev]
    BY <1>3, <1>5, <2>1
  <2>3. Providers!After(k) = [channels EXCEPT ![k.ch] = [channels[k.ch] EXCEPT !.enabled = k.val]]
    BY <1>1, <1>5 DEF Providers!After, ChannelTable
  <2> QED
    BY <1>2, <2>2, <2>3
<1>6. CASE k.kind = "update"
  <2>1. [channels[k.ch] EXCEPT !.rev = Providers!Bumped(k.ch)] \in [enabled : BOOLEAN, rev : 0..MaxRev]
    BY <1>3, <1>4, <1>6
  <2>2. Providers!After(k) =
          [channels EXCEPT ![k.ch] = [channels[k.ch] EXCEPT !.rev = Providers!Bumped(k.ch)]]
    BY <1>1, <1>6 DEF Providers!After, ChannelTable
  <2> QED
    BY <1>2, <2>1, <2>2
<1>7. CASE k.kind = "create"
  <2>1. Providers!After(k) = [channels EXCEPT ![k.ch] = [enabled |-> TRUE, rev |-> Providers!Bumped(k.ch)]]
    BY <1>7 DEF Providers!After
  <2> QED
    BY <1>2, <1>4, <2>1
<1>8. CASE k.kind = "delete"
  <2>1. Providers!After(k) = [channels EXCEPT ![k.ch] = None]
    BY <1>8 DEF Providers!After
  <2> QED
    BY <1>2, <2>1
<1> QED
  BY <1>5, <1>6, <1>7, <1>8 DEF Providers!Writes

LEMMA TablesServed ==
  ASSUME ProvidersInv, CallsTyped, TablesTyped, NEW i \in DOMAIN calls, Providers!Serve(i)
  PROVE  CallsTyped' /\ TablesTyped'
<1>1. PICK how, ans :
        /\ Providers!Served(i, how, ans)
        /\ calls[i].kind = "list" /\ how = "ok" => ans = channels
  BY DEF Providers!Serve
<1> DEFINE e == [calls[i] EXCEPT !.at = how, !.ans = ans]
<1>2. IsSequence(calls) /\ \A j \in DOMAIN calls : IsChannelCall(calls[j])
  BY DEF ProvidersInv, ChannelCalls
<1>3. /\ calls' = [calls EXCEPT ![i] = e] /\ e.at = how /\ e.ans = ans /\ e.val = calls[i].val
      /\ e.kind = calls[i].kind /\ e.ch = calls[i].ch /\ e.then = calls[i].then
  BY <1>1, <1>2 DEF Providers!Served, IsChannelCall
<1> HIDE DEF e
<1>4. /\ IsSequence(calls') /\ DOMAIN calls' = DOMAIN calls
      /\ calls'[i] = e /\ \A j \in DOMAIN calls \ {i} : calls'[j] = calls[j]
  BY <1>2, <1>3, Replaced
<1>5. IsTypedCall(calls[i]) /\ channels \in ChannelTable
  BY DEF CallsTyped, TablesTyped
<1>6. IsTypedCall(e)
  BY <1>1, <1>3, <1>5 DEF IsTypedCall
<1>7. Len(calls') <= MaxCalls["providers"]
  <2>1. Len(calls') <= Len(calls) /\ Len(calls') \in Nat /\ Len(calls) \in Nat
    BY <1>2, <1>4, LengthAtMost, LengthOf
  <2> QED
    BY <2>1, TablesAssumption DEF CallsTyped
<1>8. CallsTyped'
  BY <1>4, <1>6, <1>7 DEF CallsTyped
<1>9. channels' \in ChannelTable
  <2>1. CASE channels' = channels
    BY <1>5, <2>1
  <2>2. CASE channels' # channels
    <3>1. calls[i].kind \in Providers!Writes /\ channels' = Providers!After(calls[i])
          /\ (Providers!Exists(calls[i].ch) \/ calls[i].kind = "create")
      BY <2>2 DEF Providers!Serve, Providers!Writes, Providers!NeedsRow
    <3> QED
      BY <1>5, <3>1, TableWritten
  <2> QED
    BY <2>1, <2>2
<1>10. UNCHANGED <<providers, ops>>
  BY DEF Providers!Serve, Providers!pageVars
<1> QED
  BY <1>8, <1>9, <1>10 DEF TablesTyped

PageTyped == CallsTyped /\ TablesTyped /\ DialogsTyped /\ MarksTyped

LEMMA TablesKept ==
  ASSUME CallsTyped, TablesTyped, UNCHANGED <<channels, providers, calls, ops>>
  PROVE  CallsTyped' /\ TablesTyped'
BY DEF CallsTyped, TablesTyped

LEMMA TablesSent ==
  ASSUME ProvidersInv, CallsTyped, TablesTyped, NEW k, IsTypedCall(k), Providers!Operate(<<k>>)
  PROVE  CallsTyped' /\ TablesTyped'
<1>1. UNCHANGED <<channels, providers>> /\ ops' \in 0..MaxOps["providers"]
  BY TablesAssumption DEF Providers!Operate, Providers!pageVars, TablesTyped
<1> QED
  BY <1>1, CallsSent DEF TablesTyped

LEMMA DialogsSame == DialogsTyped /\ UNCHANGED <<editor, deleting, tester, transfer>> => DialogsTyped'
BY DEF DialogsTyped

LEMMA MarksSame == MarksTyped /\ UNCHANGED <<pending, toggling, testing, tested>> => MarksTyped'
BY DEF MarksTyped

(* What the user does.                                                       *)
LEMMA PageUsed ==
  ASSUME ProvidersInv, PageTyped, Providers!User
  PROVE  PageTyped'
<1>1. CallsTyped /\ TablesTyped /\ DialogsTyped /\ MarksTyped
  BY DEF PageTyped
<1>2. ASSUME Providers!Quietly
      PROVE  CallsTyped' /\ TablesTyped'
  BY <1>1, <1>2, TablesKept DEF Providers!Quietly, Providers!pageVars
<1>3. ASSUME UNCHANGED Providers!flagVars
      PROVE  MarksTyped'
  BY <1>1, <1>3, MarksSame DEF Providers!flagVars
<1>4. ASSUME UNCHANGED Providers!dialogVars
      PROVE  DialogsTyped'
  BY <1>1, <1>4, DialogsSame DEF Providers!dialogVars
<1>5. \A c \in ListedChannel, kind \in {"detail", "update", "delete", "test"} : \A then, val :
        IsTypedCall(Providers!Call(kind, c, then, val))
  BY DEF Providers!Call, IsTypedCall
<1>6. ASSUME NEW d, Providers!CloseChild(d)
      PROVE  PageTyped'
  BY <1>1, <1>2, <1>3, <1>6, DialogsSame DEF Providers!CloseChild, PageTyped
<1>7. CASE Providers!CloseForm \/ Providers!OpenSyncDialog
  BY <1>1, <1>2, <1>3, <1>7, DialogsSame DEF Providers!CloseForm, Providers!OpenSyncDialog, PageTyped
<1>8. CASE Providers!OpenCreateDialog
  <2>1. DialogsTyped'
    BY <1>1, <1>8 DEF Providers!OpenCreateDialog, DialogsTyped
  <2> QED
    BY <1>2, <1>3, <1>8, <2>1 DEF Providers!OpenCreateDialog, PageTyped
<1>9. ASSUME NEW c \in ListedChannel, Providers!OpenEditDialog(c)
      PROVE  PageTyped'
  <2>1. DialogsTyped'
    BY <1>1, <1>9 DEF Providers!OpenEditDialog, DialogsTyped
  <2>2. CallsTyped' /\ TablesTyped'
    BY <1>1, <1>5, <1>9, TablesSent DEF Providers!OpenEditDialog
  <2> QED
    BY <1>3, <1>9, <2>1, <2>2 DEF Providers!OpenEditDialog, PageTyped
<1>10. CASE Providers!HandleSubmit
  <2>1. PICK kind \in {"create", "update"}, c \in ListedChannel :
          Providers!Operate(<<Providers!Call(kind, c, "submit", None)>>)
    <3>1. CASE editor.mode = "create"
      BY <1>10, <3>1 DEF Providers!HandleSubmit
    <3>2. CASE editor.mode # "create"
      <4>1. editor.of \in ListedChannel
        BY <1>1, <3>2 DEF DialogsTyped, ProvidersInv, ProvidersEdited
      <4> QED
        BY <1>10, <3>2, <4>1 DEF Providers!HandleSubmit
    <3> QED
      BY <3>1, <3>2
  <2>2. IsTypedCall(Providers!Call(kind, c, "submit", None))
    BY DEF Providers!Call, IsTypedCall
  <2>3. CallsTyped' /\ TablesTyped'
    BY <1>1, <2>1, <2>2, TablesSent
  <2>4. MarksTyped'
    BY <1>1, <1>10 DEF Providers!HandleSubmit, MarksTyped
  <2> QED
    BY <1>4, <1>10, <2>3, <2>4 DEF Providers!HandleSubmit, PageTyped
<1>11. ASSUME NEW c \in ListedChannel, Providers!OpenDeleteDialog(c)
       PROVE  PageTyped'
  <2>1. DialogsTyped'
    BY <1>1, <1>11 DEF Providers!OpenDeleteDialog, DialogsTyped
  <2> QED
    BY <1>2, <1>3, <1>11, <2>1 DEF Providers!OpenDeleteDialog, PageTyped
<1>12. CASE Providers!HandleDeleteProvider
  <2>1. deleting \in ListedChannel
    BY <1>1, <1>12 DEF Providers!HandleDeleteProvider, Providers!CanDelete, DialogsTyped
  <2>2. CallsTyped' /\ TablesTyped'
    BY <1>1, <1>5, <1>12, <2>1, TablesSent DEF Providers!HandleDeleteProvider
  <2>3. MarksTyped'
    BY <1>1, <1>12 DEF Providers!HandleDeleteProvider, MarksTyped
  <2> QED
    BY <1>4, <1>12, <2>2, <2>3 DEF Providers!HandleDeleteProvider, PageTyped
<1>13. ASSUME NEW c \in ListedChannel, Providers!ToggleSingleProvider(c)
       PROVE  PageTyped'
  <2>1. IsTypedCall(Providers!Call("toggle", c, "reload", ~providers[c].enabled))
    BY DEF Providers!Call, IsTypedCall
  <2>2. CallsTyped' /\ TablesTyped'
    BY <1>1, <1>13, <2>1, TablesSent DEF Providers!ToggleSingleProvider
  <2>3. MarksTyped'
    BY <1>1, <1>13 DEF Providers!ToggleSingleProvider, MarksTyped
  <2> QED
    BY <1>4, <1>13, <2>2, <2>3 DEF Providers!ToggleSingleProvider, PageTyped
<1>14. ASSUME NEW c \in ListedChannel, Providers!OpenTestDialog(c)
       PROVE  PageTyped'
  <2>1. DialogsTyped'
    BY <1>1, <1>14 DEF Providers!OpenTestDialog, DialogsTyped, ProvidersInv, ProvidersTester
  <2> QED
    BY <1>2, <1>3, <1>14, <2>1 DEF Providers!OpenTestDialog, PageTyped
<1>15. CASE Providers!HandleTestDialogTest
  <2>1. tester.of \in ListedChannel
    BY <1>1, <1>15 DEF Providers!HandleTestDialogTest, Providers!CanTest, DialogsTyped
  <2>2. CallsTyped' /\ TablesTyped'
    BY <1>1, <1>5, <1>15, <2>1, TablesSent DEF Providers!HandleTestDialogTest
  <2>3. MarksTyped'
    BY <1>1, <1>15, <2>1 DEF Providers!HandleTestDialogTest, MarksTyped
  <2>4. DialogsTyped'
    BY <1>1, <1>15 DEF Providers!HandleTestDialogTest, DialogsTyped, ProvidersInv, ProvidersTester
  <2> QED
    BY <2>2, <2>3, <2>4 DEF PageTyped
<1>16. CASE Providers!TestAllProviders
  <2>1. /\ \A j \in DOMAIN calls : calls'[j] = calls[j]
        /\ \A j \in DOMAIN calls' \ DOMAIN calls :
             calls'[j].kind = "test" /\ calls'[j].ch \in ListedChannel
        /\ Len(calls') <= MaxCalls["providers"]
    BY <1>16, ProvidersAllTested
  <2>2. CallsTyped'
    BY <1>1, <2>1 DEF CallsTyped, IsTypedCall
  <2>3. TablesTyped'
    BY <1>1, <1>16, TablesAssumption DEF Providers!TestAllProviders, TablesTyped
  <2>4. MarksTyped'
    BY <1>1, <1>16 DEF Providers!TestAllProviders, Providers!Listed, MarksTyped
  <2> QED
    BY <1>4, <1>16, <2>2, <2>3, <2>4 DEF Providers!TestAllProviders, PageTyped
<1>17. ASSUME NEW entries \in Seq(ListedChannel), NEW valid, NEW error0,
              \/ transfer' = [transfer EXCEPT !.entries = entries, !.valid = valid]
              \/ transfer' = [transfer EXCEPT !.error = error0]
              \/ \E mode : transfer' = [mode |-> mode, entries |-> entries, valid |-> valid,
                                        error |-> error0],
              UNCHANGED <<editor, deleting, tester>>
       PROVE  DialogsTyped'
  <2>1. DOMAIN transfer = {"mode", "entries", "valid", "error"} /\ transfer.entries \in Seq(ListedChannel)
    BY <1>1 DEF DialogsTyped
  <2>2. DOMAIN transfer' = {"mode", "entries", "valid", "error"} /\ transfer'.entries \in Seq(ListedChannel)
    <3>1. CASE transfer' = [transfer EXCEPT !.entries = entries, !.valid = valid]
      BY <2>1, <3>1
    <3>2. CASE transfer' = [transfer EXCEPT !.error = error0]
      BY <2>1, <3>2
    <3>3. CASE \E mode : transfer' = [mode |-> mode, entries |-> entries, valid |-> valid,
                                      error |-> error0]
      BY <3>3
    <3> QED
      BY <1>17, <3>1, <3>2, <3>3
  <2> QED
    BY <1>1, <1>17, <2>2 DEF DialogsTyped
<1>18. \A S \in SUBSET ListedChannel : Providers!Listing(S) \in Seq(ListedChannel)
  <2> SUFFICES ASSUME NEW S \in SUBSET ListedChannel PROVE Providers!Listing(S) \in Seq(ListedChannel)
    OBVIOUS
  <2>1. IsFiniteSet(S)
    BY FS_Subset, ChannelsAssumption
  <2>2. Providers!Listing(S) \in Seq(S)
    BY <2>1, ListingProperties
  <2> QED
    BY <2>2, SeqMonotonic
<1>19. <<>> \in Seq(ListedChannel)
  BY EmptySeq
<1>20. CASE Providers!OpenExport \/ Providers!OpenImport
  <2>1. Providers!Listing(Providers!Listed) \in Seq(ListedChannel)
    BY <1>18 DEF Providers!Listed
  <2>2. DialogsTyped'
    <3>1. CASE Providers!OpenExport
      BY <1>17, <2>1, <3>1 DEF Providers!OpenExport
    <3>2. CASE Providers!OpenImport
      BY <1>17, <1>19, <3>2 DEF Providers!OpenImport
    <3> QED
      BY <1>20, <3>1, <3>2
  <2> QED
    BY <1>2, <1>3, <1>20, <2>2 DEF Providers!OpenExport, Providers!OpenImport, PageTyped
<1>21. CASE Providers!EditConfigJson
  <2>1. DialogsTyped'
    <3>1. PICK entries \in Seq(ListedChannel), valid \in BOOLEAN :
            transfer' = [transfer EXCEPT !.entries = entries, !.valid = valid]
      BY <1>18, <1>19, <1>21 DEF Providers!EditConfigJson
    <3> QED
      BY <1>17, <1>21, <3>1 DEF Providers!EditConfigJson
  <2> QED
    BY <1>2, <1>3, <1>21, <2>1 DEF Providers!EditConfigJson, PageTyped
<1>22. CASE Providers!HandleImport
  <2>1. DialogsTyped'
    BY <1>17, <1>19, <1>22 DEF Providers!HandleImport
  <2>2. CallsTyped' /\ TablesTyped'
    <3>1. CASE Providers!Quietly
      BY <1>2, <3>1
    <3>2. CASE ~Providers!Quietly
      <4> DEFINE k == Providers!Call("create", Head(transfer.entries), "import", Tail(transfer.entries))
      <4>1. transfer.entries # <<>> /\ Providers!Operate(<<k>>)
        BY <1>22, <3>2 DEF Providers!HandleImport
      <4>2. Head(transfer.entries) \in ListedChannel /\ Tail(transfer.entries) \in Seq(ListedChannel)
        BY <1>1, <4>1, HeadTailProperties DEF DialogsTyped
      <4>3. IsTypedCall(k)
        BY <4>2 DEF Providers!Call, IsTypedCall
      <4> HIDE DEF k
      <4> QED
        BY <1>1, <4>1, <4>3, TablesSent
    <3> QED
      BY <3>1, <3>2
  <2> QED
    BY <1>3, <1>22, <2>1, <2>2 DEF Providers!HandleImport, PageTyped
<1> QED
  BY <1>6, <1>7, <1>8, <1>9, <1>10, <1>11, <1>12, <1>13, <1>14, <1>15, <1>16, <1>20, <1>21, <1>22
  DEF Providers!User

(* What the answers do.                                                      *)
LEMMA PageAnswered ==
  ASSUME ProvidersInv, ListFresh, PageTyped, NEW i \in DOMAIN calls, Providers!Answer(i)
  PROVE  PageTyped'
<1>1. CallsTyped /\ TablesTyped /\ DialogsTyped /\ MarksTyped /\ IsTypedCall(calls[i])
  BY DEF PageTyped, CallsTyped
<1>2. Providers!Rest(i) = Left(calls, i) /\ IsChannelCall(calls[i])
  BY DEF Providers!Rest, Providers!WithoutAt, Left, ProvidersInv, ChannelCalls
<1>3. ASSUME UNCHANGED Providers!flagVars
      PROVE  MarksTyped'
  BY <1>1, <1>3, MarksSame DEF Providers!flagVars
<1>4. ASSUME UNCHANGED <<channels, providers, ops>>
      PROVE  TablesTyped'
  BY <1>1, <1>4 DEF TablesTyped
<1>5. ASSUME UNCHANGED Providers!dialogVars
      PROVE  DialogsTyped'
  BY <1>1, <1>5, DialogsSame DEF Providers!dialogVars
<1>6. ASSUME calls' = Providers!Rest(i)
      PROVE  CallsTyped'
  BY <1>1, <1>2, <1>6, CallsLeft
<1>7. ASSUME NEW c, NEW then, Providers!Reload(Providers!Rest(i), c, then)
      PROVE  CallsTyped'
  BY <1>1, <1>7, ReloadsTyped
<1>8. ASSUME Providers!ListAnswered(i)
      PROVE  PageTyped'
  <2>1. TablesTyped'
    <3>1. UNCHANGED <<channels, ops>> /\ calls[i].kind = "list" /\ calls[i].at # "sent"
      BY <1>8 DEF Providers!ListAnswered, Providers!Answered
    <3>2. CASE Providers!Failed(i)
      BY <1>4, <1>8, <3>1, <3>2 DEF Providers!ListAnswered
    <3>3. CASE ~Providers!Failed(i)
      <4>1. calls[i].at = "ok" /\ providers' = calls[i].ans
        BY <1>8, <3>1, <3>3 DEF Providers!ListAnswered, Providers!Failed, ListFresh, IsAt
      <4> QED
        BY <1>1, <3>1, <4>1 DEF IsTypedCall, TablesTyped
    <3> QED
      BY <3>2, <3>3
  <2>2. MarksTyped'
    BY <1>1, <1>8 DEF Providers!ListAnswered, MarksTyped
  <2> QED
    BY <1>1, <1>6, <1>8, <2>1, <2>2, DialogsSame DEF Providers!ListAnswered, PageTyped
<1>9. CASE Providers!DetailAnswered(i)
  <2>1. calls[i].kind = "detail" /\ calls' = Providers!Rest(i)
        /\ editor' \in {editor, Providers!FilledFor(calls[i].ch)}
        /\ UNCHANGED <<channels, providers, ops, tester, deleting, transfer, Providers!flagVars>>
    BY <1>9 DEF Providers!DetailAnswered, Providers!Answered
  <2>2. calls[i].ch \in ListedChannel
    BY <1>1, <2>1 DEF IsTypedCall
  <2>3. DialogsTyped'
    BY <1>1, <2>1, <2>2 DEF Providers!FilledFor, DialogsTyped, ProvidersInv, ProvidersEdited
  <2>4. UNCHANGED <<channels, providers, ops>> /\ UNCHANGED Providers!flagVars
    BY <2>1
  <2> QED
    BY <1>3, <1>4, <1>6, <2>1, <2>3, <2>4 DEF PageTyped
<1>10. CASE Providers!ToggleAnswered(i)
  <2>1. /\ UNCHANGED <<channels, providers, ops>> /\ UNCHANGED Providers!flagVars
        /\ UNCHANGED Providers!dialogVars
        /\ Providers!Reload(Providers!Rest(i), calls[i].ch, "toggle")
    BY <1>10 DEF Providers!ToggleAnswered, Providers!pageVars
  <2> QED
    BY <1>3, <1>4, <1>5, <1>7, <2>1 DEF PageTyped
<1>11. CASE Providers!SubmitAnswered(i)
  <2>1. /\ UNCHANGED <<channels, providers, ops>> /\ UNCHANGED Providers!dialogVars
        /\ UNCHANGED <<toggling, testing, tested>> /\ pending' \subseteq pending
        /\ calls' = Providers!Rest(i) \/ Providers!Reload(Providers!Rest(i), None, "submit")
    BY <1>11 DEF Providers!SubmitAnswered, Providers!SubmitDone, Providers!pageVars
  <2>2. MarksTyped'
    BY <1>1, <2>1 DEF MarksTyped
  <2> QED
    BY <1>4, <1>5, <1>6, <1>7, <2>1, <2>2 DEF PageTyped
<1>12. CASE Providers!DeleteAnswered(i)
  <2>1. /\ UNCHANGED <<channels, providers, ops>> /\ UNCHANGED <<editor, tester, transfer>>
        /\ UNCHANGED <<toggling, testing, tested>> /\ pending' \subseteq pending
        /\ deleting' \in {deleting, None}
        /\ calls' = Providers!Rest(i) \/ Providers!Reload(Providers!Rest(i), None, "delete")
    BY <1>12 DEF Providers!DeleteAnswered, Providers!pageVars
  <2>2. MarksTyped' /\ DialogsTyped'
    BY <1>1, <2>1 DEF MarksTyped, DialogsTyped
  <2> QED
    BY <1>4, <1>6, <1>7, <2>1, <2>2 DEF PageTyped
<1>13. CASE Providers!ImportAnswered(i)
  <2>1. /\ UNCHANGED <<channels, providers, ops>> /\ UNCHANGED <<editor, tester, deleting>>
        /\ UNCHANGED Providers!flagVars
        /\ transfer' \in {transfer, [transfer EXCEPT !.error = TRUE]}
        /\ calls[i].kind = "create" /\ calls[i].then = "import"
    BY <1>13 DEF Providers!ImportAnswered, Providers!Answered, Providers!pageVars
  <2>2. DialogsTyped'
    <3>1. DOMAIN transfer' = {"mode", "entries", "valid", "error"} /\ transfer'.entries = transfer.entries
      BY <1>1, <2>1 DEF DialogsTyped
    <3> QED
      BY <1>1, <2>1, <3>1 DEF DialogsTyped
  <2>3. CallsTyped'
    <3>1. CASE Providers!Failed(i)
      BY <1>6, <1>13, <3>1 DEF Providers!ImportAnswered
    <3>2. CASE ~Providers!Failed(i) /\ calls[i].val = <<>>
      BY <1>7, <1>13, <3>2 DEF Providers!ImportAnswered
    <3>3. CASE ~Providers!Failed(i) /\ calls[i].val # <<>>
      <4> DEFINE k == Providers!Call("create", Head(calls[i].val), "import", Tail(calls[i].val))
      <4>1. calls' = Append(Left(calls, i), k)
        BY <1>2, <1>13, <3>3 DEF Providers!ImportAnswered
      <4>2. Head(calls[i].val) \in ListedChannel /\ Tail(calls[i].val) \in Seq(ListedChannel)
        <5>1. calls[i].val \in Seq(ListedChannel)
          BY <1>1, <2>1 DEF IsTypedCall
        <5> QED
          BY <3>3, <5>1, HeadTailProperties
      <4>3. IsTypedCall(k)
        BY <4>2 DEF Providers!Call, IsTypedCall
      <4> HIDE DEF k
      <4> QED
        BY <1>1, <4>1, <4>3, CallsFollowed
    <3> QED
      BY <3>1, <3>2, <3>3
  <2> QED
    BY <1>3, <1>4, <2>1, <2>2, <2>3 DEF PageTyped
<1>14. CASE Providers!TestAnswered(i)
  <2>1. /\ UNCHANGED <<channels, providers, ops>> /\ UNCHANGED <<editor, deleting, transfer>>
        /\ UNCHANGED <<pending, toggling>> /\ calls[i].kind = "test" /\ calls' = Providers!Rest(i)
        /\ testing' = testing \ {calls[i].ch} /\ tested' = tested \cup {calls[i].ch}
        /\ tester' \in {tester, [tester EXCEPT !.result = calls[i].ch, !.loading = FALSE]}
    BY <1>14 DEF Providers!TestAnswered, Providers!Answered
  <2>2. calls[i].ch \in ListedChannel
    BY <1>1, <2>1 DEF IsTypedCall
  <2>3. MarksTyped'
    BY <1>1, <2>1, <2>2 DEF MarksTyped
  <2>4. tester'.of = tester.of
    BY <2>1 DEF ProvidersInv, ProvidersTester
  <2>5. DialogsTyped'
    BY <1>1, <2>1, <2>4 DEF DialogsTyped
  <2> QED
    BY <1>4, <1>6, <2>1, <2>3, <2>5 DEF PageTyped
<1> QED
  BY <1>8, <1>9, <1>10, <1>11, <1>12, <1>13, <1>14 DEF Providers!Answer

LEMMA PageStep == ProvidersInv /\ ListFresh /\ PageTyped /\ Providers!Next => PageTyped'
<1> SUFFICES ASSUME ProvidersInv, ListFresh, PageTyped, Providers!Next PROVE PageTyped'
  OBVIOUS
<1>1. ASSUME NEW i \in DOMAIN calls, Providers!Serve(i)
      PROVE  PageTyped'
  <2>1. UNCHANGED <<editor, deleting, tester, transfer, pending, toggling, testing, tested>>
    BY <1>1 DEF Providers!Serve, Providers!dialogVars, Providers!flagVars
  <2> QED
    BY <1>1, <2>1, TablesServed, DialogsSame, MarksSame DEF PageTyped
<1>2. CASE Providers!ChildTimerFires
  BY <1>2, TablesKept, DialogsSame, MarksSame
  DEF Providers!ChildTimerFires, Providers!pageVars, Providers!flagVars, PageTyped
<1> QED
  BY <1>1, <1>2, PageUsed, PageAnswered DEF Providers!Next, Providers!Respond

(* A dialog is opened once, and closing leaves the others as they are.       *)
LEMMA OnceOpened ==
  ASSUME DialogsInv, OpenOnce(stack), NEW d \in Providers!Children \cup {"form"}, Providers!Opened(d)
  PROVE  OpenOnce(stack')
<1>1. CASE Providers!Open(d)
  BY <1>1 DEF Providers!Opened
<1>2. CASE ~Providers!Open(d)
  <2>1. stack' = Append(stack, d)
    BY <1>2 DEF Providers!Opened
  <2>2. /\ Len(stack) \in Nat
        /\ DOMAIN stack = 1..Len(stack) /\ DOMAIN stack' = 1..Len(stack) + 1
        /\ (\A i \in 1..Len(stack) : stack'[i] = stack[i]) /\ stack'[Len(stack) + 1] = d
    BY <2>1, Appended DEF DialogsInv
  <2>3. \A k \in DOMAIN stack : stack[k] # d
    BY <1>2 DEF Providers!Open, Providers!Range
  <2>4. DOMAIN stack' = DOMAIN stack \cup {Len(stack) + 1}
    BY <2>2
  <2> QED
    BY <2>2, <2>3, <2>4 DEF OpenOnce
<1> QED
  BY <1>1, <1>2

LEMMA OnceKept ==
  ASSUME NEW s, IsSequence(s), OpenOnce(s), NEW d
  PROVE  OpenOnce(Providers!ButFor(s, d))
<1> DEFINE I == {i \in DOMAIN s : s[i] # d}
           t == Failover!Picked(s, I)
           place == Failover!Ascending(I)
<1>1. I \in SUBSET DOMAIN s
  OBVIOUS
<1>2. /\ \A k \in DOMAIN t : place[k] \in I /\ t[k] = s[place[k]]
      /\ \A j, k \in DOMAIN t : place[j] = place[k] => j = k
  BY <1>1, PickedElements
<1>3. Providers!ButFor(s, d) = t
  BY DEF Providers!ButFor, Providers!Picked, Providers!Ascending, Providers!Ordered,
         Providers!Cardinality, Failover!Picked, Failover!Ascending, Failover!Ordered,
         Failover!Cardinality
<1> HIDE DEF t, place, I
<1>4. OpenOnce(t)
  BY <1>1, <1>2 DEF OpenOnce
<1> QED
  BY <1>3, <1>4

LEMMA OnceStep ==
  ASSUME ProvidersInv, DialogsInv, OpenOnce(stack), Providers!Next
  PROVE  OpenOnce(stack')
<1>1. ASSUME UNCHANGED stack
      PROVE  OpenOnce(stack')
  BY <1>1
<1>2. ASSUME NEW d \in Providers!Children \cup {"form"}, Providers!Opened(d)
      PROVE  OpenOnce(stack')
  BY <1>2, OnceOpened
<1>3. ASSUME NEW d, Providers!Closed(Providers!Without(d)) \/ Providers!Closed(Providers!Dismissed(stack))
                      \/ Providers!Closed(Providers!Dismissed(Providers!Without(d)))
      PROVE  OpenOnce(stack')
  <2>1. OpenOnce(Providers!Without(d)) /\ IsSequence(Providers!Without(d))
    BY OnceKept, KeptDialogs DEF Providers!Without, DialogsInv
  <2>2. OpenOnce(Providers!Dismissed(stack)) /\ OpenOnce(Providers!Dismissed(Providers!Without(d)))
    BY <2>1, OnceKept DEF Providers!Dismissed, DialogsInv
  <2> QED
    BY <1>3, <2>1, <2>2 DEF Providers!Closed
<1>4. ASSUME NEW d \in Providers!Children, Providers!CloseChild(d)
      PROVE  OpenOnce(stack')
  BY <1>3, <1>4 DEF Providers!CloseChild
<1>5. CASE Providers!CloseForm
  BY <1>3, <1>5 DEF Providers!CloseForm
<1>6. CASE Providers!ChildTimerFires
  BY <1>1, <1>6 DEF Providers!ChildTimerFires
<1>7. ASSUME NEW i \in DOMAIN calls, Providers!ListAnswered(i)
      PROVE  OpenOnce(stack')
  BY <1>1, <1>3, <1>7 DEF Providers!ListAnswered
<1>8. ASSUME NEW i \in DOMAIN calls, Providers!DetailAnswered(i)
      PROVE  OpenOnce(stack')
  BY <1>1, <1>2, <1>8 DEF Providers!DetailAnswered
<1>9. ASSUME NEW i \in DOMAIN calls, Providers!DeleteAnswered(i)
      PROVE  OpenOnce(stack')
  BY <1>1, <1>3, <1>9 DEF Providers!DeleteAnswered
<1>10. ASSUME NEW i \in DOMAIN calls,
              \/ Providers!ToggleAnswered(i) \/ Providers!SubmitAnswered(i)
              \/ Providers!ImportAnswered(i) \/ Providers!TestAnswered(i) \/ Providers!Serve(i)
       PROVE  OpenOnce(stack')
  BY <1>1, <1>10
  DEF Providers!ToggleAnswered, Providers!SubmitAnswered, Providers!ImportAnswered,
      Providers!TestAnswered, Providers!Serve, Providers!dialogVars
<1>11. CASE \/ Providers!OpenCreateDialog \/ Providers!OpenSyncDialog
            \/ Providers!OpenExport \/ Providers!OpenImport
  BY <1>2, <1>11 DEF Providers!OpenCreateDialog, Providers!OpenSyncDialog,
     Providers!OpenExport, Providers!OpenImport, Providers!Children
<1>12. CASE \/ Providers!HandleSubmit \/ Providers!HandleDeleteProvider
            \/ Providers!HandleTestDialogTest \/ Providers!TestAllProviders
            \/ Providers!EditConfigJson \/ Providers!HandleImport
  BY <1>1, <1>12 DEF Providers!HandleSubmit, Providers!HandleDeleteProvider,
     Providers!HandleTestDialogTest, Providers!TestAllProviders, Providers!EditConfigJson,
     Providers!HandleImport, Providers!dialogVars
<1>13. ASSUME NEW c, \/ Providers!OpenEditDialog(c) \/ Providers!OpenDeleteDialog(c)
                     \/ Providers!ToggleSingleProvider(c) \/ Providers!OpenTestDialog(c)
       PROVE  OpenOnce(stack')
  BY <1>1, <1>2, <1>13 DEF Providers!OpenEditDialog, Providers!OpenDeleteDialog,
     Providers!ToggleSingleProvider, Providers!OpenTestDialog, Providers!dialogVars,
     Providers!Children
<1> QED
  BY <1>4, <1>5, <1>6, <1>7, <1>8, <1>9, <1>10, <1>11, <1>12, <1>13
  DEF Providers!Next, Providers!User, Providers!Respond, Providers!Answer

LEMMA ProvidersTyped == ProvidersInv /\ ListTyped => Providers!TypeOK
<1> SUFFICES ASSUME ProvidersInv, ListTyped PROVE Providers!TypeOK
  OBVIOUS
<1>1. CallsTyped /\ TablesTyped /\ DialogsTyped /\ MarksTyped /\ OpenOnce(stack)
  BY DEF ListTyped
<1>2. providers \in {None} \cup [ListedChannel -> {None} \cup [enabled : BOOLEAN, rev : 0..MaxRev]]
  BY <1>1 DEF TablesTyped, ChannelTable
<1>3. /\ Providers!Range(stack) \subseteq Providers!Children \cup {"form"}
      /\ \A j, k \in DOMAIN stack : stack[j] = stack[k] => j = k
  BY <1>1 DEF OpenOnce, Providers!Range
<1>4. editor \in [mode : {"create", "edit"}, of : ListedChannel \cup {None},
                  form : ListedChannel \cup {None}]
  BY <1>1 DEF DialogsTyped
<1>5. pending \subseteq {"submit", "delete"} /\ toggling \cup testing \cup tested \subseteq ListedChannel
  BY <1>1 DEF MarksTyped
<1>6. Len(calls) <= MaxCalls["providers"] /\ ops \in 0..MaxOps["providers"]
  BY <1>1 DEF CallsTyped, TablesTyped
<1> QED
  BY <1>2, <1>3, <1>4, <1>5, <1>6, Zenon DEF Providers!TypeOK

(***************************************************************************)
(* Every page keeps its types, and its calls are out one at a time.        *)
(***************************************************************************)
ListOnce   == ProvidersInv /\ ListFresh /\ DialogsInv /\ ListTyped
PolicyOnce == PolicyInv /\ PolicyBounded /\ FeedbackFading
ModelsOnce == ModelsInv /\ ModelsNamed /\ ModelsOut

OneInv ==
  /\ page = "providers" => ListOnce
  /\ page = "form"      => FormInv
  /\ page = "map"       => MapInv
  /\ page = "routes"    => AliasesInv /\ RoutesNamed
  /\ page = "failover"  => PolicyOnce
  /\ page = "keys"      => KeysListed /\ KeysNamed
  /\ page = "models"    => ModelsOnce
  /\ page = "settings"  => SettingsInv /\ FeedbackFading

LEMMA FeedbackInit == Settings!Init \/ Failover!Init => FeedbackFading
<1> SUFFICES ASSUME Settings!Init \/ Failover!Init PROVE FeedbackFading
  OBVIOUS
<1>1. feedback = [shown |-> FALSE, timers |-> 0]
  BY DEF Settings!Init, Failover!Init
<1>2. ~feedback.shown
  BY <1>1
<1>3. feedback \in [shown : BOOLEAN, timers : Nat]
  BY <1>1
<1> QED
  BY <1>2, <1>3 DEF FeedbackFading

LEMMA OneInit == Init => OneInv
<1> SUFFICES ASSUME Init PROVE OneInv
  OBVIOUS
<1>1. CASE page = "providers" /\ Providers!Init
  BY <1>1, ProvidersInit, ListInit, DialogsInit, ListTypedInit DEF OneInv, ListOnce
<1>2. CASE page = "form" /\ Form!Init
  BY <1>2, FormInit DEF OneInv
<1>3. CASE page = "map" /\ Map!Init
  BY <1>3, MapInit DEF OneInv
<1>4. CASE page = "routes" /\ Routes!Init
  BY <1>4, AliasesInit, RoutesNamedInit DEF OneInv
<1>5. CASE page = "failover" /\ Failover!Init
  BY <1>5, PolicyInit, BoundedInit, FeedbackInit DEF OneInv, PolicyOnce
<1>6. CASE page = "keys" /\ Keys!Init
  BY <1>6, KeysListedInit, KeysNamedInit DEF OneInv
<1>7. CASE page = "models" /\ Models!Init
  BY <1>7, ModelsInit, ModelsOutInit DEF OneInv, ModelsOnce
<1>8. CASE page = "settings" /\ Settings!Init
  BY <1>8, SettingsInit, FeedbackInit DEF OneInv
<1> QED
  BY <1>1, <1>2, <1>3, <1>4, <1>5, <1>6, <1>7, <1>8 DEF Init

LEMMA ListOnceStep == ListOnce /\ Providers!Next => ListOnce'
<1> SUFFICES ASSUME ListOnce, Providers!Next PROVE ListOnce'
  OBVIOUS
<1>1. ProvidersInv /\ ListFresh /\ DialogsInv /\ PageTyped /\ OpenOnce(stack)
  BY DEF ListOnce, ListTyped, PageTyped
<1>2. ProvidersInv' /\ ListFresh' /\ DialogsInv'
  BY <1>1, ProvidersStep, ListStep, DialogSteps
<1>3. PageTyped' /\ OpenOnce(stack)'
  BY <1>1, PageStep, OnceStep DEF OpenOnce
<1> QED
  BY <1>2, <1>3 DEF ListOnce, ListTyped, PageTyped

LEMMA OneSame == OneInv /\ UNCHANGED vars => OneInv'
<1> SUFFICES ASSUME OneInv, UNCHANGED vars PROVE OneInv'
  OBVIOUS
<1>1. /\ UNCHANGED <<page, stored, settings, form, edited, loading, saving, calls, signedOut, excused>>
      /\ UNCHANGED <<served, policy, flags, table, lastId, aliases, dialog, channels, ops, sync, asked>>
      /\ UNCHANGED <<toggling, pending, testing, testingAll, tester, editor, providers, pageError>>
      /\ UNCHANGED <<keys, error, newKey, creating, visible, togglingId, deletingId>>
      /\ UNCHANGED <<stack, deleting, transfer, tested, childRef, childTimer, feedback>>
      /\ UNCHANGED <<models, test, edit, crossed>>
  BY DEF vars, common, formVars, editVars, tableVars, routeVars, modelVars, keyVars, listVars
<1>2. page = "providers" => ListOnce'
  BY <1>1, ProvidersKept, ListSame, ListTypedSame DEF OneInv, ListOnce, DialogsInv
<1>3. (page = "form" => FormInv') /\ (page = "map" => MapInv')
  BY <1>1, FormKept, MapSame DEF OneInv
<1>4. page = "routes" => AliasesInv' /\ RoutesNamed'
  BY <1>1, AliasesSame, RoutesNamedKept DEF OneInv
<1>5. FeedbackFading => FeedbackFading'
  BY <1>1 DEF FeedbackFading
<1>6. page = "failover" => PolicyOnce'
  BY <1>1, <1>5, PolicySame, BoundedKept DEF OneInv, PolicyOnce
<1>7. page = "keys" => KeysListed' /\ KeysNamed'
  BY <1>1, KeysListedSame, KeysNamedKept DEF OneInv
<1>8. page = "models" => ModelsOnce'
  BY <1>1, ModelsKept, ModelsOutKept DEF OneInv, ModelsOnce
<1>9. page = "settings" => SettingsInv' /\ FeedbackFading'
  BY <1>1, <1>5, SettingsSame DEF OneInv
<1> QED
  BY <1>1, <1>2, <1>3, <1>4, <1>6, <1>7, <1>8, <1>9 DEF OneInv

LEMMA OneStep == OneInv /\ Next => OneInv'
<1> SUFFICES ASSUME OneInv, Next PROVE OneInv'
  OBVIOUS
<1>0. page' = page
  BY DEF Next, common
<1>1. CASE page = "providers" /\ Providers!Next
  BY <1>0, <1>1, ListOnceStep DEF OneInv
<1>2. CASE page = "form" /\ Form!Next
  BY <1>0, <1>2, FormStep DEF OneInv
<1>3. CASE page = "map" /\ Map!Next
  BY <1>0, <1>3, MapStep DEF OneInv
<1>4. CASE page = "routes" /\ Routes!Next
  BY <1>0, <1>4, AliasesStep, RoutesNamedStep DEF OneInv
<1>5. CASE page = "failover" /\ Failover!Next
  <2>1. PolicyOnce /\ FailoverInv
    BY <1>5 DEF OneInv, PolicyOnce, PolicyInv
  <2>2. PolicyOnce'
    BY <1>5, <2>1, PolicyStep, BoundedStep, FailoverFeedback DEF PolicyOnce
  <2> QED
    BY <1>0, <1>5, <2>2 DEF OneInv
<1>6. CASE page = "keys" /\ Keys!Next
  <2>1. KeysListed /\ KeysNamed /\ KeyTypes
    BY <1>6 DEF OneInv, KeysListed
  <2>2. KeysListed' /\ KeysNamed'
    BY <1>6, <2>1, KeysListedStep, KeysNamedStep
  <2> QED
    BY <1>0, <1>6, <2>2 DEF OneInv
<1>7. CASE page = "models" /\ Models!Next
  BY <1>0, <1>7, ModelsStep, ModelsOutStep DEF OneInv, ModelsOnce
<1>8. CASE page = "settings" /\ Settings!Next
  BY <1>0, <1>8, SettingsStep, SettingsFeedback DEF OneInv
<1> QED
  BY <1>1, <1>2, <1>3, <1>4, <1>5, <1>6, <1>7, <1>8 DEF Next

(* One load, save, creation and deletion of a page is out at most and for    *)
(* as long as the page says so, and every page keeps its types: the          *)
(* providers page and its form (providers-page.tsx), the routes page with    *)
(* its map and its policy (routes-page.tsx), the keys, the models and the    *)
(* settings (keys-page.tsx, models-page.tsx, settings-page.tsx).  Each       *)
(* dialog of the providers is open once, and no row of a list is shown       *)
(* twice.                                                                    *)
THEOREM OneOfEachIsOut == Spec => []OneAtATime
<1>1. OneInv /\ [Next]_vars => OneInv'
  BY OneSame, OneStep
<1>2. OneInv => OneAtATime
  <2> SUFFICES ASSUME OneInv PROVE OneAtATime
    OBVIOUS
  <2>1. page = "providers" => Providers!TypeOK /\ Providers!OneAtATime
    BY ProvidersTyped, ProvidersProperty DEF OneInv, ListOnce
  <2>2. (page = "form" => Form!TypeOK) /\ (page = "map" => Map!TypeOK)
    BY MapTyped DEF OneInv, FormInv, FormTypes
  <2>3. page = "routes" => Routes!TypeOK /\ Routes!OneAtATime
    BY RoutesTyped DEF OneInv
  <2>4. page = "failover" => Failover!TypeOK
    BY FailoverTyped DEF OneInv, PolicyOnce
  <2>5. page = "keys" => Keys!TypeOK
    BY KeysTyped DEF OneInv
  <2>6. page = "models" => Models!TypeOK
    BY ModelsTyped DEF OneInv, ModelsOnce
  <2>7. page = "settings" => Settings!TypeOK
    BY SettingsTyped DEF OneInv
  <2> QED
    BY <2>1, <2>2, <2>3, <2>4, <2>5, <2>6, <2>7 DEF OneAtATime, TypeOK
<1> QED
  BY <1>1, <1>2, OneInit, PTL DEF Spec

(* The route map of the console is the gateway's: what it shows in use is    *)
(* what buildFailoverCandidates tries, in the order shown where the names of *)
(* the channels sort alike in the two places; it hides none of it while      *)
(* there is room for it; a model that clients are told of has an entry and   *)
(* a route, and an alias without a badge has each of its targets tried       *)
(* (buildRouteMapEntries in routes-page.tsx, internal/routing).              *)
THEOREM RouteMapIsTheGateways == Spec => []MapIsTheGateways
<1>1. OneInv /\ [Next]_vars => OneInv'
  BY OneSame, OneStep
<1>2. OneInv => MapIsTheGateways
  BY MapShown, MapHidesNone, MapLists, MapCovers, MapBadges, MapFirst, MapOrder
     DEF OneInv, MapIsTheGateways
<1> QED
  BY <1>1, <1>2, OneInit, PTL DEF Spec
=============================================================================
