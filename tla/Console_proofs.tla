--------------------------- MODULE Console_proofs ---------------------------
(***************************************************************************)
(* Theorems about Console, for any number of tokens, entries, pages and    *)
(* fetches in flight: the console opens only for the token the server      *)
(* accepts, the variables keep their types, and a list that was paged      *)
(* through while the log moved leaves nothing out, ends where the log      *)
(* ends, repeats no more than was recorded and obeys its filter (on the    *)
(* audit page: below the rows that older refreshes left).                  *)
(*                                                                         *)
(* The first part is the session.  An overlay that is hidden says nothing  *)
(* about the answers still under way, so the invariant follows the         *)
(* sign-ins in flight: unless two have overlapped there is at most one, it *)
(* carries the token in store, and the form is open until it is answered.  *)
(* The second part is the types, and the third the list.                   *)
(***************************************************************************)
EXTENDS Console, Lemmas, SequenceTheorems, TLAPS

IsFetch(f) ==
  f = [id |-> f.id, kind |-> f.kind, token |-> f.token, query |-> f.query,
       cursor |-> f.cursor, phase |-> f.phase, items |-> f.items,
       page |-> f.page, asOf |-> f.asOf, alone |-> f.alone]

IsSignIn(f) == f.kind \in SignIns

OneSignIn ==
  ~raced => /\ \A f, g \in fetches : IsSignIn(f) /\ IsSignIn(g) => f = g
            /\ \A f \in fetches : IsSignIn(f) => f.token = token /\ overlay

SessionInv ==
  /\ \A f \in fetches : IsFetch(f)
  /\ \A f \in fetches : f.phase = "answered" => f.token = Valid
  /\ OneSignIn
  /\ OpenMeansSignedIn

-----------------------------------------------------------------------------
(* What a set of fetches becomes                                            *)

\* A request that is sent starts out unanswered.
LEMMA RequestIsFetch ==
  ASSUME NEW id, NEW kind, NEW cursor, NEW query, NEW tok
  PROVE  LET f == Request(id, kind, cursor, query, tok)
         IN  IsFetch(f) /\ f.phase = "sent" /\ f.kind = kind /\ f.token = tok
  BY DEF Request, IsFetch

PageAnswer(f, found, info, newest) ==
  [f EXCEPT !.phase = "answered", !.items = found, !.page = info,
            !.asOf = newest]

StateAnswer(f, found, newest) ==
  [f EXCEPT !.phase = "answered", !.items = found, !.asOf = newest]

Same(f, g) == IsFetch(g) /\ g.kind = f.kind /\ g.token = f.token

\* What an answer writes into a fetch leaves its kind and its token.
LEMMA AnswerIsFetch ==
  ASSUME NEW f, IsFetch(f), NEW found, NEW info, NEW newest
  PROVE  /\ Same(f, PageAnswer(f, found, info, newest))
         /\ Same(f, StateAnswer(f, found, newest))
  <1> DEFINE g1 == [f EXCEPT !.phase = "answered"]
             g2 == [g1 EXCEPT !.items = found]
             g3 == [g2 EXCEPT !.page = info]
  <1>1. Same(f, g1)
    BY DEF IsFetch, Same
  <1>2. Same(f, g2)
    <2> HIDE DEF g1
    <2> QED BY <1>1 DEF IsFetch, Same
  <1>3. Same(f, g3)
    <2> HIDE DEF g2
    <2> QED BY <1>2 DEF IsFetch, Same
  <1>4. Same(f, [g3 EXCEPT !.asOf = newest])
    <2> HIDE DEF g3
    <2> QED BY <1>3 DEF IsFetch, Same
  <1>5. Same(f, [g2 EXCEPT !.asOf = newest])
    <2> HIDE DEF g2
    <2> QED BY <1>2 DEF IsFetch, Same
  <1> QED BY <1>4, <1>5, Zenon DEF PageAnswer, StateAnswer

\* Sending a fetch keeps the others up to the flag alone.
LEMMA SentFetches ==
  ASSUME NEW others, \A f \in others : IsFetch(f),
         NEW kind, NEW cursor, NEW query, NEW tok,
         NEW h \in Sent(others, kind, cursor, query, tok)
  PROVE  /\ IsFetch(h)
         /\ \/ h.phase = "sent" /\ h.kind = kind /\ h.token = tok
            \/ \E g \in others :
                 /\ h.phase = g.phase /\ h.kind = g.kind /\ h.token = g.token
                 /\ h = IF ForList(kind) /\ ForList(g.kind)
                        THEN [g EXCEPT !.alone = FALSE] ELSE g
  <1> DEFINE clash == {g \in others : ForList(kind) /\ ForList(g.kind)}
             f == Request(reads + loads + 1, kind, cursor, query, tok)
             new == [f EXCEPT !.alone = (clash = {})]
  <1>1. h \in others \ clash \/ (\E g \in clash : h = [g EXCEPT !.alone = FALSE])
          \/ h = new
    BY DEF Sent
  <1>2. CASE h \in others \ clash
    BY <1>2
  <1>3. CASE \E g \in clash : h = [g EXCEPT !.alone = FALSE]
    <2>1. PICK g \in clash : h = [g EXCEPT !.alone = FALSE]
      BY <1>3
    <2>2. IsFetch(g)
      OBVIOUS
    <2>3. /\ IsFetch(h) /\ h.phase = g.phase /\ h.kind = g.kind
          /\ h.token = g.token
      BY <2>1, <2>2 DEF IsFetch
    <2> QED BY <2>1, <2>3
  <1>4. CASE h = new
    <2>1. IsFetch(f) /\ f.phase = "sent" /\ f.kind = kind /\ f.token = tok
      BY RequestIsFetch
    <2>2. IsFetch(h) /\ h.phase = "sent" /\ h.kind = kind /\ h.token = tok
      <3> HIDE DEF f
      <3> QED BY <1>4, <2>1 DEF IsFetch
    <2> QED BY <2>2
  <1> QED BY <1>1, <1>2, <1>3, <1>4

\* Fetches that lose one and gain no sign-in keep the invariant.
LEMMA Without ==
  ASSUME SessionInv, NEW f \in fetches, fetches' = fetches \ {f},
         UNCHANGED session
  PROVE  SessionInv'
  BY DEF SessionInv, OneSignIn, OpenMeansSignedIn, session, IsSignIn, IsFetch,
         SignIns

\* So do fetches a list fetch joins.
LEMMA ListFetchSent ==
  ASSUME SessionInv, NEW others \in SUBSET fetches,
         NEW kind, kind \notin SignIns, NEW cursor, NEW query, NEW tok,
         fetches' = Sent(others, kind, cursor, query, tok),
         UNCHANGED <<token, raced>>,
         ~raced => \/ UNCHANGED overlay
                   \/ /\ token = Valid
                      /\ \A g \in others : ~IsSignIn(g)
  PROVE  SessionInv'
  <1>1. \A g \in others : IsFetch(g)
    BY DEF SessionInv
  <1>2. \A h \in fetches' :
          /\ IsFetch(h)
          /\ \/ h.phase = "sent" /\ h.kind = kind /\ h.token = tok
             \/ \E g \in others :
                  /\ h.phase = g.phase /\ h.kind = g.kind /\ h.token = g.token
                  /\ h = IF ForList(kind) /\ ForList(g.kind)
                         THEN [g EXCEPT !.alone = FALSE] ELSE g
    <2> SUFFICES ASSUME NEW h \in Sent(others, kind, cursor, query, tok)
                 PROVE  /\ IsFetch(h)
                        /\ \/ h.phase = "sent" /\ h.kind = kind /\ h.token = tok
                           \/ \E g \in others :
                                /\ h.phase = g.phase /\ h.kind = g.kind
                                /\ h.token = g.token
                                /\ h = IF ForList(kind) /\ ForList(g.kind)
                                       THEN [g EXCEPT !.alone = FALSE] ELSE g
      OBVIOUS
    <2> QED BY <1>1, SentFetches
  <1>3. \A h \in fetches' : h.phase = "answered" => h.token = Valid
    BY <1>2 DEF SessionInv
  <1>4. \A h \in fetches' : IsSignIn(h) =>
          \E g \in others :
             /\ IsSignIn(g) /\ h.token = g.token
             /\ h = IF ForList(kind) /\ ForList(g.kind)
                    THEN [g EXCEPT !.alone = FALSE] ELSE g
    BY <1>2 DEF IsSignIn
  <1>5. OneSignIn'
    <2> SUFFICES ASSUME ~raced
                 PROVE  /\ \A h, k \in fetches' : IsSignIn(h) /\ IsSignIn(k) => h = k
                        /\ \A h \in fetches' : IsSignIn(h) =>
                             h.token = token /\ overlay'
      BY DEF OneSignIn, IsSignIn, SignIns
    <2>1. /\ \A g, h \in others : IsSignIn(g) /\ IsSignIn(h) => g = h
          /\ \A g \in others : IsSignIn(g) => g.token = token /\ overlay
      BY DEF SessionInv, OneSignIn
    <2>2. ASSUME NEW h \in fetches', NEW k \in fetches', IsSignIn(h), IsSignIn(k)
          PROVE  h = k
      BY <1>4, <2>1, <2>2
    <2>3. ASSUME NEW h \in fetches', IsSignIn(h)
          PROVE  h.token = token /\ overlay'
      BY <1>4, <2>1, <2>3
    <2> QED BY <2>2, <2>3
  <1>6. OpenMeansSignedIn'
    BY DEF OpenMeansSignedIn, SessionInv
  <1> QED
    BY <1>2, <1>3, <1>5, <1>6 DEF SessionInv, IsFetch

-----------------------------------------------------------------------------
(* Steps                                                                    *)

LEMMA InitSession == Init => SessionInv
  <1> SUFFICES ASSUME Init PROVE SessionInv
    OBVIOUS
  <1>1. overlay = TRUE /\ raced = FALSE
    BY DEF Init
  <1>2. \A f \in fetches : f = Request(1, "init", 0, Unfiltered, token)
    BY DEF Init
  <1>3. \A f \in fetches : IsFetch(f) /\ f.phase = "sent" /\ f.token = token
    BY <1>2, RequestIsFetch
  <1> QED
    BY <1>1, <1>2, <1>3 DEF SessionInv, OneSignIn, OpenMeansSignedIn

\* A step of the server changes the phase, the items and the page of a fetch,
\* and answers only a fetch with the token.
LEMMA ServeSession ==
  ASSUME SessionInv, NEW f \in fetches, Serve(f) \/ Lose(f)
  PROVE  SessionInv'
  <1>1. PICK g : /\ fetches' = (fetches \ {f}) \cup {g}
                 /\ IsFetch(g) /\ g.kind = f.kind /\ g.token = f.token
                 /\ g.phase = "answered" => f.token = Valid
    <2>0. IsFetch(f)
      BY DEF SessionInv
    <2>1. CASE Refuse(f) \/ Lose(f)
      <3> WITNESS [f EXCEPT !.phase = "failed"]
      <3> QED BY <2>0, <2>1 DEF Refuse, Lose, Step, IsFetch
    <2>2. CASE ReadPage(f)
      <3> DEFINE found == Window(f.query, f.cursor)
                 g == PageAnswer(f, PageItems(found),
                                 PageInfo(found, f.cursor), recorded)
      <3>1. f.token = Valid /\ fetches' = (fetches \ {f}) \cup {g}
        BY <2>2 DEF ReadPage, Authorized, Step, PageAnswer
      <3>2. Same(f, g)
        BY <2>0, AnswerIsFetch
      <3> QED BY <3>1, <3>2 DEF Same
    <2>3. CASE ReadState(f)
      <3> DEFINE top == IF view = "audit" THEN Slice(log, 1, StateSize) ELSE <<>>
                 g == StateAnswer(f, top, recorded)
      <3>1. f.token = Valid /\ fetches' = (fetches \ {f}) \cup {g}
        BY <2>3 DEF ReadState, Authorized, Step, StateAnswer
      <3>2. Same(f, g)
        BY <2>0, AnswerIsFetch
      <3> QED BY <3>1, <3>2 DEF Same
    <2> QED BY <2>1, <2>2, <2>3 DEF Serve
  <1>2. UNCHANGED session
    BY DEF Serve, Refuse, ReadPage, ReadState, Lose, Step
  <1> QED
    BY <1>1, <1>2 DEF SessionInv, OneSignIn, OpenMeansSignedIn, session,
                      IsSignIn, SignIns, IsFetch

\* What the list page sends is no sign-in.
LEMMA ReadListSession ==
  ASSUME SessionInv, NEW kind \in ListKinds, NEW cursor, ReadList(kind, cursor),
         UNCHANGED session
  PROVE  SessionInv'
  <1>1. kind \notin SignIns
    BY DEF ListKinds, SignIns
  <1>2. fetches' = Sent(fetches, kind, cursor, Query(filter'), token)
    BY DEF ReadList
  <1>3. UNCHANGED <<token, raced, overlay>>
    BY DEF session
  <1> HIDE DEF session
  <1> QED BY <1>1, <1>2, <1>3, ListFetchSent

LEMMA ListPageSession ==
  ASSUME SessionInv,
         \/ ClickRefresh \/ EnterTarget \/ LoadMore
         \/ \E c \in Choices : ChooseClass(c)
         \/ \E r \in {"all", "1h"} : ChooseRange(r)
         \/ \E r \in setting.routes : Navigate(r)
  PROVE  SessionInv'
  <1>1. UNCHANGED session
    BY DEF ClickRefresh, EnterTarget, LoadMore, ChooseClass, ChooseRange, Navigate
  <1>2. \/ UNCHANGED fetches
        \/ \E kind \in ListKinds : \E cursor : ReadList(kind, cursor)
    BY DEF ClickRefresh, EnterTarget, LoadMore, ChooseClass, ChooseRange, Navigate, Refresh,
           ListKinds
  <1>3. CASE UNCHANGED fetches
    BY <1>1, <1>3 DEF SessionInv, OneSignIn, OpenMeansSignedIn, session,
                      IsSignIn, IsFetch, SignIns
  <1> QED BY <1>1, <1>2, <1>3, ReadListSession

\* The only sign-in in flight carries the token in store, and it is answered
\* only if the server accepts that token.
LEMMA ApplyLoadSession ==
  ASSUME SessionInv, NEW f \in fetches, ApplyLoad(f)
  PROVE  SessionInv'
  <1> DEFINE others == fetches \ {f}
  <1>0. f.token = Valid /\ f.kind \in Loads
    BY DEF SessionInv, ApplyLoad
  <1>1. CASE f.kind = "reload"
    BY <1>1, Without DEF ApplyLoad
  <1>2. CASE f.kind # "reload" /\ route = "usage"
    <2>1. /\ fetches' = others /\ token' = NoToken /\ overlay' = TRUE
          /\ raced' = raced
      BY <1>2 DEF ApplyLoad, SignedOut
    <2>2. IsSignIn(f)
      BY <1>0, <1>2 DEF Loads, IsSignIn
    <2>3. ~raced => \A g \in others : ~IsSignIn(g)
      BY <2>2 DEF SessionInv, OneSignIn
    <2> QED
      BY <2>1, <2>3 DEF SessionInv, OneSignIn, OpenMeansSignedIn, IsFetch,
                        IsSignIn, SignIns
  <1>3. CASE f.kind # "reload" /\ route # "usage"
    <2>1. IsSignIn(f)
      BY <1>0, <1>3 DEF Loads, IsSignIn
    <2>2. ~raced => /\ token = Valid
                    /\ \A g \in others : ~IsSignIn(g)
      BY <1>0, <2>1 DEF SessionInv, OneSignIn
    <2>3. UNCHANGED <<token, raced>> /\ overlay' = FALSE
      BY <1>3 DEF ApplyLoad
    <2>4. CASE fetches' = others
      BY <2>2, <2>3, <2>4 DEF SessionInv, OneSignIn, OpenMeansSignedIn, IsFetch,
                              IsSignIn, SignIns
    <2>5. CASE fetches' = Sent(others, "replace", 0, Query(filter), token)
      <3>1. others \in SUBSET fetches /\ "replace" \notin SignIns
        BY DEF SignIns
      <3> HIDE DEF others
      <3> QED BY <2>2, <2>3, <2>5, <3>1, ListFetchSent
    <2> QED BY <1>3, <2>4, <2>5 DEF ApplyLoad
  <1> QED BY <1>1, <1>2, <1>3

LEMMA FailLoadSession ==
  ASSUME SessionInv, NEW f \in fetches, FailLoad(f)
  PROVE  SessionInv'
  <1>1. CASE f.kind = "reload"
    BY <1>1, Without DEF FailLoad
  <1>2. CASE f.kind # "reload"
    <2>1. /\ fetches' = fetches \ {f} /\ token' = NoToken /\ overlay' = TRUE
          /\ raced' = raced /\ IsSignIn(f)
      BY <1>2 DEF FailLoad, SignedOut, Loads, IsSignIn
    <2>2. ~raced => \A g \in fetches \ {f} : ~IsSignIn(g)
      BY <2>1 DEF SessionInv, OneSignIn
    <2> QED
      BY <2>1, <2>2 DEF SessionInv, OneSignIn, OpenMeansSignedIn, IsFetch,
                        IsSignIn, SignIns
  <1> QED BY <1>1, <1>2

LEMMA ApplySession ==
  ASSUME SessionInv, NEW f \in fetches, Apply(f)
  PROVE  SessionInv'
  <1>1. CASE ApplyList(f)
    BY <1>1, Without DEF ApplyList
  <1> QED BY <1>1, ApplyLoadSession, FailLoadSession DEF Apply

\* A sign-in is sent alone, or the race is on record.
LEMMA SubmitSession ==
  ASSUME SessionInv, NEW t \in Tokens, Submit(t)
  PROVE  SessionInv'
  <1>1. /\ fetches' = Sent(fetches, "submit", 0, Unfiltered, t)
        /\ token' = t /\ overlay /\ overlay' = overlay
        /\ raced' = (raced \/ SigningIn)
    BY DEF Submit, Load
  <1>2. \A h \in fetches' :
          /\ IsFetch(h)
          /\ \/ h.phase = "sent" /\ h.kind = "submit" /\ h.token = t
             \/ \E g \in fetches : /\ h.phase = g.phase /\ h.kind = g.kind
                                   /\ h.token = g.token
    <2> SUFFICES ASSUME NEW h \in Sent(fetches, "submit", 0, Unfiltered, t)
                 PROVE  /\ IsFetch(h)
                        /\ \/ /\ h.phase = "sent" /\ h.kind = "submit"
                              /\ h.token = t
                           \/ \E g \in fetches :
                                /\ h.phase = g.phase /\ h.kind = g.kind
                                /\ h.token = g.token
      BY <1>1
    <2>1. \A g \in fetches : IsFetch(g)
      BY DEF SessionInv
    <2> QED BY <2>1, SentFetches
  <1>3. \A h \in fetches' : h.phase = "answered" => h.token = Valid
    BY <1>2 DEF SessionInv
  <1>4. OneSignIn'
    <2> SUFFICES ASSUME ~raced'
                 PROVE  /\ \A h, k \in fetches' : IsSignIn(h) /\ IsSignIn(k) => h = k
                        /\ \A h \in fetches' : IsSignIn(h) =>
                             h.token = t /\ overlay'
      BY <1>1 DEF OneSignIn, IsSignIn, SignIns
    <2>1. \A g \in fetches : ~IsSignIn(g)
      BY <1>1 DEF SigningIn, IsSignIn
    <2>2. \A h \in fetches' : IsSignIn(h) => h.token = t
      BY <1>2, <2>1 DEF IsSignIn
    <2>3. ASSUME NEW h \in fetches', NEW k \in fetches', IsSignIn(h), IsSignIn(k)
          PROVE  h = k
      <3> DEFINE clash == {g \in fetches : ForList("submit") /\ ForList(g.kind)}
                 f == Request(reads + loads + 1, "submit", 0, Unfiltered, t)
                 new == [f EXCEPT !.alone = (clash = {})]
      <3>1. \A x \in fetches' : IsSignIn(x) => x = new
        <4> SUFFICES ASSUME NEW x \in fetches', IsSignIn(x), x # new
                     PROVE  FALSE
          OBVIOUS
        <4>1. x \in fetches \ clash \/ \E g \in clash : x = [g EXCEPT !.alone = FALSE]
          <5> HIDE DEF f
          <5> QED BY <1>1 DEF Sent, f
        <4>2. CASE x \in fetches \ clash
          BY <2>1, <4>2
        <4>3. CASE \E g \in clash : x = [g EXCEPT !.alone = FALSE]
          <5>1. PICK g \in clash : x = [g EXCEPT !.alone = FALSE]
            BY <4>3
          <5>2. IsFetch(g)
            BY DEF SessionInv
          <5>3. x.kind = g.kind
            BY <5>1, <5>2 DEF IsFetch
          <5> QED BY <2>1, <5>3 DEF IsSignIn
        <4> QED BY <4>1, <4>2, <4>3
      <3> HIDE DEF new
      <3> QED BY <2>3, <3>1
    <2> QED BY <1>1, <2>2, <2>3
  <1>5. OpenMeansSignedIn'
    BY <1>1 DEF OpenMeansSignedIn
  <1> QED BY <1>2, <1>3, <1>4, <1>5 DEF SessionInv, IsFetch

LEMMA ReloadSession ==
  ASSUME SessionInv, Reload
  PROVE  SessionInv'
  <1>1. /\ fetches' = Sent(fetches, "reload", 0, Unfiltered, token)
        /\ UNCHANGED <<token, overlay, raced>>
    BY DEF Reload, Load, session
  <1>2. "reload" \notin SignIns
    BY DEF SignIns
  <1> QED BY <1>1, <1>2, ListFetchSent

LEMMA LogOutSession ==
  ASSUME SessionInv, LogOut
  PROVE  SessionInv'
  BY DEF LogOut, SessionInv, OneSignIn, OpenMeansSignedIn, SigningIn, IsSignIn,
         IsFetch, SignIns

LEMMA NextSession == SessionInv /\ [Next]_vars => SessionInv'
  <1> SUFFICES ASSUME SessionInv, [Next]_vars PROVE SessionInv'
    OBVIOUS
  <1>1. CASE Tick \/ \E c \in Classes : Record(c)
    BY <1>1 DEF Tick, Record, SessionInv, OneSignIn, OpenMeansSignedIn, session,
                IsSignIn, IsFetch, SignIns
  <1>2. CASE UNCHANGED vars
    BY <1>2 DEF vars, SessionInv, OneSignIn, OpenMeansSignedIn, session,
                IsSignIn, IsFetch, SignIns
  <1>3. CASE \E f \in fetches : Serve(f) \/ Lose(f) \/ Apply(f)
    BY <1>3, ServeSession, ApplySession
  <1>4. CASE \/ ClickRefresh \/ EnterTarget \/ LoadMore
             \/ \E c \in Choices : ChooseClass(c)
             \/ \E r \in {"all", "1h"} : ChooseRange(r)
             \/ \E r \in setting.routes : Navigate(r)
    BY <1>4, ListPageSession
  <1>5. CASE \E t \in Tokens : Submit(t)
    BY <1>5, SubmitSession
  <1>6. CASE Reload \/ LogOut
    BY <1>6, ReloadSession, LogOutSession
  <1> QED BY <1>1, <1>2, <1>3, <1>4, <1>5, <1>6 DEF Next

-----------------------------------------------------------------------------
(* The console is open only with the token the server accepts in store,     *)
(* unless a sign-in was sent while another was under way: hideAuth() runs    *)
(* only after an answer to the one sign-in in flight.                        *)
THEOREM SignInHolds == Spec => []OpenMeansSignedIn
  <1>1. SessionInv => OpenMeansSignedIn
    BY DEF SessionInv
  <1> QED BY InitSession, NextSession, <1>1, PTL DEF Spec

-----------------------------------------------------------------------------
(* Slices and filtered logs                                                 *)

LEMMA SliceFacts ==
  ASSUME NEW S, NEW s \in Seq(S), NEW first \in Nat \ {0}, NEW last \in Nat
  PROVE  LET t == Slice(s, first, last)
             n == IF last < Len(s) THEN last ELSE Len(s)
         IN  /\ t \in Seq(S)
             /\ Len(t) = IF first <= n THEN n - first + 1 ELSE 0
             /\ \A i \in 1 .. Len(t) : t[i] = s[first + i - 1]
  <1> DEFINE n == IF last < Len(s) THEN last ELSE Len(s)
  <1>1. n \in Nat /\ n <= Len(s) /\ Len(s) \in Nat
    OBVIOUS
  <1>2. Slice(s, first, last) = SubSeq(s, first, n)
    BY DEF Slice
  <1> HIDE DEF n
  <1>3. \A i \in first .. n : s[i] \in S
    BY <1>1
  <1>4. /\ SubSeq(s, first, n) \in Seq(S)
        /\ Len(SubSeq(s, first, n)) = IF first <= n THEN n - first + 1 ELSE 0
        /\ \A i \in 1 .. n - first + 1 : SubSeq(s, first, n)[i] = s[first + i - 1]
    BY <1>1, <1>3, SubSeqProperties
  <1>5. \A i \in 1 .. Len(SubSeq(s, first, n)) :
          SubSeq(s, first, n)[i] = s[first + i - 1]
    BY <1>1, <1>4
  <1> QED BY <1>2, <1>4, <1>5 DEF n

\* The steps of the recursion in Filtered.
IsFilter(F, s, wanted) ==
  F = [n \in 0 .. Len(s) |->
         IF n = 0 THEN <<>>
         ELSE IF s[n] \in wanted THEN Append(F[n - 1], s[n])
                                 ELSE F[n - 1]]

FilterStep(F, s, wanted) ==
  /\ F[0] = <<>>
  /\ \A i \in 1 .. Len(s) :
       F[i] = IF s[i] \in wanted THEN Append(F[i - 1], s[i]) ELSE F[i - 1]

LEMMA FilterExists ==
  ASSUME NEW S, NEW s \in Seq(S), NEW wanted
  PROVE  \E F : IsFilter(F, s, wanted)
  <1> DEFINE n == Len(s)
             g == [i \in 1 .. n |-> [t \in Seq(S) |->
                    IF s[i] \in wanted THEN Append(t, s[i]) ELSE t]]
  <1>1. n \in Nat /\ <<>> \in Seq(S)
    OBVIOUS
  <1>2. \A i \in 1 .. n : \A t \in Seq(S) : g[i][t] \in Seq(S)
    BY ElementOfSeq, AppendProperties
  <1>3. PICK f \in [0 .. n -> Seq(S)] : IsRecursion(f, n, <<>>, g)
    <2> HIDE DEF g, n
    <2> QED BY <1>1, <1>2, IntervalRecursion
  <1>4. \A i \in 0 .. n : f[i] = IF i = 0 THEN <<>>
                                 ELSE IF s[i] \in wanted
                                 THEN Append(f[i - 1], s[i]) ELSE f[i - 1]
    <2>0. f[0] = <<>>
      BY <1>3, Zenon DEF IsRecursion
    <2>3. \A i \in 0 .. n : i = 0 \/ i \in 1 .. n
      <3> HIDE DEF n
      <3> QED BY <1>1
    <2> SUFFICES ASSUME NEW i \in 1 .. n
                 PROVE  f[i] = IF s[i] \in wanted
                               THEN Append(f[i - 1], s[i]) ELSE f[i - 1]
      BY <1>1, <2>0, <2>3, Zenon
    <2>1. f[i] = g[i][f[i - 1]] /\ i - 1 \in 0 .. n
      <3> HIDE DEF g
      <3> QED BY <1>1, <1>3 DEF IsRecursion
    <2>2. f[i - 1] \in Seq(S)
      BY <2>1
    <2> QED BY <2>1, <2>2
  <1>5. f = [i \in 0 .. n |-> f[i]]
    OBVIOUS
  <1> QED BY <1>4, <1>5, Zenon DEF IsFilter, n

LEMMA FilterRun ==
  ASSUME NEW S, NEW s \in Seq(S), NEW wanted
  PROVE  \E F \in [0 .. Len(s) -> Seq(S)] :
            FilterStep(F, s, wanted) /\ Filtered(s, wanted) = F[Len(s)]
  <1> DEFINE F == CHOOSE f : IsFilter(f, s, wanted)
  <1>1. Filtered(s, wanted) = F[Len(s)]
    <2>1. Filtered(s, wanted) =
            (CHOOSE f : f = [n \in 0 .. Len(s) |->
                IF n = 0 THEN <<>>
                ELSE IF s[n] \in wanted THEN Append(f[n - 1], s[n])
                                        ELSE f[n - 1]])[Len(s)]
      BY Zenon DEF Filtered
    <2> QED BY <2>1 DEF IsFilter
  <1>2. IsFilter(F, s, wanted)
    BY FilterExists
  <1> HIDE DEF F
  <1>4. Len(s) \in Nat
    OBVIOUS
  <1>3. FilterStep(F, s, wanted) /\ F = [i \in 0 .. Len(s) |-> F[i]]
    <2>1. DOMAIN F = 0 .. Len(s)
      BY <1>2, Zenon DEF IsFilter
    <2>2. \A i \in 0 .. Len(s) :
            F[i] = IF i = 0 THEN <<>>
                   ELSE IF s[i] \in wanted THEN Append(F[i - 1], s[i])
                                           ELSE F[i - 1]
      BY <1>2, Zenon DEF IsFilter
    <2>3. F = [i \in 0 .. Len(s) |-> F[i]]
      <3>1. F = [i \in DOMAIN F |-> F[i]]
        BY <1>2, Zenon DEF IsFilter
      <3> QED BY <2>1, <3>1, Zenon
    <2>4. FilterStep(F, s, wanted)
      BY <1>4, <2>2 DEF FilterStep
    <2> QED BY <2>3, <2>4
  <1> DEFINE T == {i \in 0 .. Len(s) : F[i] \in Seq(S)}
  <1>5. 0 \in T
    BY <1>3, <1>4 DEF FilterStep
  <1>6. ASSUME NEW i \in 0 .. Len(s), i + 1 \in 0 .. Len(s), i \in T
        PROVE  i + 1 \in T
    <2>1. i + 1 \in 1 .. Len(s) /\ (i + 1) - 1 = i
      BY <1>6
    <2>2. s[i + 1] \in S
      BY <2>1, ElementOfSeq
    <2>3. F[i + 1] = IF s[i + 1] \in wanted THEN Append(F[i], s[i + 1]) ELSE F[i]
      BY <1>3, <2>1 DEF FilterStep
    <2>4. F[i] \in Seq(S)
      BY <1>6
    <2>5. Append(F[i], s[i + 1]) \in Seq(S)
      BY <2>2, <2>4, AppendProperties
    <2> QED BY <1>6, <2>3, <2>4, <2>5
  <1>7. 0 .. Len(s) \subseteq T
    <2> HIDE DEF T
    <2> QED BY <1>4, <1>5, <1>6, IntervalInduction
  <1>8. F \in [0 .. Len(s) -> Seq(S)]
    BY <1>3, <1>7
  <1> QED BY <1>1, <1>3, <1>8

(* Of the first n entries of s: t has those in wanted, in their order.      *)
FiltersTo(t, s, n, wanted) ==
  /\ \A j \in 1 .. Len(t) : \E i \in 1 .. n : t[j] = s[i] /\ s[i] \in wanted
  /\ \A i \in 1 .. n : s[i] \in wanted => \E j \in 1 .. Len(t) : t[j] = s[i]
  /\ \A j, k \in 1 .. Len(t) :
       j < k => \E a, b \in 1 .. n : a < b /\ t[j] = s[a] /\ t[k] = s[b]

LEMMA FiltersOneMore ==
  ASSUME NEW S, NEW s \in Seq(S), NEW wanted, NEW t \in Seq(S),
         NEW n \in 0 .. Len(s), n + 1 \in 0 .. Len(s), FiltersTo(t, s, n, wanted)
  PROVE  FiltersTo(IF s[n + 1] \in wanted THEN Append(t, s[n + 1]) ELSE t,
                   s, n + 1, wanted)
  <1>0. Len(s) \in Nat /\ n \in Nat /\ s[n + 1] \in S /\ Len(t) \in Nat
    BY ElementOfSeq
  <1>1. CASE s[n + 1] \notin wanted
    <2>1. \A i \in 1 .. n + 1 : i \in 1 .. n \/ i = n + 1
      BY <1>0
    <2>2. \A i \in 1 .. n : i \in 1 .. n + 1
      BY <1>0
    <2>3. \A i \in 1 .. n + 1 : s[i] \in wanted => \E j \in 1 .. Len(t) : t[j] = s[i]
      BY <1>1, <2>1 DEF FiltersTo
    <2>4. \A j \in 1 .. Len(t) : \E i \in 1 .. n + 1 : t[j] = s[i] /\ s[i] \in wanted
      BY <2>2, Zenon DEF FiltersTo
    <2>5. \A j, k \in 1 .. Len(t) :
            j < k => \E a, b \in 1 .. n + 1 : a < b /\ t[j] = s[a] /\ t[k] = s[b]
      <3> SUFFICES ASSUME NEW j \in 1 .. Len(t), NEW k \in 1 .. Len(t), j < k
                   PROVE  \E a, b \in 1 .. n + 1 :
                            a < b /\ t[j] = s[a] /\ t[k] = s[b]
        OBVIOUS
      <3>1. PICK a \in 1 .. n, b \in 1 .. n : a < b /\ t[j] = s[a] /\ t[k] = s[b]
        BY DEF FiltersTo
      <3> QED BY <2>2, <3>1
    <2>6. FiltersTo(t, s, n + 1, wanted)
      BY <2>3, <2>4, <2>5, Zenon DEF FiltersTo
    <2> QED BY <1>1, <2>6
  <1>2. CASE s[n + 1] \in wanted
    <2> DEFINE u == Append(t, s[n + 1])
    <2>1. /\ Len(u) = Len(t) + 1
          /\ \A j \in 1 .. Len(t) : u[j] = t[j]
          /\ u[Len(t) + 1] = s[n + 1]
      BY <1>0, AppendProperties
    <2> HIDE DEF u
    <2>2. \A j \in 1 .. Len(u) : j \in 1 .. Len(t) \/ j = Len(u)
      BY <1>0, <2>1
    <2>3. Len(u) \in 1 .. Len(u) /\ \A j \in 1 .. Len(t) : j \in 1 .. Len(u)
      BY <1>0, <2>1
    <2>4. /\ \A i \in 1 .. n : i \in 1 .. n + 1 /\ i < n + 1
          /\ \A i \in 1 .. n + 1 : i \in 1 .. n \/ i = n + 1
          /\ n + 1 \in 1 .. n + 1
      BY <1>0
    <2>5. \A j \in 1 .. Len(u) :
            \E i \in 1 .. n + 1 : u[j] = s[i] /\ s[i] \in wanted
      <3> SUFFICES ASSUME NEW j \in 1 .. Len(u)
                   PROVE  \E i \in 1 .. n + 1 : u[j] = s[i] /\ s[i] \in wanted
        OBVIOUS
      <3>1. CASE j \in 1 .. Len(t)
        <4>1. PICK i \in 1 .. n : t[j] = s[i] /\ s[i] \in wanted
          BY <3>1 DEF FiltersTo
        <4> QED BY <2>1, <2>4, <3>1, <4>1
      <3>2. CASE j = Len(u)
        BY <1>2, <2>1, <2>4, <3>2
      <3> QED BY <2>2, <3>1, <3>2
    <2>6. \A i \in 1 .. n + 1 : s[i] \in wanted => \E j \in 1 .. Len(u) : u[j] = s[i]
      <3> SUFFICES ASSUME NEW i \in 1 .. n + 1, s[i] \in wanted
                   PROVE  \E j \in 1 .. Len(u) : u[j] = s[i]
        OBVIOUS
      <3>1. CASE i \in 1 .. n
        <4>1. PICK j \in 1 .. Len(t) : t[j] = s[i]
          BY <3>1 DEF FiltersTo
        <4> QED BY <2>1, <2>3, <4>1
      <3>2. CASE i = n + 1
        BY <2>1, <2>3, <3>2
      <3> QED BY <2>4, <3>1, <3>2
    <2>7. ASSUME NEW j \in 1 .. Len(u), NEW k \in 1 .. Len(u), j < k
          PROVE  \E a, b \in 1 .. n + 1 : a < b /\ u[j] = s[a] /\ u[k] = s[b]
      <3>1. j \in 1 .. Len(t)
        BY <1>0, <2>1, <2>7
      <3>2. CASE k \in 1 .. Len(t)
        <4>1. PICK a \in 1 .. n, b \in 1 .. n : a < b /\ t[j] = s[a] /\ t[k] = s[b]
          BY <2>7, <3>1, <3>2 DEF FiltersTo
        <4> QED BY <2>1, <2>4, <3>1, <3>2, <4>1
      <3>3. CASE k = Len(u)
        <4>1. PICK a \in 1 .. n : t[j] = s[a]
          BY <3>1 DEF FiltersTo
        <4>2. u[j] = s[a] /\ u[k] = s[n + 1] /\ a < n + 1
          BY <2>1, <2>4, <3>1, <3>3, <4>1
        <4> QED BY <2>4, <4>2
      <3> QED BY <2>2, <3>2, <3>3
    <2>8. FiltersTo(u, s, n + 1, wanted)
      BY <2>5, <2>6, <2>7 DEF FiltersTo
    <2> QED BY <1>2, <2>8 DEF u
  <1> QED BY <1>1, <1>2

LEMMA FilteredFacts ==
  ASSUME NEW S, NEW s \in Seq(S), NEW wanted
  PROVE  /\ Filtered(s, wanted) \in Seq(S)
         /\ FiltersTo(Filtered(s, wanted), s, Len(s), wanted)
  <1>1. PICK F \in [0 .. Len(s) -> Seq(S)] :
            FilterStep(F, s, wanted) /\ Filtered(s, wanted) = F[Len(s)]
    BY FilterRun
  <1>2. Len(s) \in Nat
    OBVIOUS
  <1> DEFINE T == {n \in 0 .. Len(s) : FiltersTo(F[n], s, n, wanted)}
  <1>3. 0 \in T
    <2>1. F[0] = <<>> /\ Len(F[0]) = 0
      BY <1>1 DEF FilterStep
    <2> QED BY <1>2, <2>1 DEF FiltersTo
  <1>4. ASSUME NEW n \in 0 .. Len(s), n + 1 \in 0 .. Len(s), n \in T
        PROVE  n + 1 \in T
    <2>1. n + 1 \in 1 .. Len(s) /\ (n + 1) - 1 = n
      BY <1>2, <1>4
    <2>2. F[n + 1] = IF s[n + 1] \in wanted THEN Append(F[n], s[n + 1]) ELSE F[n]
      BY <1>1, <2>1 DEF FilterStep
    <2>3. F[n] \in Seq(S) /\ FiltersTo(F[n], s, n, wanted)
      BY <1>4
    <2>4. FiltersTo(F[n + 1], s, n + 1, wanted)
      BY <1>4, <2>2, <2>3, FiltersOneMore
    <2> QED BY <1>4, <2>4
  <1>5. 0 .. Len(s) \subseteq T
    <2> HIDE DEF T
    <2> QED BY <1>2, <1>3, <1>4, IntervalInduction
  <1>6. Len(s) \in 0 .. Len(s)
    BY <1>2
  <1> QED BY <1>1, <1>5, <1>6

(* What one more entry at the head of a log does to the entries that match: *)
(* each of the first ones was among the first ones before, or is the new    *)
(* one.                                                                     *)
Among(t, u, e) ==
  \A j \in 1 .. Len(t) : t[j] = e \/ \E k \in 1 .. Len(u) : k <= j /\ t[j] = u[k]

LEMMA AmongOneMore ==
  ASSUME NEW S, NEW t \in Seq(S), NEW u \in Seq(S), NEW e, NEW x \in S,
         Len(u) <= Len(t), Among(t, u, e)
  PROVE  /\ Len(Append(u, x)) <= Len(Append(t, x))
         /\ Among(Append(t, x), Append(u, x), e)
         /\ Among(t, Append(u, x), e)
  <1> DEFINE t2 == Append(t, x)
             u2 == Append(u, x)
  <1>1. /\ Len(t2) = Len(t) + 1 /\ t2[Len(t) + 1] = x
        /\ \A j \in 1 .. Len(t) : t2[j] = t[j]
    BY AppendProperties
  <1>2. /\ Len(u2) = Len(u) + 1 /\ u2[Len(u) + 1] = x
        /\ \A j \in 1 .. Len(u) : u2[j] = u[j]
    BY AppendProperties
  <1>3. Len(t) \in Nat /\ Len(u) \in Nat
    OBVIOUS
  <1> HIDE DEF t2, u2
  <1>4. Among(t, u2, e)
    <2> SUFFICES ASSUME NEW j \in 1 .. Len(t), t[j] # e
                 PROVE  \E k \in 1 .. Len(u2) : k <= j /\ t[j] = u2[k]
      BY DEF Among
    <2>1. PICK k \in 1 .. Len(u) : k <= j /\ t[j] = u[k]
      BY DEF Among
    <2>2. k \in 1 .. Len(u2)
      BY <1>2, <1>3
    <2> QED BY <1>2, <2>1, <2>2
  <1>5. Among(t2, u2, e)
    <2> SUFFICES ASSUME NEW j \in 1 .. Len(t2), t2[j] # e
                 PROVE  \E k \in 1 .. Len(u2) : k <= j /\ t2[j] = u2[k]
      BY DEF Among
    <2>1. CASE j \in 1 .. Len(t)
      BY <1>1, <1>4, <2>1 DEF Among
    <2>2. CASE j = Len(t) + 1
      <3>1. Len(u) + 1 \in 1 .. Len(u2) /\ Len(u) + 1 <= j
        BY <1>2, <1>3, <2>2
      <3> QED BY <1>1, <1>2, <2>2, <3>1
    <2>3. j \in 1 .. Len(t) \/ j = Len(t) + 1
      BY <1>1, <1>3
    <2> QED BY <2>1, <2>2, <2>3
  <1> QED BY <1>1, <1>2, <1>3, <1>4, <1>5 DEF t2, u2

LEMMA FilteredShift ==
  ASSUME NEW S, NEW s \in Seq(S), NEW s2 \in Seq(S), NEW wanted, NEW wanted2,
         Len(s2) >= 1, Len(s2) >= Len(s), Len(s2) <= Len(s) + 1,
         \A i \in 1 .. Len(s2) - 1 :
           /\ s2[i + 1] = s[i]
           /\ s[i] \in wanted2 <=> s[i] \in wanted
  PROVE  Among(Filtered(s2, wanted2), Filtered(s, wanted), s2[1])
  <1>1. PICK F \in [0 .. Len(s) -> Seq(S)] :
            FilterStep(F, s, wanted) /\ Filtered(s, wanted) = F[Len(s)]
    BY FilterRun
  <1>2. PICK G \in [0 .. Len(s2) -> Seq(S)] :
            FilterStep(G, s2, wanted2) /\ Filtered(s2, wanted2) = G[Len(s2)]
    BY FilterRun, ZenonT(30)
  <1>3. Len(s) \in Nat /\ Len(s2) \in Nat
    OBVIOUS
  <1>4. PICK m \in Nat : m = Len(s2) - 1 /\ m <= Len(s)
    <2>1. Len(s2) - 1 \in Nat /\ Len(s2) - 1 <= Len(s)
      BY <1>3
    <2> QED BY <2>1
  <1> DEFINE e == s2[1]
             T == {n \in 0 .. m : /\ Len(F[n]) <= Len(G[n + 1])
                                  /\ Among(G[n + 1], F[n], e)}
  <1>5. 0 \in T
    <2>1. F[0] = <<>> /\ G[0] = <<>> /\ Len(F[0]) = 0
      BY <1>1, <1>2 DEF FilterStep
    <2>2. 1 \in 1 .. Len(s2) /\ 1 - 1 = 0 /\ 0 + 1 = 1 /\ 1 \in 0 .. Len(s2)
      BY <1>3
    <2>3. G[1] = IF e \in wanted2 THEN Append(G[0], e) ELSE G[0]
      BY <1>2, <2>2 DEF FilterStep
    <2>4. e \in S
      BY <2>2, ElementOfSeq
    <2>5. G[1] \in Seq(S) /\ \A j \in 1 .. Len(G[1]) : G[1][j] = e
      <3> HIDE DEF e
      <3> QED BY <2>1, <2>3, <2>4
    <2>6. Len(G[1]) >= 0
      BY <2>5
    <2> HIDE DEF e
    <2> QED BY <2>1, <2>2, <2>5, <2>6, <1>4 DEF Among
  <1>6. ASSUME NEW n \in 0 .. m, n + 1 \in 0 .. m, n \in T
        PROVE  n + 1 \in T
    <2>1. /\ n + 1 \in 1 .. Len(s) /\ (n + 1) - 1 = n /\ n + 1 \in 1 .. Len(s2) - 1
          /\ (n + 1) + 1 \in 1 .. Len(s2) /\ ((n + 1) + 1) - 1 = n + 1
          /\ n \in 0 .. Len(s) /\ n + 1 \in 0 .. Len(s2)
      BY <1>3, <1>4, <1>6
    <2>2. PICK x \in S : x = s[n + 1] /\ x = s2[(n + 1) + 1]
      BY <2>1, ElementOfSeq
    <2>3. F[n + 1] = IF x \in wanted THEN Append(F[n], x) ELSE F[n]
      BY <1>1, <2>1, <2>2 DEF FilterStep
    <2>4. G[(n + 1) + 1] = IF x \in wanted2 THEN Append(G[n + 1], x) ELSE G[n + 1]
      BY <1>2, <2>1, <2>2 DEF FilterStep
    <2>5. x \in wanted2 <=> x \in wanted
      BY <2>1, <2>2
    <2>6. PICK t \in Seq(S), u \in Seq(S) : t = G[n + 1] /\ u = F[n]
      BY <2>1
    <2>7. Len(u) <= Len(t) /\ Among(t, u, e)
      BY <1>6, <2>6
    <2>8. /\ Len(Append(u, x)) <= Len(Append(t, x))
          /\ Among(Append(t, x), Append(u, x), e)
      <3> HIDE DEF e
      <3> QED BY <2>7, AmongOneMore
    <2>9. /\ Len(F[n + 1]) <= Len(G[(n + 1) + 1])
          /\ Among(G[(n + 1) + 1], F[n + 1], e)
      BY <2>3, <2>4, <2>5, <2>6, <2>7, <2>8, Zenon
    <2> QED BY <1>6, <2>9
  <1>7. 0 .. m \subseteq T
    <2> HIDE DEF T
    <2> QED BY <1>4, <1>5, <1>6, IntervalInduction
  <1>8. m \in 0 .. m /\ m + 1 = Len(s2)
    BY <1>3, <1>4
  <1>9. Len(F[m]) <= Len(G[Len(s2)]) /\ Among(G[Len(s2)], F[m], e)
    BY <1>7, <1>8
  <1>10. CASE m = Len(s)
    BY <1>1, <1>2, <1>9, <1>10
  <1>11. CASE m + 1 = Len(s)
    <2>1. Len(s) \in 1 .. Len(s) /\ Len(s) - 1 = m /\ m \in 0 .. Len(s)
          /\ Len(s2) \in 0 .. Len(s2)
      BY <1>3, <1>4, <1>11
    <2>2. PICK x \in S : x = s[Len(s)]
      BY <2>1, ElementOfSeq
    <2>3. F[Len(s)] = IF x \in wanted THEN Append(F[m], x) ELSE F[m]
      BY <1>1, <2>1, <2>2 DEF FilterStep
    <2>4. PICK t \in Seq(S), u \in Seq(S) : t = G[Len(s2)] /\ u = F[m]
      BY <2>1
    <2>5. Among(t, Append(u, x), e) /\ Among(t, u, e)
      <3> HIDE DEF e
      <3> QED BY <1>9, <2>4, AmongOneMore
    <2> QED BY <1>1, <1>2, <2>3, <2>4, <2>5, Zenon
  <1>12. m = Len(s) \/ m + 1 = Len(s)
    BY <1>3, <1>4
  <1> QED BY <1>10, <1>11, <1>12

(* What a stricter filter leaves of the same log, when it drops only the    *)
(* entries from some place on: the first ones are the same.                 *)
LEMMA FilteredStricter ==
  ASSUME NEW S, NEW s \in Seq(S), NEW wanted, NEW wanted2,
         \A i \in 1 .. Len(s) : s[i] \in wanted2 => s[i] \in wanted,
         \A i, k \in 1 .. Len(s) :
           i < k /\ s[k] \in wanted2 /\ s[i] \in wanted => s[i] \in wanted2
  PROVE  LET t == Filtered(s, wanted2)
             u == Filtered(s, wanted)
         IN  \A j \in 1 .. Len(t) : j \in 1 .. Len(u) /\ t[j] = u[j]
  <1>1. PICK F \in [0 .. Len(s) -> Seq(S)] :
            FilterStep(F, s, wanted) /\ Filtered(s, wanted) = F[Len(s)]
    BY FilterRun
  <1>2. PICK G \in [0 .. Len(s) -> Seq(S)] :
            FilterStep(G, s, wanted2) /\ Filtered(s, wanted2) = G[Len(s)]
    BY FilterRun
  <1>3. Len(s) \in Nat
    OBVIOUS
  <1> DEFINE Starts(t, u) == \A j \in 1 .. Len(t) : j \in 1 .. Len(u) /\ t[j] = u[j]
             Dropped(n) == \E h \in 1 .. n : s[h] \in wanted /\ s[h] \notin wanted2
             T == {n \in 0 .. Len(s) : /\ Starts(G[n], F[n])
                                       /\ G[n] = F[n] \/ Dropped(n)}
  <1>4. 0 \in T
    <2>1. F[0] = <<>> /\ G[0] = <<>>
      BY <1>1, <1>2 DEF FilterStep
    <2> QED BY <1>3, <2>1
  <1>5. ASSUME NEW n \in 0 .. Len(s), n + 1 \in 0 .. Len(s), n \in T
        PROVE  n + 1 \in T
    <2>1. /\ n + 1 \in 1 .. Len(s) /\ (n + 1) - 1 = n
          /\ \A h \in 1 .. n : h \in 1 .. n + 1 /\ h \in 1 .. Len(s) /\ h < n + 1
          /\ n + 1 \in 1 .. n + 1
      BY <1>3, <1>5
    <2>2. PICK x \in S : x = s[n + 1]
      BY <2>1, ElementOfSeq
    <2>3. F[n + 1] = IF x \in wanted THEN Append(F[n], x) ELSE F[n]
      BY <1>1, <2>1, <2>2 DEF FilterStep
    <2>4. G[n + 1] = IF x \in wanted2 THEN Append(G[n], x) ELSE G[n]
      BY <1>2, <2>1, <2>2 DEF FilterStep
    <2>5. PICK t \in Seq(S), u \in Seq(S) : t = G[n] /\ u = F[n]
      OBVIOUS
    <2>6. Starts(t, u) /\ (t = u \/ Dropped(n))
      BY <1>5, <2>5
    <2>7. Starts(u, Append(u, x)) /\ Append(u, x) \in Seq(S)
      <3>1. Len(Append(u, x)) = Len(u) + 1 /\ \A j \in 1 .. Len(u) : Append(u, x)[j] = u[j]
        BY AppendProperties
      <3> QED BY <3>1
    <2>8. Starts(t, Append(u, x))
      <3> HIDE DEF Dropped, T
      <3> QED BY <2>6, <2>7
    <2>9. Dropped(n) => Dropped(n + 1)
      BY <2>1
    <2>10. Dropped(n) => ~(x \in wanted2)
      BY <2>1, <2>2
    <2>11. x \in wanted2 => x \in wanted
      BY <2>1, <2>2
    <2>12. x \in wanted /\ x \notin wanted2 => Dropped(n + 1)
      BY <2>1, <2>2
    <2>13. \A v \in Seq(S) : Starts(v, v)
      OBVIOUS
    <2> HIDE DEF Starts, Dropped
    <2>14. Starts(G[n + 1], F[n + 1]) /\ (G[n + 1] = F[n + 1] \/ Dropped(n + 1))
      <3>1. CASE x \in wanted2
        <4>1. t = u /\ F[n + 1] = Append(u, x) /\ G[n + 1] = Append(t, x)
          BY <2>3, <2>4, <2>5, <2>6, <2>10, <2>11, <3>1
        <4>2. G[n + 1] = Append(u, x) /\ Starts(Append(u, x), Append(u, x))
          BY <2>7, <2>13, <4>1
        <4> QED BY <4>1, <4>2
      <3>2. CASE x \notin wanted2 /\ x \in wanted
        <4>1. F[n + 1] = Append(u, x) /\ G[n + 1] = t
          BY <2>3, <2>4, <2>5, <3>2
        <4> QED BY <2>8, <2>12, <3>2, <4>1
      <3>3. CASE x \notin wanted2 /\ x \notin wanted
        <4>1. F[n + 1] = u /\ G[n + 1] = t
          BY <2>3, <2>4, <2>5, <3>3
        <4> QED BY <2>6, <2>9, <4>1
      <3> QED BY <3>1, <3>2, <3>3
    <2> QED BY <1>5, <2>14
  <1>6. 0 .. Len(s) \subseteq T
    <2> HIDE DEF T
    <2> QED BY <1>3, <1>4, <1>5, IntervalInduction
  <1>7. Len(s) \in 0 .. Len(s)
    BY <1>3
  <1>8. Starts(G[Len(s)], F[Len(s)])
    BY <1>6, <1>7
  <1> QED BY <1>1, <1>2, <1>8

-----------------------------------------------------------------------------
(* Types                                                                    *)

Entries(n) == [id : 1 .. n, class : Classes, at : Nat]
Queries    == [class : Classes \cup {AnyClass}, since : Nat]
Pages      == [hasMore : BOOLEAN, next : Nat, known : BOOLEAN]

\* Fetches, k of them sent so far and n entries recorded.
FetchRecords(k, n) ==
  [id : 1 .. k, kind : ListKinds \cup Loads, token : Tokens \cup {NoToken},
   query : Queries, cursor : Nat, phase : {"sent", "answered", "failed"},
   items : Seq(Entries(n)), page : Pages, asOf : 0 .. n, alone : BOOLEAN]

ServerTypes ==
  /\ setting \in Settings
  /\ recorded \in Nat /\ now \in Nat
  /\ log \in Seq(Entries(recorded))
  /\ storage = "memory" => Len(log) <= Cap

SessionTypes == token \in Tokens \cup {NoToken} /\ overlay \in BOOLEAN /\ raced \in BOOLEAN

PageTypes ==
  /\ filter \in [class : Classes \cup {AnyClass}, range : {"all", "1h"}]
  /\ older \in Seq(Entries(recorded))
  /\ items \in Seq(Entries(recorded)) /\ page \in Pages
  /\ coherent \in BOOLEAN
  /\ answers \in [first : Queries, last : Queries, asOf : Nat]
  /\ reads \in Nat /\ loads \in Nat

TypeInv ==
  /\ ServerTypes /\ SessionTypes /\ PageTypes
  /\ fetches \subseteq FetchRecords(reads + loads, recorded)

LEMMA ElementTypes ==
  ASSUME NEW n, NEW s \in Seq(Entries(n))
  PROVE  DOMAIN s = 1 .. Len(s) /\ \A i \in DOMAIN s : s[i] \in Entries(n)
  <1>1. DOMAIN s = 1 .. Len(s) /\ \A i \in 1 .. Len(s) : s[i] \in Entries(n)
    BY ElementOfSeq
  <1> QED BY <1>1

LEMMA EntriesGrow ==
  ASSUME NEW n \in Nat, NEW m \in Nat, n <= m
  PROVE  /\ Entries(n) \subseteq Entries(m)
         /\ \A s \in Seq(Entries(n)) : s \in Seq(Entries(m))
  <1>1. Entries(n) \subseteq Entries(m)
    BY DEF Entries
  <1> QED BY <1>1, SeqMonotonic

LEMMA FetchesGrow ==
  ASSUME NEW k \in Nat, NEW l \in Nat, k <= l, NEW n \in Nat, NEW m \in Nat, n <= m
  PROVE  FetchRecords(k, n) \subseteq FetchRecords(l, m)
  <1>1. \A s \in Seq(Entries(n)) : s \in Seq(Entries(m))
    BY EntriesGrow
  <1>2. 1 .. k \subseteq 1 .. l /\ 0 .. n \subseteq 0 .. m
    OBVIOUS
  <1> QED BY <1>1, <1>2 DEF FetchRecords

LEMMA FetchRecordIsFetch ==
  ASSUME NEW k, NEW n, NEW f \in FetchRecords(k, n)
  PROVE  IsFetch(f)
  BY DEF FetchRecords, IsFetch

LEMMA PageConstants ==
  NoPage \in Pages /\ LastPage \in Pages /\ Unfiltered \in Queries
  BY DEF NoPage, LastPage, Pages, Unfiltered, Queries

\* What Sent makes of a set of fetches.
NewFetch(others, kind, cursor, query, tok) ==
  [Request(reads + loads + 1, kind, cursor, query, tok)
     EXCEPT !.alone = ~\E g \in others : ForList(kind) /\ ForList(g.kind)]

AfterSending(g, kind) ==
  IF ForList(kind) /\ ForList(g.kind) THEN [g EXCEPT !.alone = FALSE] ELSE g

LEMMA SentIs ==
  ASSUME NEW others, NEW kind, NEW cursor, NEW query, NEW tok
  PROVE  Sent(others, kind, cursor, query, tok) =
           {AfterSending(g, kind) : g \in others}
             \cup {NewFetch(others, kind, cursor, query, tok)}
  <1> DEFINE clash == {g \in others : ForList(kind) /\ ForList(g.kind)}
             f == Request(reads + loads + 1, kind, cursor, query, tok)
  <1>1. Sent(others, kind, cursor, query, tok) =
          (others \ clash) \cup {[g EXCEPT !.alone = FALSE] : g \in clash}
            \cup {[f EXCEPT !.alone = (clash = {})]}
    BY DEF Sent
  <1>2. (clash = {}) = ~\E g \in others : ForList(kind) /\ ForList(g.kind)
    OBVIOUS
  <1>3. NewFetch(others, kind, cursor, query, tok) = [f EXCEPT !.alone = (clash = {})]
    BY <1>2, Zenon DEF NewFetch
  <1>4. {AfterSending(g, kind) : g \in others} =
          (others \ clash) \cup {[g EXCEPT !.alone = FALSE] : g \in clash}
    BY DEF AfterSending
  <1> QED BY <1>1, <1>3, <1>4

LEMMA NewFetchFields ==
  ASSUME NEW others, NEW kind, NEW cursor, NEW query, NEW tok
  PROVE  LET f == NewFetch(others, kind, cursor, query, tok)
         IN  /\ f.id = reads + loads + 1 /\ f.kind = kind /\ f.cursor = cursor
             /\ f.query = query /\ f.phase = "sent"
             /\ f.alone = ~\E g \in others : ForList(kind) /\ ForList(g.kind)
             /\ f = [id |-> reads + loads + 1, kind |-> kind, token |-> tok,
                     query |-> query, cursor |-> cursor, phase |-> "sent",
                     items |-> <<>>, page |-> NoPage, asOf |-> 0,
                     alone |-> ~\E g \in others : ForList(kind) /\ ForList(g.kind)]
  <1> DEFINE a == ~\E g \in others : ForList(kind) /\ ForList(g.kind)
  <1> HIDE DEF a
  <1>1. [Request(reads + loads + 1, kind, cursor, query, tok) EXCEPT !.alone = a] =
          [id |-> reads + loads + 1, kind |-> kind, token |-> tok,
           query |-> query, cursor |-> cursor, phase |-> "sent",
           items |-> <<>>, page |-> NoPage, asOf |-> 0, alone |-> a]
    BY DEF Request
  <1>2. NewFetch(others, kind, cursor, query, tok) =
          [Request(reads + loads + 1, kind, cursor, query, tok) EXCEPT !.alone = a]
    BY Zenon DEF NewFetch, a
  <1> QED BY <1>1, <1>2 DEF a

LEMMA AfterSendingFields ==
  ASSUME NEW g, IsFetch(g), NEW kind
  PROVE  LET h == AfterSending(g, kind)
         IN  /\ IsFetch(h)
             /\ h.id = g.id /\ h.kind = g.kind /\ h.token = g.token
             /\ h.query = g.query /\ h.cursor = g.cursor /\ h.phase = g.phase
             /\ h.items = g.items /\ h.page = g.page /\ h.asOf = g.asOf
             /\ h.alone = IF ForList(kind) /\ ForList(g.kind) THEN FALSE ELSE g.alone
  BY DEF AfterSending, IsFetch

LEMMA SentTypes ==
  ASSUME TypeInv, NEW others \in SUBSET fetches, NEW kind \in ListKinds \cup Loads,
         NEW cursor \in Nat, NEW query \in Queries,
         NEW tok \in Tokens \cup {NoToken},
         fetches' = Sent(others, kind, cursor, query, tok),
         reads' \in Nat, loads' \in Nat, reads' + loads' = reads + loads + 1,
         UNCHANGED recorded
  PROVE  fetches' \subseteq FetchRecords(reads' + loads', recorded')
  <1>1. /\ reads + loads \in Nat /\ reads' + loads' \in Nat /\ recorded \in Nat
        /\ reads + loads <= reads' + loads' /\ reads + loads + 1 \in 1 .. (reads' + loads')
        /\ 0 \in 0 .. recorded
    <2>1. reads \in Nat /\ loads \in Nat /\ recorded \in Nat
      BY DEF TypeInv, PageTypes, ServerTypes
    <2>2. reads + loads \in Nat /\ 0 \in 0 .. recorded
      BY <2>1
    <2>3. reads' + loads' \in Nat
      <3>1. PICK r \in Nat, l \in Nat : r = reads' /\ l = loads'
        OBVIOUS
      <3>2. r + l \in Nat
        OBVIOUS
      <3>3. r + l = reads' + loads'
        BY <3>1, Zenon
      <3> QED BY <3>2, <3>3, Zenon
    <2>4. PICK k \in Nat : k = reads + loads
      BY <2>2
    <2>5. PICK l \in Nat : l = reads' + loads'
      BY <2>3
    <2>6. k <= l /\ k + 1 \in 1 .. l
      BY <2>4, <2>5
    <2> QED BY <2>1, <2>2, <2>3, <2>4, <2>5, <2>6, Zenon
  <1>2. \A g \in others : g \in FetchRecords(reads' + loads', recorded)
    BY <1>1, FetchesGrow DEF TypeInv
  <1>3. \A g \in others : AfterSending(g, kind) \in FetchRecords(reads' + loads', recorded)
    BY <1>2 DEF FetchRecords, AfterSending
  <1>4. NewFetch(others, kind, cursor, query, tok) \in FetchRecords(reads' + loads', recorded)
    <2> DEFINE a == ~\E g \in others : ForList(kind) /\ ForList(g.kind)
    <2>1. a \in BOOLEAN
      OBVIOUS
    <2>2. NewFetch(others, kind, cursor, query, tok) =
            [id |-> reads + loads + 1, kind |-> kind, token |-> tok,
             query |-> query, cursor |-> cursor, phase |-> "sent",
             items |-> <<>>, page |-> NoPage, asOf |-> 0, alone |-> a]
      BY NewFetchFields
    <2> HIDE DEF a
    <2>3. <<>> \in Seq(Entries(recorded))
      BY EmptySeq
    <2> QED BY <1>1, <2>1, <2>2, <2>3, PageConstants DEF FetchRecords
  <1> QED BY <1>3, <1>4, SentIs


LEMMA TypesInit == Init => TypeInv
  <1> SUFFICES ASSUME Init PROVE TypeInv
    OBVIOUS
  <1>1. ServerTypes /\ SessionTypes
    <2>1. <<>> \in Seq(Entries(0)) /\ Len(<<>>) = 0
      BY EmptySeq
    <2>2. storage = "memory" => Len(log) <= Cap
      BY <2>1, ConsoleAssumption DEF Init
    <2> QED BY <2>1, <2>2 DEF Init, ServerTypes, SessionTypes
  <1>2. PageTypes
    <2>1. items \in Seq(Entries(recorded))
      BY EmptySeq DEF Init
    <2>2. answers \in [first : Queries, last : Queries, asOf : Nat]
      BY PageConstants DEF Init
    <2>3. filter \in [class : Classes \cup {AnyClass}, range : {"all", "1h"}]
      BY DEF Init
    <2>4. page \in Pages
      BY PageConstants DEF Init
    <2>5. reads \in Nat /\ loads \in Nat
      <3>1. reads = 0 /\ (loads = 0 \/ loads = 1)
        BY DEF Init
      <3> QED BY <3>1
    <2>6. coherent \in BOOLEAN
      BY DEF Init
    <2>7. older \in Seq(Entries(recorded))
      BY <2>1 DEF Init
    <2> QED BY <2>1, <2>2, <2>3, <2>4, <2>5, <2>6, <2>7 DEF PageTypes
  <1>3. fetches \subseteq FetchRecords(reads + loads, recorded)
    <2>1. CASE token = NoToken
      BY <2>1 DEF Init
    <2>2. CASE token # NoToken
      <3>1. /\ reads + loads = 1 /\ recorded = 0
            /\ fetches = {Request(1, "init", 0, Unfiltered, token)}
        BY <2>2 DEF Init
      <3>2. <<>> \in Seq(Entries(0)) /\ token \in Tokens \cup {NoToken}
        BY EmptySeq DEF Init
      <3>3. Request(1, "init", 0, Unfiltered, token) \in FetchRecords(1, 0)
        BY <3>2, PageConstants DEF Request, FetchRecords, Loads, SignIns
      <3> QED BY <3>1, <3>3
    <2> QED BY <2>1, <2>2
  <1> QED BY <1>1, <1>2, <1>3 DEF TypeInv

LEMMA TickTypes == ASSUME TypeInv, Tick PROVE TypeInv'
  <1>1. ServerTypes' /\ SessionTypes'
    BY DEF TypeInv, Tick, ServerTypes, SessionTypes, session, storage
  <1>2. PageTypes'
    BY DEF TypeInv, Tick, PageTypes, list, bounds
  <1>3. fetches' \subseteq FetchRecords(reads' + loads', recorded')
    BY DEF TypeInv, Tick, bounds
  <1> QED BY <1>1, <1>2, <1>3 DEF TypeInv

\* The log after one more entry: the entry, then what is kept of the others.
LEMMA RecordLog ==
  ASSUME TypeInv, NEW c \in Classes, Record(c)
  PROVE  /\ log' \in Seq(Entries(recorded'))
         /\ Len(log') \in {Len(log), Len(log) + 1} /\ Len(log') >= 1
         /\ log'[1] = Entry(c)
         /\ \A i \in 1 .. Len(log') - 1 : log'[i + 1] = log[i]
         /\ storage = "memory" => Len(log') <= Cap
  <1> DEFINE e == Entry(c)
             s == <<e>> \o log
  <1>1. /\ recorded \in Nat /\ recorded' = recorded + 1 /\ recorded' \in Nat
        /\ log \in Seq(Entries(recorded)) /\ now \in Nat
    BY DEF TypeInv, ServerTypes, Record
  <1>2. e \in Entries(recorded')
    BY <1>1 DEF Entry, Entries
  <1>3. log \in Seq(Entries(recorded'))
    <2>1. recorded <= recorded'
      BY <1>1
    <2> QED BY <1>1, <2>1, EntriesGrow
  <1>4. storage # "memory" => log' = s
    BY DEF Record, Inserted
  <1>5. Len(log) \in Nat /\ Cap \in Nat \ {0}
    BY <1>1, ConsoleAssumption
  <1> HIDE DEF e
  <1>6. /\ s \in Seq(Entries(recorded')) /\ Len(s) = Len(log) + 1 /\ s[1] = e
        /\ \A i \in 1 .. Len(log) : s[i + 1] = log[i]
    <2>1. <<e>> \in Seq(Entries(recorded')) /\ Len(<<e>>) = 1
      BY <1>2
    <2>2. /\ s \in Seq(Entries(recorded')) /\ Len(s) = 1 + Len(log)
          /\ \A i \in 1 .. 1 + Len(log) : s[i] = IF i <= 1 THEN <<e>>[i] ELSE log[i - 1]
      BY <1>3, <2>1, ConcatProperties
    <2>3. s[1] = e
      BY <1>5, <2>2
    <2>4. \A i \in 1 .. Len(log) : i + 1 \in 1 .. 1 + Len(log) /\ ~(i + 1 <= 1) /\ (i + 1) - 1 = i
      BY <1>5
    <2>5. \A i \in 1 .. Len(log) : s[i + 1] = log[i]
      BY <2>2, <2>4
    <2> QED BY <1>5, <2>2, <2>3, <2>5
  <1> HIDE DEF s
  <1>7. CASE storage = "memory"
    <2>1. /\ log' \in Seq(Entries(recorded'))
          /\ Len(log') = IF Cap < Len(s) THEN Cap ELSE Len(s)
          /\ \A i \in 1 .. Len(log') : log'[i] = s[i]
      <3>1. log' = Slice(s, 1, Cap)
        BY <1>7 DEF Record, Recorded, s, e
      <3>2. PICK n \in Nat : n = IF Cap < Len(s) THEN Cap ELSE Len(s)
        BY <1>5, <1>6
      <3>3. 1 <= n
        BY <1>5, <1>6, <3>2
      <3>4. /\ Slice(s, 1, Cap) \in Seq(Entries(recorded'))
            /\ Len(Slice(s, 1, Cap)) = IF 1 <= n THEN n - 1 + 1 ELSE 0
            /\ \A i \in 1 .. Len(Slice(s, 1, Cap)) : Slice(s, 1, Cap)[i] = s[1 + i - 1]
        BY <1>5, <1>6, <3>2, SliceFacts
      <3>5. \A i \in 1 .. n : 1 + i - 1 = i
        BY <3>2
      <3> QED BY <3>1, <3>2, <3>3, <3>4, <3>5
    <2>2. Len(log) <= Cap
      BY <1>7 DEF TypeInv, ServerTypes
    <2>3. Len(log') \in {Len(log), Len(log) + 1} /\ Len(log') >= 1 /\ Len(log') <= Cap
      BY <1>5, <1>6, <2>1, <2>2
    <2>4. \A i \in 1 .. Len(log') - 1 : i + 1 \in 1 .. Len(log') /\ i \in 1 .. Len(log)
      BY <1>5, <2>3
    <2>5. 1 \in 1 .. Len(log')
      BY <1>5, <2>3
    <2> QED BY <1>6, <2>1, <2>3, <2>4, <2>5 DEF e
  <1>8. CASE storage # "memory"
    <2>1. log' = s
      BY <1>4, <1>8
    <2>2. Len(log) + 1 >= 1 /\ (Len(log) + 1) - 1 = Len(log)
      BY <1>5
    <2> QED BY <1>6, <1>8, <2>1, <2>2 DEF e
  <1> QED BY <1>7, <1>8

LEMMA RecordTypes == ASSUME TypeInv, NEW c \in Classes, Record(c) PROVE TypeInv'
  <1>1. /\ recorded \in Nat /\ recorded' \in Nat /\ recorded <= recorded'
        /\ reads \in Nat /\ loads \in Nat /\ reads + loads \in Nat
        /\ reads + loads <= reads + loads
    BY DEF TypeInv, ServerTypes, PageTypes, Record
  <1>2. ServerTypes'
    <2>1. storage' = storage
      BY DEF Record, storage
    <2> QED BY <1>1, <2>1, RecordLog DEF ServerTypes, Record, TypeInv
  <1>3. SessionTypes'
    BY DEF Record, session, SessionTypes, TypeInv
  <1>4. items \in Seq(Entries(recorded')) /\ older \in Seq(Entries(recorded'))
    BY <1>1, EntriesGrow DEF TypeInv, PageTypes
  <1>5. PageTypes'
    BY <1>4 DEF Record, list, bounds, PageTypes, TypeInv
  <1>6. fetches' \subseteq FetchRecords(reads' + loads', recorded')
    BY <1>1, FetchesGrow DEF Record, bounds, TypeInv
  <1> QED BY <1>2, <1>3, <1>5, <1>6 DEF TypeInv

\* Pages are cut out of what matches.
LEMMA PageTypesOfWindow ==
  ASSUME TypeInv, NEW q, NEW offset \in Nat
  PROVE  /\ PageItems(Window(q, offset)) \in Seq(Entries(recorded))
         /\ PageInfo(Window(q, offset), offset) \in Pages
  <1>1. Matching(q) \in Seq(Entries(recorded))
    BY FilteredFacts DEF Matching, TypeInv, ServerTypes
  <1>2. /\ offset + 1 \in Nat \ {0} /\ offset + PageSize + 1 \in Nat
        /\ offset + PageSize \in Nat /\ PageSize \in Nat
    BY ConsoleAssumption
  <1>3. PICK m \in Nat : m = offset + PageSize + 1
    BY <1>2
  <1>4. PICK n \in Nat \ {0} : n = offset + 1
    BY <1>2
  <1>5. Window(q, offset) \in Seq(Entries(recorded))
    BY <1>1, <1>3, <1>4, SliceFacts DEF Window
  <1>6. PageItems(Window(q, offset)) \in Seq(Entries(recorded))
    <2>1. PICK w \in Seq(Entries(recorded)) : w = Window(q, offset)
      BY <1>5
    <2>2. PICK k \in Nat, one \in Nat \ {0} : k = PageSize /\ one = 1
      BY <1>2
    <2>3. Slice(w, one, k) \in Seq(Entries(recorded))
      BY SliceFacts
    <2> QED BY <2>1, <2>2, <2>3 DEF PageItems
  <1>7. [hasMore |-> TRUE, next |-> offset + PageSize, known |-> TRUE] \in Pages
    BY <1>2 DEF Pages
  <1> QED BY <1>6, <1>7, PageConstants DEF PageInfo

LEMMA ServeTypes ==
  ASSUME TypeInv, NEW f \in fetches, Serve(f) \/ Lose(f)
  PROVE  TypeInv'
  <1>0. /\ f \in FetchRecords(reads + loads, recorded)
        /\ IsFetch(f)
        /\ recorded \in Nat /\ recorded \in 0 .. recorded
    BY FetchRecordIsFetch DEF TypeInv, ServerTypes
  <1>1. PICK g \in FetchRecords(reads + loads, recorded) : Step(f, g)
    <2>1. CASE Refuse(f) \/ Lose(f)
      <3>1. Step(f, [f EXCEPT !.phase = "failed"])
        BY <2>1 DEF Refuse, Lose
      <3>2. [f EXCEPT !.phase = "failed"] \in FetchRecords(reads + loads, recorded)
        BY <1>0 DEF FetchRecords
      <3> QED BY <3>1, <3>2
    <2>2. CASE ReadPage(f)
      <3> DEFINE found == Window(f.query, f.cursor)
                 its == PageItems(found)
                 info == PageInfo(found, f.cursor)
                 g == [f EXCEPT !.phase = "answered", !.items = its,
                                !.page = info, !.asOf = recorded]
      <3>1. Step(f, g)
        BY <2>2 DEF ReadPage
      <3>2. its \in Seq(Entries(recorded)) /\ info \in Pages
        <4>1. f.cursor \in Nat
          BY <1>0 DEF FetchRecords
        <4> QED BY <4>1, PageTypesOfWindow
      <3> HIDE DEF its, info
      <3>3. g \in FetchRecords(reads + loads, recorded)
        BY <1>0, <3>2 DEF FetchRecords
      <3> QED BY <3>1, <3>3
    <2>3. CASE ReadState(f)
      <3> DEFINE top == IF view = "audit" THEN Slice(log, 1, StateSize) ELSE <<>>
                 g == [f EXCEPT !.phase = "answered", !.items = top,
                                !.asOf = recorded]
      <3>1. Step(f, g)
        BY <2>3 DEF ReadState
      <3>2. top \in Seq(Entries(recorded))
        <4>1. Slice(log, 1, StateSize) \in Seq(Entries(recorded))
          BY ConsoleAssumption, SliceFacts DEF TypeInv, ServerTypes
        <4> QED BY <4>1, EmptySeq
      <3> HIDE DEF top
      <3>3. g \in FetchRecords(reads + loads, recorded)
        BY <1>0, <3>2 DEF FetchRecords
      <3> QED BY <3>1, <3>3
    <2> QED BY <2>1, <2>2, <2>3 DEF Serve
  <1>2. ServerTypes' /\ SessionTypes'
    BY <1>1 DEF Step, server, session, ServerTypes, SessionTypes, storage, TypeInv
  <1>3. PageTypes'
    BY <1>1 DEF Step, server, list, bounds, PageTypes, TypeInv
  <1>4. fetches' \subseteq FetchRecords(reads' + loads', recorded')
    BY <1>1 DEF Step, server, bounds, TypeInv
  <1> QED BY <1>2, <1>3, <1>4 DEF TypeInv

LEMMA QueryTypes ==
  ASSUME TypeInv,
         NEW chosen \in [class : Classes \cup {AnyClass}, range : {"all", "1h"}]
  PROVE  Query(chosen) \in Queries
  <1>1. Since(chosen.range) \in Nat
    BY DEF Since, TypeInv, ServerTypes
  <1>2. chosen.class \in Classes \cup {AnyClass} /\ 0 \in Nat
    OBVIOUS
  <1>3. /\ RequestsQuery(chosen) \in Queries /\ HealthQuery(chosen) \in Queries
        /\ AuditQuery(chosen) \in Queries
    BY <1>1, <1>2 DEF RequestsQuery, HealthQuery, AuditQuery, Queries
  <1> QED BY <1>3 DEF Query

LEMMA ReadListTypes ==
  ASSUME TypeInv, NEW kind \in ListKinds, NEW cursor \in Nat,
         ReadList(kind, cursor), UNCHANGED <<server, list, session>>,
         filter' \in [class : Classes \cup {AnyClass}, range : {"all", "1h"}]
  PROVE  TypeInv'
  <1>1. ServerTypes' /\ SessionTypes'
    BY DEF server, session, ServerTypes, SessionTypes, storage, TypeInv
  <1>2. PageTypes' /\ reads' \in Nat /\ loads' \in Nat
    <2>1. reads' \in Nat /\ loads' \in Nat
      BY DEF ReadList, PageTypes, TypeInv
    <2> QED BY <2>1 DEF server, list, PageTypes, TypeInv
  <1>3. reads' + loads' = reads + loads + 1
    <2>1. PICK r \in Nat, l \in Nat : r = reads /\ l = loads
      BY DEF TypeInv, PageTypes
    <2>2. (r + 1) + l = r + l + 1
      BY <2>1
    <2>3. reads' = r + 1 /\ loads' = l
      BY <2>1 DEF ReadList
    <2> QED BY <2>1, <2>2, <2>3, Zenon
  <1>4. Query(filter') \in Queries
    BY QueryTypes
  <1>5. fetches' \subseteq FetchRecords(reads' + loads', recorded')
    <2>1. fetches' = Sent(fetches, kind, cursor, Query(filter'), token)
      BY DEF ReadList
    <2>2. token \in Tokens \cup {NoToken} /\ UNCHANGED recorded
      BY DEF TypeInv, SessionTypes, server
    <2>3. kind \in ListKinds \cup Loads /\ fetches \in SUBSET fetches
      OBVIOUS
    <2> QED BY <1>2, <1>3, <1>4, <2>1, <2>2, <2>3, SentTypes
  <1> QED BY <1>1, <1>2, <1>5 DEF TypeInv

LEMMA ListPageTypes ==
  ASSUME TypeInv,
         \/ ClickRefresh \/ EnterTarget \/ LoadMore
         \/ \E c \in Choices : ChooseClass(c)
         \/ \E r \in {"all", "1h"} : ChooseRange(r)
         \/ \E r \in setting.routes : Navigate(r)
  PROVE  TypeInv'
  <1>1. filter' \in [class : Classes \cup {AnyClass}, range : {"all", "1h"}]
    <2>0. filter \in [class : Classes \cup {AnyClass}, range : {"all", "1h"}]
      BY DEF TypeInv, PageTypes
    <2>1. CASE ClickRefresh \/ EnterTarget \/ LoadMore \/ \E r \in setting.routes : Navigate(r)
      BY <2>0, <2>1 DEF ClickRefresh, EnterTarget, LoadMore, Navigate
    <2>2. CASE \E c \in Choices : ChooseClass(c)
      BY <2>0, <2>2, ConsoleAssumption DEF ChooseClass
    <2>3. CASE \E r \in {"all", "1h"} : ChooseRange(r)
      BY <2>0, <2>3 DEF ChooseRange
    <2> QED BY <2>1, <2>2, <2>3
  <1>2. UNCHANGED <<server, list, session>>
    BY DEF ClickRefresh, EnterTarget, LoadMore, ChooseClass, ChooseRange, Navigate
  <1>3. \/ UNCHANGED <<fetches, bounds>>
        \/ \E kind \in ListKinds : \E cursor \in {0, page.next} : ReadList(kind, cursor)
    BY DEF ClickRefresh, EnterTarget, LoadMore, ChooseClass, ChooseRange, Navigate, Refresh,
           ListKinds
  <1>4. CASE UNCHANGED <<fetches, bounds>>
    <2>1. ServerTypes' /\ SessionTypes'
      BY <1>2 DEF server, session, ServerTypes, SessionTypes, storage, TypeInv
    <2>2. PageTypes'
      BY <1>1, <1>2, <1>4 DEF server, list, bounds, PageTypes, TypeInv
    <2>3. fetches' \subseteq FetchRecords(reads' + loads', recorded')
      BY <1>2, <1>4 DEF server, bounds, TypeInv
    <2> QED BY <2>1, <2>2, <2>3 DEF TypeInv
  <1>5. CASE \E kind \in ListKinds : \E cursor \in {0, page.next} : ReadList(kind, cursor)
    <2>1. PICK kind \in ListKinds, cursor \in {0, page.next} : ReadList(kind, cursor)
      BY <1>5
    <2>2. cursor \in Nat
      BY DEF TypeInv, PageTypes, Pages
    <2> QED BY <1>1, <1>2, <2>1, <2>2, ReadListTypes
  <1> QED BY <1>3, <1>4, <1>5

\* A fetch that has been applied is gone; the rest of the tab keeps its types.
LEMMA ApplyListTypes ==
  ASSUME TypeInv, NEW f \in fetches, ApplyList(f)
  PROVE  TypeInv'
  <1>0. /\ f \in FetchRecords(reads + loads, recorded)
        /\ fetches \subseteq FetchRecords(reads + loads, recorded)
    BY DEF TypeInv
  <1>1. ServerTypes' /\ SessionTypes'
    BY DEF ApplyList, server, session, ServerTypes, SessionTypes, storage, TypeInv
  <1>2. /\ f.items \in Seq(Entries(recorded)) /\ f.page \in Pages
        /\ f.query \in Queries /\ f.asOf \in Nat /\ f.alone \in BOOLEAN
        /\ recorded \in Nat
    BY <1>0 DEF FetchRecords, TypeInv, ServerTypes
  <1>3. /\ items' \in Seq(Entries(recorded)) /\ page' \in Pages
        /\ older' \in Seq(Entries(recorded))
        /\ coherent' \in BOOLEAN
        /\ answers' \in [first : Queries, last : Queries, asOf : Nat]
    <2>0. /\ items \in Seq(Entries(recorded)) /\ page \in Pages
          /\ older \in Seq(Entries(recorded))
          /\ coherent \in BOOLEAN
          /\ answers \in [first : Queries, last : Queries, asOf : Nat]
      BY DEF TypeInv, PageTypes
    <2>1. CASE Show(f)
      BY <1>2, <2>1, EmptySeq DEF Show, Begin
    <2>4. CASE ShowBelow(f)
      <3>1. older \o items \in Seq(Entries(recorded))
        BY <2>0, ConcatProperties
      <3> QED BY <1>2, <2>4, <3>1 DEF ShowBelow, Begin
    <2>2. CASE ShowMore(f)
      <3>1. items \o f.items \in Seq(Entries(recorded))
        BY <1>2, <2>0, ConcatProperties
      <3> QED BY <1>2, <2>0, <2>2, <3>1 DEF ShowMore
    <2>3. CASE KeepList(f)
      BY <2>0, <2>3 DEF KeepList
    <2> QED BY <2>1, <2>2, <2>3, <2>4 DEF ApplyList
  <1>4. PageTypes'
    BY <1>3 DEF ApplyList, server, bounds, PageTypes, TypeInv
  <1>5. fetches' \subseteq FetchRecords(reads' + loads', recorded')
    BY <1>0 DEF ApplyList, server, bounds
  <1> QED BY <1>1, <1>4, <1>5 DEF TypeInv

LEMMA SignedOutTypes ==
  ASSUME TypeInv, SignedOut PROVE SessionTypes'
  BY DEF SignedOut, SessionTypes, TypeInv

LEMMA ApplyLoadTypes ==
  ASSUME TypeInv, NEW f \in fetches, ApplyLoad(f)
  PROVE  TypeInv'
  <1>0. /\ f \in FetchRecords(reads + loads, recorded)
        /\ fetches \subseteq FetchRecords(reads + loads, recorded)
        /\ reads \in Nat /\ loads \in Nat
    BY DEF TypeInv, PageTypes
  <1>1. ServerTypes' /\ UNCHANGED <<server, route, filter>>
    BY DEF ApplyLoad, server, ServerTypes, storage, TypeInv
  <1>2. /\ items' \in Seq(Entries(recorded)) /\ page' \in Pages
        /\ older' \in Seq(Entries(recorded))
        /\ coherent' \in BOOLEAN
        /\ answers' \in [first : Queries, last : Queries, asOf : Nat]
    <2>1. CASE view = "audit"
      <3>1. f.items \in Seq(Entries(recorded)) /\ f.asOf \in Nat /\ f.alone \in BOOLEAN
        BY <1>0 DEF FetchRecords, TypeInv, ServerTypes
      <3> QED BY <2>1, <3>1, PageConstants, EmptySeq DEF ApplyLoad, ShowState
    <2>2. CASE view # "audit"
      BY <2>2 DEF ApplyLoad, ShowState, list, TypeInv, PageTypes
    <2> QED BY <2>1, <2>2
  <1>3. \/ /\ fetches' = fetches \ {f} /\ UNCHANGED bounds
           /\ SignedOut \/ UNCHANGED session
        \/ /\ fetches' = fetches \ {f} /\ UNCHANGED bounds
           /\ overlay' = FALSE /\ UNCHANGED <<token, raced>>
        \/ /\ fetches' = Sent(fetches \ {f}, "replace", 0, Query(filter), token)
           /\ reads' = reads + 1 /\ UNCHANGED loads
           /\ overlay' = FALSE /\ UNCHANGED <<token, raced>>
    BY DEF ApplyLoad, bounds
  <1>4. SessionTypes'
    BY <1>3, SignedOutTypes DEF SessionTypes, session, TypeInv
  <1>5. reads' \in Nat /\ loads' \in Nat
    BY <1>0, <1>3 DEF bounds
  <1>6. PageTypes'
    BY <1>1, <1>2, <1>5 DEF server, PageTypes, TypeInv
  <1>7. fetches' \subseteq FetchRecords(reads' + loads', recorded')
    <2>1. CASE fetches' = fetches \ {f} /\ UNCHANGED bounds
      BY <1>0, <1>1, <2>1 DEF server, bounds
    <2>2. CASE /\ fetches' = Sent(fetches \ {f}, "replace", 0, Query(filter), token)
               /\ reads' = reads + 1 /\ UNCHANGED loads
      <3>1. reads' + loads' = reads + loads + 1
        <4>1. PICK r \in Nat, l \in Nat : r = reads /\ l = loads
          BY <1>0
        <4>2. (r + 1) + l = r + l + 1
          BY <4>1
        <4>3. reads' = r + 1 /\ loads' = l
          BY <2>2, <4>1
        <4> QED BY <4>1, <4>2, <4>3, Zenon
      <3>2. Query(filter) \in Queries /\ token \in Tokens \cup {NoToken}
        BY QueryTypes DEF TypeInv, PageTypes, SessionTypes
      <3>3. /\ "replace" \in ListKinds \cup Loads /\ 0 \in Nat
            /\ fetches \ {f} \in SUBSET fetches /\ UNCHANGED recorded
        BY <1>1 DEF ListKinds, server
      <3> QED BY <1>5, <2>2, <3>1, <3>2, <3>3, SentTypes
    <2> QED BY <1>3, <2>1, <2>2
  <1> QED BY <1>1, <1>4, <1>6, <1>7 DEF TypeInv

LEMMA FailLoadTypes ==
  ASSUME TypeInv, NEW f \in fetches, FailLoad(f)
  PROVE  TypeInv'
  <1>1. ServerTypes'
    BY DEF FailLoad, server, ServerTypes, storage, TypeInv
  <1>2. SessionTypes'
    BY SignedOutTypes DEF FailLoad, session, SessionTypes, TypeInv
  <1>3. PageTypes'
    BY DEF FailLoad, server, list, bounds, PageTypes, TypeInv
  <1>4. fetches' \subseteq FetchRecords(reads' + loads', recorded')
    BY DEF FailLoad, server, bounds, TypeInv
  <1> QED BY <1>1, <1>2, <1>3, <1>4 DEF TypeInv

LEMMA SignInTypes ==
  ASSUME TypeInv, (\E t \in Tokens : Submit(t)) \/ Reload \/ LogOut
  PROVE  TypeInv'
  <1>1. UNCHANGED <<server, list, route, filter>>
    BY DEF Submit, Reload, LogOut, Load
  <1>2. ServerTypes'
    BY <1>1 DEF server, ServerTypes, storage, TypeInv
  <1>3. SessionTypes'
    <2>1. token \in Tokens \cup {NoToken} /\ overlay \in BOOLEAN /\ raced \in BOOLEAN
      BY DEF TypeInv, SessionTypes
    <2>2. SigningIn \in BOOLEAN
      BY DEF SigningIn
    <2>3. CASE \E t \in Tokens : Submit(t)
      BY <2>1, <2>2, <2>3 DEF Submit, SessionTypes
    <2>4. CASE Reload
      BY <2>1, <2>4 DEF Reload, session, SessionTypes
    <2>5. CASE LogOut
      BY <2>1, <2>2, <2>5 DEF LogOut, SessionTypes
    <2> QED BY <2>3, <2>4, <2>5
  <1>4. CASE LogOut
    <2>1. PageTypes'
      BY <1>1, <1>4 DEF LogOut, server, list, bounds, PageTypes, TypeInv
    <2>2. fetches' \subseteq FetchRecords(reads' + loads', recorded')
      BY <1>1, <1>4 DEF LogOut, server, bounds, TypeInv
    <2> QED BY <1>2, <1>3, <2>1, <2>2 DEF TypeInv
  <1>5. CASE ~LogOut
    <2>1. PICK kind \in Loads, t \in Tokens \cup {NoToken} : Load(kind, t)
      <3>1. "submit" \in Loads /\ "reload" \in Loads /\ token \in Tokens \cup {NoToken}
        BY DEF Loads, SignIns, TypeInv, SessionTypes
      <3> QED BY <1>5, <3>1 DEF Submit, Reload
    <2>2. reads \in Nat /\ loads \in Nat
      BY DEF TypeInv, PageTypes
    <2>3. reads' = reads /\ loads' = loads + 1 /\ reads' \in Nat /\ loads' \in Nat
      BY <2>1, <2>2 DEF Load
    <2>4. reads' + loads' = reads + loads + 1
      <3>1. PICK r \in Nat, l \in Nat : r = reads /\ l = loads
        BY <2>2
      <3>2. r + (l + 1) = r + l + 1
        BY <3>1
      <3>3. reads' = r /\ loads' = l + 1
        BY <2>3, <3>1
      <3> QED BY <3>1, <3>2, <3>3, Zenon
    <2>5. fetches' \subseteq FetchRecords(reads' + loads', recorded')
      <3>1. fetches' = Sent(fetches, kind, 0, Unfiltered, t)
        BY <2>1 DEF Load
      <3>2. /\ kind \in ListKinds \cup Loads /\ 0 \in Nat /\ fetches \in SUBSET fetches
            /\ UNCHANGED recorded
        BY <1>1 DEF server
      <3> QED BY <2>3, <2>4, <3>1, <3>2, PageConstants, SentTypes
    <2>6. PageTypes'
      BY <1>1, <2>3 DEF server, list, PageTypes, TypeInv
    <2> QED BY <1>2, <1>3, <2>5, <2>6 DEF TypeInv
  <1> QED BY <1>4, <1>5

LEMMA StutterTypes == ASSUME TypeInv, UNCHANGED vars PROVE TypeInv'
  BY DEF vars, server, list, session, bounds, TypeInv, ServerTypes, SessionTypes,
         PageTypes, storage

LEMMA NextTypes == TypeInv /\ [Next]_vars => TypeInv'
  <1> SUFFICES ASSUME TypeInv, [Next]_vars
               PROVE  TypeInv'
    OBVIOUS
  <1>1. CASE Tick
    BY <1>1, TickTypes
  <1>2. CASE \E c \in Classes : Record(c)
    BY <1>2, RecordTypes
  <1>3. CASE \E f \in fetches : Serve(f) \/ Lose(f) \/ Apply(f)
    <2>1. PICK f \in fetches : Serve(f) \/ Lose(f) \/ Apply(f)
      BY <1>3
    <2>2. CASE Serve(f) \/ Lose(f)
      BY <2>2, ServeTypes
    <2>3. CASE Apply(f)
      BY <2>3, ApplyListTypes, ApplyLoadTypes, FailLoadTypes DEF Apply
    <2> QED BY <2>1, <2>2, <2>3
  <1>4. CASE \/ ClickRefresh \/ EnterTarget \/ LoadMore
             \/ \E c \in Choices : ChooseClass(c)
             \/ \E r \in {"all", "1h"} : ChooseRange(r)
             \/ \E r \in setting.routes : Navigate(r)
    BY <1>4, ListPageTypes
  <1>5. CASE (\E t \in Tokens : Submit(t)) \/ Reload \/ LogOut
    BY <1>5, SignInTypes
  <1>6. CASE UNCHANGED vars
    BY <1>6, StutterTypes
  <1> QED BY <1>1, <1>2, <1>3, <1>4, <1>5, <1>6 DEF Next

\* The variables keep their shape, and the recorder in memory its bound.
THEOREM Typing == Spec => []TypeOK
  <1>1. TypeInv => TypeOK
    <2> SUFFICES ASSUME TypeInv PROVE TypeOK
      OBVIOUS
    <2>1. ServerTypes /\ SessionTypes /\ PageTypes
      BY DEF TypeInv
    <2>2. \A i \in DOMAIN log : log[i].id \in 1 .. recorded
      <3>1. \A i \in DOMAIN log : log[i] \in Entries(recorded)
        BY <2>1, ElementTypes DEF ServerTypes
      <3> QED BY <3>1 DEF Entries
    <2>3. \A i \in DOMAIN items : items[i].id \in 1 .. recorded
      <3>1. \A i \in DOMAIN items : items[i] \in Entries(recorded)
        BY <2>1, ElementTypes DEF PageTypes
      <3> QED BY <3>1 DEF Entries
    <2>6. \A i \in DOMAIN older : older[i].id \in 1 .. recorded
      <3>1. \A i \in DOMAIN older : older[i] \in Entries(recorded)
        BY <2>1, ElementTypes DEF PageTypes
      <3> QED BY <3>1 DEF Entries
    <2>4. \A f \in fetches : /\ f.kind \in ListKinds \cup Loads
                             /\ f.id \in 1 .. (reads + loads)
                             /\ f.phase \in {"sent", "answered", "failed"}
      BY DEF TypeInv, FetchRecords
    <2>5. filter.class \in Classes \cup {AnyClass} /\ filter.range \in {"all", "1h"}
      BY <2>1 DEF PageTypes
    <2> QED BY <2>1, <2>2, <2>3, <2>4, <2>5, <2>6
            DEF TypeOK, ServerTypes, SessionTypes, PageTypes
  <1> QED BY TypesInit, NextTypes, <1>1, PTL DEF Spec

-----------------------------------------------------------------------------
(* The list                                                                 *)
(*                                                                          *)
(* What a list answers is kept true from the answer on, not only from when  *)
(* it is shown: a page read now is applied to the list later, and entries   *)
(* are recorded in between.  So the invariant says of every answer under    *)
(* way what it will make of the list.                                       *)

InOrder ==
  /\ \A i \in 1 .. Len(log) : log[i].at <= now
  /\ \A i, j \in 1 .. Len(log) :
       i < j => log[i].id > log[j].id /\ log[i].at >= log[j].at

Elements(its) == {its[i] : i \in 1 .. Len(its)}

\* What its, the list with page information pg, says about the entries held
\* when it answers ans.
Complete(its, ans) ==
  \A e \in Held :
    (/\ Matches(e, ans.last) /\ e.id <= ans.asOf
     /\ \E b \in Elements(its) : e.id > b.id) => e \in Elements(its)

AtTheEnd(its, pg, ans) ==
  pg = LastPage =>
    \A e \in Held :
      Matches(e, ans.last) /\ e.id <= ans.asOf => e \in Elements(its)

\* The cursor: the entries before the next page are shown, or newer than one
\* that is.
GoesOn(its, pg, ans) ==
  pg.hasMore =>
    /\ Len(its) = pg.next
    /\ \A j \in 1 .. Len(Matching(ans.last)) :
         j <= pg.next =>
           \E b \in Elements(its) :
             Matching(ans.last)[j] = b \/ Matching(ans.last)[j].id > b.id

FewRepeated(its, ans) ==
  Len(its) - Cardinality(Elements(its)) <= recorded - ans.asOf

Consistent(its, ans) ==
  /\ ans.asOf <= recorded
  /\ ans.first.class = ans.last.class /\ ans.first.since <= ans.last.since
  /\ view = "audit" => ans.first.since = 0
  /\ \A e \in Elements(its) : Matches(e, ans.first)

ListOK(its, pg, ans) ==
  /\ Consistent(its, ans) /\ Complete(its, ans) /\ AtTheEnd(its, pg, ans)
  /\ GoesOn(its, pg, ans) /\ FewRepeated(its, ans)

\* q was made from the class chosen on the page, now or before.
Current(q) == q.class = Query(filter).class /\ q.since <= Query(filter).since

\* No fetch in flight is to replace the list.
Settled == \A f \in fetches : f.kind \in ListKinds => f.kind = "append" /\ f.cursor > 0

NoneBeside(f) == \A g \in fetches : ForList(g.kind) => g = f

NextPage(f) == f.kind = "append" /\ f.cursor > 0

FirstPageOf(f) == f.kind \in ListKinds /\ f.cursor = 0

\* What the answer to a fetch that is alone makes of the list.
Fetched(f) ==
  /\ f.kind \in ListKinds => Current(f.query) /\ (view = "audit" => f.query.since = 0)
  /\ f.kind = "replace" => f.cursor = 0
  /\ FirstPageOf(f) /\ f.phase = "answered" =>
       ListOK(f.items, f.page,
              [first |-> f.query, last |-> f.query, asOf |-> f.asOf])
  /\ NextPage(f) /\ coherent /\ f.phase = "sent" =>
       /\ page.hasMore /\ f.cursor = page.next
       /\ f.query.class = answers.last.class
       /\ f.query.since >= answers.last.since
  /\ NextPage(f) /\ coherent /\ f.phase = "answered" =>
       ListOK(items \o f.items, f.page, [answers EXCEPT !.last = f.query])
  /\ f.kind \in Loads /\ f.phase = "answered" =>
       ListOK(f.items, NoPage,
              [first |-> Unfiltered, last |-> Unfiltered, asOf |-> f.asOf])

ListInv ==
  /\ InOrder
  /\ coherent => ListOK(items, page, answers)
  /\ coherent /\ Settled => Current(answers.last)
  /\ \A f \in fetches : f.kind = "replace" => f.cursor = 0
  /\ \A f \in fetches :
       f.alone /\ ForList(f.kind) => NoneBeside(f) /\ Fetched(f)

\* Entries of a log none of which repeats: all but the newer ones, of which
\* there are rec - old, are in X.
LEMMA Counted ==
  ASSUME NEW rec \in Nat, NEW old \in 0 .. rec, NEW m \in Seq(Entries(rec)),
         NEW k \in Nat, k <= Len(m),
         \A i, j \in 1 .. k : i < j => m[i].id > m[j].id,
         NEW X, IsFiniteSet(X), \A j \in 1 .. k : m[j].id <= old => m[j] \in X
  PROVE  k <= Cardinality(X) + (rec - old)
  <1> DEFINE A == {j \in 1 .. k : m[j].id <= old}
             B == {j \in 1 .. k : m[j].id > old}
             N == old + 1 .. rec
             a == [j \in A |-> m[j]]
             b == [j \in B |-> m[j].id]
  <1>0. \A j \in 1 .. k : m[j] \in Entries(rec) /\ m[j].id \in 1 .. rec
    <2>1. \A j \in 1 .. k : j \in DOMAIN m
      BY ElementTypes
    <2> QED BY <2>1, ElementTypes DEF Entries
  <1>1. \A i, j \in 1 .. k : m[i].id = m[j].id => i = j
    <2>1. \A i, j \in 1 .. k : i = j \/ i < j \/ j < i
      OBVIOUS
    <2> QED BY <1>0, <2>1
  <1>2. a \in Injection(A, X)
    BY <1>1 DEF Injection, IsInjective
  <1>3. b \in Injection(B, N)
    BY <1>0, <1>1, SMTT(20) DEF Injection, IsInjective
  <1>4. IsFiniteSet(A) /\ Cardinality(A) <= Cardinality(X)
    <2> HIDE DEF A, a
    <2> QED BY <1>2, FS_Injection
  <1>5. IsFiniteSet(N) /\ Cardinality(N) = rec - old
    <2>1. PICK p \in Int : p = old + 1
      OBVIOUS
    <2>0. p \in Int /\ rec \in Int
      OBVIOUS
    <2>2. IsFiniteSet(p .. rec) /\ Cardinality(p .. rec) = IF p > rec THEN 0 ELSE rec - p + 1
      BY <2>0, FS_Interval, Zenon
    <2>3. (IF p > rec THEN 0 ELSE rec - p + 1) = rec - old
      BY <2>1
    <2>4. N = p .. rec
      BY <2>1
    <2> HIDE DEF N
    <2> QED BY <2>2, <2>3, <2>4
  <1>6. IsFiniteSet(B) /\ Cardinality(B) <= Cardinality(N)
    <2> HIDE DEF B, b, N
    <2> QED BY <1>3, <1>5, FS_Injection
  <1>7. A \cup B = 1 .. k
    BY <1>0
  <1>8. Cardinality(1 .. k) = k
    BY FS_Interval
  <1> HIDE DEF A, B, N
  <1>9. /\ Cardinality(A \cup B) = Cardinality(A) + Cardinality(B) - Cardinality(A \cap B)
        /\ Cardinality(A) \in Nat /\ Cardinality(B) \in Nat /\ Cardinality(X) \in Nat
        /\ Cardinality(A \cap B) \in Nat
    <2>1. IsFiniteSet(A \cap B)
      BY <1>4, FS_Subset
    <2> QED BY <1>4, <1>6, <2>1, FS_Union, FS_CardinalityType
  <1>10. PICK x \in Nat, p \in Nat, q \in Nat, r \in Nat :
           /\ x = Cardinality(X) /\ p = Cardinality(A) /\ q = Cardinality(B)
           /\ r = Cardinality(A \cap B)
    BY <1>9
  <1>11. k = p + q - r
    BY <1>7, <1>8, <1>9, <1>10, Zenon
  <1>12. p <= x /\ q <= rec - old
    BY <1>4, <1>5, <1>6, <1>10
  <1>13. k <= x + (rec - old)
    BY <1>11, <1>12
  <1> QED BY <1>10, <1>13

LEMMA ElementsFinite ==
  ASSUME NEW n, NEW s \in Seq(Entries(n))
  PROVE  /\ IsFiniteSet(Elements(s)) /\ Cardinality(Elements(s)) \in Nat
         /\ Elements(s) \subseteq Entries(n)
         /\ \A i \in 1 .. Len(s) : s[i] \in Elements(s)
  <1> DEFINE f == [i \in 1 .. Len(s) |-> s[i]]
             T == Elements(s)
  <1>1. f \in Surjection(1 .. Len(s), T)
    BY DEF Elements, Surjection
  <1>2. IsFiniteSet(1 .. Len(s))
    BY FS_Interval
  <1>3. IsFiniteSet(T)
    <2> HIDE DEF f, T
    <2> QED BY <1>1, <1>2, FS_Surjection
  <1>4. T \subseteq Entries(n) /\ \A i \in 1 .. Len(s) : s[i] \in T
    BY ElementTypes DEF Elements
  <1> QED BY <1>3, <1>4, FS_CardinalityType

LEMMA ElementsOfBoth ==
  ASSUME NEW n, NEW s \in Seq(Entries(n)), NEW t \in Seq(Entries(n))
  PROVE  Elements(s \o t) = Elements(s) \cup Elements(t)
  <1>1. /\ Len(s \o t) = Len(s) + Len(t)
        /\ \A i \in 1 .. Len(s) + Len(t) : (s \o t)[i] =
             IF i <= Len(s) THEN s[i] ELSE t[i - Len(s)]
    BY ConcatProperties
  <1>2. Len(s) \in Nat /\ Len(t) \in Nat
    OBVIOUS
  <1> DEFINE u == s \o t
  <1> HIDE DEF u
  <1>3. ASSUME NEW i \in 1 .. Len(s) PROVE s[i] \in Elements(s \o t)
    <2>1. i \in 1 .. Len(s \o t) /\ (s \o t)[i] = s[i]
      BY <1>1, <1>2
    <2> QED BY <2>1 DEF Elements
  <1>4. ASSUME NEW i \in 1 .. Len(t) PROVE t[i] \in Elements(s \o t)
    <2>1. PICK j \in 1 .. Len(s) + Len(t) : j = Len(s) + i
      BY <1>2
    <2>2. j \in 1 .. Len(s \o t) /\ ~(j <= Len(s)) /\ j - Len(s) = i
      BY <1>1, <1>2, <2>1
    <2>3. (s \o t)[j] = t[i]
      BY <1>1, <2>2
    <2> QED BY <2>2, <2>3 DEF Elements
  <1>5. ASSUME NEW i \in 1 .. Len(s \o t)
        PROVE  (s \o t)[i] \in Elements(s) \cup Elements(t)
    <2>1. CASE i <= Len(s)
      <3>1. i \in 1 .. Len(s) /\ (s \o t)[i] = s[i]
        BY <1>1, <1>2, <2>1
      <3> QED BY <3>1 DEF Elements
    <2>2. CASE ~(i <= Len(s))
      <3>1. i - Len(s) \in 1 .. Len(t) /\ (s \o t)[i] = t[i - Len(s)]
        BY <1>1, <1>2, <2>2
      <3> QED BY <3>1 DEF Elements
    <2> QED BY <2>1, <2>2
  <1> QED BY <1>3, <1>4, <1>5 DEF Elements

\* What matches a query: entries of the log, newest first.
LEMMA MatchingFacts ==
  ASSUME TypeInv, InOrder, NEW q
  PROVE  LET m == Matching(q)
         IN  /\ m \in Seq(Entries(recorded)) /\ Len(m) \in Nat
             /\ \A j \in 1 .. Len(m) :
                  m[j] \in Entries(recorded) /\ m[j] \in Held /\ Matches(m[j], q)
             /\ \A e \in Held : Matches(e, q) => \E j \in 1 .. Len(m) : m[j] = e
             /\ \A i, j \in 1 .. Len(m) : i < j => m[i].id > m[j].id
  <1> DEFINE m == Matching(q)
             W == {e \in Held : Matches(e, q)}
  <1>1. /\ log \in Seq(Entries(recorded)) /\ DOMAIN log = 1 .. Len(log)
        /\ \A i \in 1 .. Len(log) : log[i] \in Entries(recorded)
    BY ElementTypes DEF TypeInv, ServerTypes
  <1>2. m \in Seq(Entries(recorded)) /\ FiltersTo(m, log, Len(log), W)
    BY <1>1, FilteredFacts DEF Matching
  <1> HIDE DEF m
  <1>3. \A j \in 1 .. Len(m) : m[j] \in W
    BY <1>2 DEF FiltersTo
  <1>4. \A e \in W : \E j \in 1 .. Len(m) : m[j] = e
    <2> SUFFICES ASSUME NEW e \in W PROVE \E j \in 1 .. Len(m) : m[j] = e
      OBVIOUS
    <2>1. PICK i \in 1 .. Len(log) : e = log[i]
      BY <1>1 DEF Held
    <2> QED BY <1>2, <2>1 DEF FiltersTo
  <1>5. \A i, j \in 1 .. Len(m) : i < j => m[i].id > m[j].id
    <2> SUFFICES ASSUME NEW i \in 1 .. Len(m), NEW j \in 1 .. Len(m), i < j
                 PROVE  m[i].id > m[j].id
      OBVIOUS
    <2>1. PICK a \in 1 .. Len(log), b \in 1 .. Len(log) :
            a < b /\ m[i] = log[a] /\ m[j] = log[b]
      BY <1>2 DEF FiltersTo
    <2> QED BY <2>1 DEF InOrder
  <1>6. \A e \in Held : e \in Entries(recorded)
    BY <1>1 DEF Held
  <1> QED BY <1>2, <1>3, <1>4, <1>5, <1>6 DEF m

\* The page from an offset on: what matches, from there on.
LEMMA PageFacts ==
  ASSUME TypeInv, InOrder, NEW q, NEW offset \in Nat
  PROVE  LET m     == Matching(q)
             found == Window(q, offset)
             its   == PageItems(found)
             pg    == PageInfo(found, offset)
         IN  /\ its \in Seq(Entries(recorded)) /\ Len(its) \in Nat
             /\ offset <= Len(m) => offset + Len(its) <= Len(m)
             /\ \A i \in 1 .. Len(its) :
                  offset + i \in 1 .. Len(m) /\ its[i] = m[offset + i]
             /\ \A j \in 1 .. Len(m) :
                  j > offset /\ j <= offset + Len(its) =>
                    j - offset \in 1 .. Len(its) /\ its[j - offset] = m[j]
             /\ \/ /\ pg = [hasMore |-> TRUE, next |-> offset + PageSize,
                            known |-> TRUE]
                   /\ Len(its) = PageSize
                \/ pg = LastPage /\ Len(m) <= offset + Len(its)
  <1> DEFINE m     == Matching(q)
             found == Window(q, offset)
             its   == PageItems(found)
             pg    == PageInfo(found, offset)
  <1>1. m \in Seq(Entries(recorded)) /\ Len(m) \in Nat
    BY MatchingFacts
  <1>2. PageSize \in Nat \ {0}
    BY ConsoleAssumption
  <1>3. PICK n \in Nat : n = offset + PageSize + 1
    BY <1>2
  <1>4. PICK a \in Nat \ {0} : a = offset + 1
    OBVIOUS
  <1>5. found = Slice(m, a, n)
    BY <1>3, <1>4 DEF Window
  <1>6. its = Slice(found, 1, PageSize)
    BY DEF PageItems
  <1> HIDE DEF m, found, its
  <1>7. /\ found \in Seq(Entries(recorded)) /\ Len(found) \in Nat
        /\ Len(found) = LET l == IF n < Len(m) THEN n ELSE Len(m)
                        IN  IF a <= l THEN l - a + 1 ELSE 0
        /\ \A i \in 1 .. Len(found) : found[i] = m[a + i - 1]
    <2>1. /\ found \in Seq(Entries(recorded))
          /\ Len(found) = LET l == IF n < Len(m) THEN n ELSE Len(m)
                          IN  IF a <= l THEN l - a + 1 ELSE 0
          /\ \A i \in 1 .. Len(found) : found[i] = m[a + i - 1]
      BY <1>1, <1>5, SliceFacts, ZenonT(30)
    <2> QED BY <2>1
  <1>8. /\ its \in Seq(Entries(recorded)) /\ Len(its) \in Nat
        /\ Len(its) = IF PageSize < Len(found) THEN PageSize ELSE Len(found)
        /\ \A i \in 1 .. Len(its) : its[i] = found[1 + i - 1]
    <2>1. PICK l \in Nat : l = IF PageSize < Len(found) THEN PageSize ELSE Len(found)
      BY <1>2, <1>7
    <2>2. /\ its \in Seq(Entries(recorded))
          /\ Len(its) = IF 1 <= l THEN l - 1 + 1 ELSE 0
          /\ \A i \in 1 .. Len(its) : its[i] = found[1 + i - 1]
      <3>1. /\ Slice(found, 1, PageSize) \in Seq(Entries(recorded))
            /\ Len(Slice(found, 1, PageSize)) = IF 1 <= l THEN l - 1 + 1 ELSE 0
            /\ \A i \in 1 .. Len(Slice(found, 1, PageSize)) :
                 Slice(found, 1, PageSize)[i] = found[1 + i - 1]
        <4>1. found \in Seq(Entries(recorded)) /\ PageSize \in Nat /\ 1 \in Nat \ {0}
          BY <1>2, <1>7
        <4> HIDE DEF pg
        <4> QED BY <2>1, <4>1, SliceFacts
      <3> QED BY <1>6, <3>1
    <2>3. (IF 1 <= l THEN l - 1 + 1 ELSE 0) = l
      BY <2>1
    <2> QED BY <2>1, <2>2, <2>3
  <1>9. \A i \in 1 .. Len(its) : offset + i \in 1 .. Len(m) /\ its[i] = m[offset + i]
    <2> SUFFICES ASSUME NEW i \in 1 .. Len(its)
                 PROVE  offset + i \in 1 .. Len(m) /\ its[i] = m[offset + i]
      OBVIOUS
    <2>1. i \in 1 .. Len(found) /\ 1 + i - 1 = i /\ a + i - 1 = offset + i
      BY <1>2, <1>4, <1>7, <1>8
    <2>2. offset + i \in 1 .. Len(m)
      BY <1>1, <1>2, <1>3, <1>4, <1>7, <2>1
    <2> QED BY <1>7, <1>8, <2>1, <2>2
  <1>10. \A j \in 1 .. Len(m) :
           j > offset /\ j <= offset + Len(its) =>
             j - offset \in 1 .. Len(its) /\ its[j - offset] = m[j]
    <2> SUFFICES ASSUME NEW j \in 1 .. Len(m), j > offset, j <= offset + Len(its)
                 PROVE  j - offset \in 1 .. Len(its) /\ its[j - offset] = m[j]
      OBVIOUS
    <2>1. PICK i \in 1 .. Len(its) : i = j - offset
      BY <1>1, <1>8
    <2>2. offset + i = j
      BY <1>1, <2>1
    <2> QED BY <1>9, <2>1, <2>2
  <1>11. offset <= Len(m) => offset + Len(its) <= Len(m)
    BY <1>1, <1>2, <1>3, <1>4, <1>7, <1>8
  <1>12. \/ /\ pg = [hasMore |-> TRUE, next |-> offset + PageSize, known |-> TRUE]
            /\ Len(its) = PageSize
         \/ pg = LastPage /\ Len(m) <= offset + Len(its)
    <2>1. CASE Len(found) > PageSize
      <3>1. Len(its) = PageSize
        BY <1>2, <1>7, <1>8, <2>1
      <3>2. pg = [hasMore |-> TRUE, next |-> offset + PageSize, known |-> TRUE]
        BY <2>1 DEF PageInfo
      <3> QED BY <3>1, <3>2
    <2>2. CASE ~(Len(found) > PageSize)
      <3>1. Len(m) <= offset + Len(its)
        BY <1>1, <1>2, <1>3, <1>4, <1>7, <1>8, <2>2
      <3>2. pg = LastPage
        BY <2>2 DEF PageInfo
      <3> QED BY <3>1, <3>2
    <2> QED BY <2>1, <2>2
  <1> QED BY <1>1, <1>8, <1>9, <1>10, <1>11, <1>12 DEF m, its, found

FirstAnswer(q, newest) == [first |-> q, last |-> q, asOf |-> newest]

\* A query with a later start lets nothing through that the other keeps back,
\* and of the entries the other lets through it drops the oldest.
LEMMA Stricter ==
  ASSUME NEW p \in Queries, NEW q \in Queries, p.class = q.class, p.since <= q.since,
         NEW d \in Entries(recorded)
  PROVE  /\ Matches(d, q) => Matches(d, p)
         /\ \A e \in Entries(recorded) :
              e.at >= d.at /\ Matches(d, q) /\ Matches(e, p) => Matches(e, q)
  <1>1. p.since \in Nat /\ q.since \in Nat
    BY DEF Queries
  <1>2. \A e \in Entries(recorded) : e.at \in Nat
    BY DEF Entries
  <1>3. \A e \in Entries(recorded) : OfClass(e, p) <=> OfClass(e, q)
    BY DEF OfClass
  <1> QED BY <1>1, <1>2, <1>3
          DEF Matches, RowMatches, UsageMatches, HealthMatches, AuditMatches

\* The first page, just read.
LEMMA FirstPage ==
  ASSUME TypeInv, InOrder, NEW q \in Queries, view = "audit" => q.since = 0
  PROVE  LET found == Window(q, 0)
         IN  ListOK(PageItems(found), PageInfo(found, 0), FirstAnswer(q, recorded))
  <1> DEFINE m   == Matching(q)
             its == PageItems(Window(q, 0))
             pg  == PageInfo(Window(q, 0), 0)
             ans == FirstAnswer(q, recorded)
  <1>1. ans.first = q /\ ans.last = q /\ ans.asOf = recorded
    BY DEF FirstAnswer
  <1>2. /\ m \in Seq(Entries(recorded)) /\ Len(m) \in Nat
        /\ \A j \in 1 .. Len(m) :
             m[j] \in Entries(recorded) /\ m[j] \in Held /\ Matches(m[j], q)
        /\ \A e \in Held : Matches(e, q) => \E j \in 1 .. Len(m) : m[j] = e
        /\ \A i, j \in 1 .. Len(m) : i < j => m[i].id > m[j].id
    BY MatchingFacts
  <1>3. /\ its \in Seq(Entries(recorded)) /\ Len(its) \in Nat
        /\ 0 <= Len(m) => 0 + Len(its) <= Len(m)
        /\ \A i \in 1 .. Len(its) : 0 + i \in 1 .. Len(m) /\ its[i] = m[0 + i]
        /\ \/ /\ pg = [hasMore |-> TRUE, next |-> 0 + PageSize, known |-> TRUE]
              /\ Len(its) = PageSize
           \/ pg = LastPage /\ Len(m) <= 0 + Len(its)
    <2>1. 0 \in Nat
      OBVIOUS
    <2> HIDE DEF m, its, pg
    <2> QED BY <2>1, PageFacts DEF m, its, pg
  <1> HIDE DEF m, its, pg, ans
  <1>4. PageSize \in Nat \ {0} /\ recorded \in Nat
    BY ConsoleAssumption DEF TypeInv, ServerTypes
  <1>5. /\ Len(its) <= Len(m)
        /\ \A i \in 1 .. Len(its) : i \in 1 .. Len(m) /\ its[i] = m[i]
    BY <1>2, <1>3
  <1>6. \/ pg.hasMore /\ pg.next = PageSize /\ Len(its) = PageSize /\ pg # LastPage
        \/ pg = LastPage /\ ~pg.hasMore /\ Len(m) = Len(its)
    <2>1. CASE pg = [hasMore |-> TRUE, next |-> 0 + PageSize, known |-> TRUE]
      <3>1. pg.hasMore /\ pg.next = 0 + PageSize
        BY <2>1
      <3>2. ~LastPage.hasMore
        BY DEF LastPage
      <3>3. pg # LastPage
        BY <3>1, <3>2
      <3>4. Len(its) = PageSize
        BY <1>3, <3>3
      <3> QED BY <1>4, <3>1, <3>3, <3>4
    <2>2. CASE pg # [hasMore |-> TRUE, next |-> 0 + PageSize, known |-> TRUE]
      <3>1. pg = LastPage /\ Len(m) <= 0 + Len(its)
        BY <1>3, <2>2
      <3> QED BY <1>2, <1>3, <1>5, <3>1 DEF LastPage
    <2> QED BY <2>1, <2>2
  <1>7. \A j \in 1 .. Len(m) : j <= Len(its) => m[j] \in Elements(its)
    <2>1. \A j \in 1 .. Len(m) : j <= Len(its) => j \in 1 .. Len(its)
      BY <1>3
    <2> QED BY <1>5, <2>1 DEF Elements
  <1>8. Consistent(its, ans)
    <2>1. \A e \in Elements(its) : Matches(e, q)
      BY <1>2, <1>5 DEF Elements
    <2>2. q.since <= q.since /\ recorded <= recorded
      BY <1>4 DEF Queries
    <2> QED BY <1>1, <2>1, <2>2 DEF Consistent
  <1>9. Complete(its, ans)
    <2> SUFFICES ASSUME NEW e \in Held, Matches(e, q),
                        NEW b \in Elements(its), e.id > b.id
                 PROVE  e \in Elements(its)
      BY <1>1 DEF Complete
    <2>1. PICK j \in 1 .. Len(m) : m[j] = e
      BY <1>2
    <2>2. PICK k \in 1 .. Len(its) : b = its[k]
      BY DEF Elements
    <2>3. k \in 1 .. Len(m) /\ b = m[k] /\ b.id \in Nat /\ e.id \in Nat
      <3>1. k \in 1 .. Len(m) /\ b = m[k]
        BY <1>5, <2>2
      <3>2. b \in Entries(recorded) /\ e \in Entries(recorded)
        BY <1>2, <2>1, <3>1
      <3> QED BY <3>1, <3>2 DEF Entries
    <2>4. ~(k < j)
      BY <1>2, <2>1, <2>3
    <2>5. j <= Len(its)
      BY <1>3, <2>1, <2>2, <2>4
    <2> QED BY <1>7, <2>1, <2>5
  <1>10. AtTheEnd(its, pg, ans)
    <2> SUFFICES ASSUME pg = LastPage, NEW e \in Held, Matches(e, q)
                 PROVE  e \in Elements(its)
      BY <1>1 DEF AtTheEnd
    <2>1. PICK j \in 1 .. Len(m) : m[j] = e
      BY <1>2
    <2>2. j <= Len(its)
      BY <1>6, <2>1
    <2> QED BY <1>7, <2>1, <2>2
  <1>11. GoesOn(its, pg, ans)
    <2> SUFFICES ASSUME pg.hasMore
                 PROVE  /\ Len(its) = pg.next
                        /\ \A j \in 1 .. Len(m) : j <= pg.next => m[j] \in Elements(its)
      <3>1. Matching(ans.last) = m
        BY <1>1 DEF m
      <3> QED BY <3>1 DEF GoesOn
    <2> QED BY <1>6, <1>7
  <1>12. FewRepeated(its, ans)
    <2>1. /\ IsFiniteSet(Elements(its)) /\ Cardinality(Elements(its)) \in Nat
      BY <1>3, ElementsFinite
    <2>2. /\ \A i, j \in 1 .. Len(its) : i < j => m[i].id > m[j].id
          /\ \A j \in 1 .. Len(its) : m[j] \in Elements(its)
      BY <1>2, <1>5, <1>7
    <2>3. recorded \in 0 .. recorded
      BY <1>4
    <2>4. Len(its) <= Cardinality(Elements(its)) + (recorded - recorded)
      BY <1>2, <1>3, <1>4, <1>5, <2>1, <2>2, <2>3, Counted
    <2> QED BY <1>1, <1>3, <1>4, <2>1, <2>4 DEF FewRepeated
  <1> QED BY <1>8, <1>9, <1>10, <1>11, <1>12 DEF ListOK, its, pg, ans

\* The next page, just read, after a list that goes on.
LEMMA NextPageOK ==
  ASSUME TypeInv, InOrder, NEW shown \in Seq(Entries(recorded)), NEW pg0 \in Pages,
         NEW ans0 \in [first : Queries, last : Queries, asOf : Nat],
         ListOK(shown, pg0, ans0), pg0.hasMore,
         NEW q \in Queries, q.class = ans0.last.class, q.since >= ans0.last.since
  PROVE  LET found == Window(q, pg0.next)
         IN  ListOK(shown \o PageItems(found), PageInfo(found, pg0.next),
                    [ans0 EXCEPT !.last = q])
  <1> DEFINE m   == Matching(q)
             m0  == Matching(ans0.last)
             c   == pg0.next
             new == PageItems(Window(q, c))
             pg  == PageInfo(Window(q, c), c)
             ans == [ans0 EXCEPT !.last = q]
             its == shown \o new
  <1>1. /\ ans.first = ans0.first /\ ans.last = q /\ ans.asOf = ans0.asOf
        /\ ans0.first \in Queries /\ ans0.last \in Queries /\ ans0.asOf \in Nat
        /\ c \in Nat
    BY DEF Pages
  <1>2. /\ m \in Seq(Entries(recorded)) /\ Len(m) \in Nat
        /\ \A j \in 1 .. Len(m) :
             m[j] \in Entries(recorded) /\ m[j] \in Held /\ Matches(m[j], q)
        /\ \A e \in Held : Matches(e, q) => \E j \in 1 .. Len(m) : m[j] = e
        /\ \A i, j \in 1 .. Len(m) : i < j => m[i].id > m[j].id
    BY MatchingFacts
  <1>3. /\ new \in Seq(Entries(recorded)) /\ Len(new) \in Nat
        /\ c <= Len(m) => c + Len(new) <= Len(m)
        /\ \A i \in 1 .. Len(new) : c + i \in 1 .. Len(m) /\ new[i] = m[c + i]
        /\ \A j \in 1 .. Len(m) : j > c /\ j <= c + Len(new) =>
             j - c \in 1 .. Len(new) /\ new[j - c] = m[j]
        /\ \/ /\ pg = [hasMore |-> TRUE, next |-> c + PageSize, known |-> TRUE]
              /\ Len(new) = PageSize
           \/ pg = LastPage /\ Len(m) <= c + Len(new)
    <2> HIDE DEF m, c, new, pg
    <2> QED BY <1>1, PageFacts DEF m, new, pg
  <1>4. \A j \in 1 .. Len(m) : j \in 1 .. Len(m0) /\ m[j] = m0[j]
    <2> DEFINE W  == {e \in Held : Matches(e, q)}
               W0 == {e \in Held : Matches(e, ans0.last)}
    <2>1. /\ log \in Seq(Entries(recorded))
          /\ \A i \in 1 .. Len(log) : log[i] \in Entries(recorded) /\ log[i] \in Held
      <3>1. log \in Seq(Entries(recorded)) /\ DOMAIN log = 1 .. Len(log)
        BY ElementTypes DEF TypeInv, ServerTypes
      <3> QED BY <3>1, ElementTypes DEF Held
    <2>2. ans0.last.since <= q.since
      BY <1>1 DEF Queries
    <2>3. \A i \in 1 .. Len(log) : log[i] \in W => log[i] \in W0
      BY <1>1, <2>1, <2>2, Stricter
    <2>4. \A i, k \in 1 .. Len(log) :
            i < k /\ log[k] \in W /\ log[i] \in W0 => log[i] \in W
      <3> SUFFICES ASSUME NEW i \in 1 .. Len(log), NEW k \in 1 .. Len(log),
                          i < k, log[k] \in W, log[i] \in W0
                   PROVE  log[i] \in W
        OBVIOUS
      <3>1. log[i].at >= log[k].at
        BY DEF InOrder
      <3> QED BY <1>1, <2>1, <2>2, <3>1, Stricter
    <2>5. m = Filtered(log, W) /\ m0 = Filtered(log, W0)
      BY DEF Matching
    <2> HIDE DEF W, W0, m, m0
    <2> QED BY <2>1, <2>3, <2>4, <2>5, FilteredStricter
  <1> HIDE DEF m, m0, c, new, pg, ans
  <1>5. PageSize \in Nat \ {0} /\ recorded \in Nat
    BY ConsoleAssumption DEF TypeInv, ServerTypes
  <1>6. /\ Consistent(shown, ans0) /\ Complete(shown, ans0)
        /\ Len(shown) = c /\ FewRepeated(shown, ans0)
        /\ \A j \in 1 .. Len(m0) : j <= c =>
             \E b \in Elements(shown) : m0[j] = b \/ m0[j].id > b.id
    BY DEF ListOK, GoesOn, c, m0
  <1>7. Elements(its) = Elements(shown) \cup Elements(new)
    BY <1>3, ElementsOfBoth
  <1>8. its \in Seq(Entries(recorded)) /\ Len(its) = c + Len(new)
    <2>1. its \in Seq(Entries(recorded)) /\ Len(its) = Len(shown) + Len(new)
      <3>1. /\ shown \o new \in Seq(Entries(recorded))
            /\ Len(shown \o new) = Len(shown) + Len(new)
        BY <1>3, ConcatProperties
      <3> QED BY <3>1, Zenon
    <2> HIDE DEF its
    <2> QED BY <1>6, <2>1
  <1> HIDE DEF its
  <1>9. \A e \in Entries(recorded) : Matches(e, q) => Matches(e, ans0.last)
    <2>1. ans0.last.since <= q.since
      BY <1>1 DEF Queries
    <2> QED BY <1>1, <2>1, Stricter
  <1>10. \A j \in 1 .. Len(m) : j > c /\ j <= c + Len(new) => m[j] \in Elements(new)
    BY <1>3 DEF Elements
  <1>11. \A j \in 1 .. Len(m) :
           j <= c + Len(new) /\ m[j].id <= ans.asOf => m[j] \in Elements(its)
    <2> SUFFICES ASSUME NEW j \in 1 .. Len(m), j <= c + Len(new), m[j].id <= ans.asOf
                 PROVE  m[j] \in Elements(its)
      OBVIOUS
    <2>1. CASE j <= c
      <3>1. PICK b \in Elements(shown) : m[j] = b \/ m[j].id > b.id
        BY <1>4, <1>6, <2>1
      <3>2. m[j] \in Held /\ Matches(m[j], ans0.last) /\ m[j].id <= ans0.asOf
        BY <1>1, <1>2, <1>9
      <3>3. m[j] \in Elements(shown)
        BY <1>6, <3>1, <3>2 DEF Complete
      <3> QED BY <1>7, <3>3
    <2>2. CASE ~(j <= c)
      <3>1. j > c
        BY <1>1, <2>2
      <3> QED BY <1>7, <1>10, <3>1
    <2> QED BY <2>1, <2>2
  <1>12. \/ pg.hasMore /\ pg.next = c + PageSize /\ Len(new) = PageSize /\ pg # LastPage
         \/ pg = LastPage /\ ~pg.hasMore /\ Len(m) <= c + Len(new)
    <2>1. CASE pg = [hasMore |-> TRUE, next |-> c + PageSize, known |-> TRUE]
      <3>1. pg.hasMore /\ pg.next = c + PageSize
        BY <2>1
      <3>2. ~LastPage.hasMore
        BY DEF LastPage
      <3>3. pg # LastPage
        BY <3>1, <3>2
      <3>4. Len(new) = PageSize
        BY <1>3, <3>3
      <3> QED BY <3>1, <3>3, <3>4
    <2>2. CASE pg # [hasMore |-> TRUE, next |-> c + PageSize, known |-> TRUE]
      <3>1. pg = LastPage /\ Len(m) <= c + Len(new)
        BY <1>3, <2>2
      <3> QED BY <3>1 DEF LastPage
    <2> QED BY <2>1, <2>2
  <1>13. Consistent(its, ans)
    <2>1. /\ ans.first.class = ans.last.class /\ ans0.first.since <= ans0.last.since
          /\ view = "audit" => ans.first.since = 0
          /\ ans.asOf <= recorded
      BY <1>1, <1>6 DEF Consistent
    <2>2. ans0.first.since <= q.since
      BY <1>1, <2>1 DEF Queries
    <2>3. \A e \in Elements(new) : e \in Entries(recorded) /\ Matches(e, q)
      BY <1>2, <1>3 DEF Elements
    <2>4. \A e \in Elements(new) : Matches(e, ans0.first)
      BY <1>1, <2>1, <2>2, <2>3, Stricter
    <2>5. \A e \in Elements(its) : Matches(e, ans.first)
      BY <1>1, <1>6, <1>7, <2>4 DEF Consistent
    <2> QED BY <1>1, <2>1, <2>2, <2>5 DEF Consistent
  <1>14. Complete(its, ans)
    <2> SUFFICES ASSUME NEW e \in Held, Matches(e, q), e.id <= ans.asOf,
                        NEW b \in Elements(its), e.id > b.id
                 PROVE  e \in Elements(its)
      BY <1>1 DEF Complete
    <2>1. PICK j \in 1 .. Len(m) : m[j] = e
      BY <1>2
    <2>2. CASE b \in Elements(shown)
      <3>1. Matches(e, ans0.last)
        BY <1>2, <1>9, <2>1
      <3>2. e \in Elements(shown)
        BY <1>1, <1>6, <2>2, <3>1 DEF Complete
      <3> QED BY <1>7, <3>2
    <2>3. CASE b \in Elements(new)
      <3>1. PICK i \in 1 .. Len(new) : b = new[i]
        BY <2>3 DEF Elements
      <3>2. PICK k \in 1 .. Len(m) : k = c + i /\ b = m[k]
        BY <1>3, <3>1
      <3>3. b.id \in Int /\ e.id \in Int
        <4>1. b \in Entries(recorded) /\ e \in Entries(recorded)
          BY <1>2, <2>1, <3>2
        <4> QED BY <4>1 DEF Entries
      <3>4. ~(k < j)
        BY <1>2, <2>1, <3>2, <3>3, SMTT(20)
      <3>5. j <= c + Len(new)
        BY <1>1, <1>3, <3>1, <3>2, <3>4
      <3> QED BY <1>11, <2>1, <3>5
    <2> QED BY <1>7, <2>2, <2>3
  <1>15. AtTheEnd(its, pg, ans)
    <2> SUFFICES ASSUME pg = LastPage, NEW e \in Held, Matches(e, q), e.id <= ans.asOf
                 PROVE  e \in Elements(its)
      BY <1>1 DEF AtTheEnd
    <2>1. PICK j \in 1 .. Len(m) : m[j] = e
      BY <1>2
    <2>2. j <= c + Len(new)
      BY <1>1, <1>2, <1>3, <1>12, <2>1
    <2> QED BY <1>11, <2>1, <2>2
  <1>16. GoesOn(its, pg, ans)
    <2> SUFFICES ASSUME pg.hasMore
                 PROVE  /\ Len(its) = pg.next
                        /\ \A j \in 1 .. Len(m) : j <= pg.next =>
                             \E b \in Elements(its) : m[j] = b \/ m[j].id > b.id
      <3>1. Matching(ans.last) = m
        BY <1>1 DEF m
      <3> QED BY <3>1 DEF GoesOn
    <2>1. pg.next = c + PageSize /\ Len(new) = PageSize
      BY <1>12
    <2>2. ASSUME NEW j \in 1 .. Len(m), j <= c + Len(new)
          PROVE  \E b \in Elements(its) : m[j] = b \/ m[j].id > b.id
      <3>1. CASE j <= c
        <4>1. PICK b \in Elements(shown) : m[j] = b \/ m[j].id > b.id
          BY <1>4, <1>6, <3>1
        <4> QED BY <1>7, <4>1
      <3>2. CASE ~(j <= c)
        <4>1. j > c
          BY <1>1, <3>2
        <4>2. m[j] \in Elements(its)
          BY <1>7, <1>10, <2>2, <4>1
        <4> QED BY <4>2
      <3> QED BY <3>1, <3>2
    <2> QED BY <1>8, <2>1, <2>2
  <1>17. FewRepeated(its, ans)
    <2>1. ans.asOf \in 0 .. recorded
      BY <1>1, <1>5, <1>6 DEF Consistent
    <2>2. IsFiniteSet(Elements(its)) /\ Cardinality(Elements(its)) \in Nat
      BY <1>8, ElementsFinite
    <2>3. PICK x \in Nat, k \in Nat, o \in Nat :
            /\ x = Cardinality(Elements(its)) /\ k = Len(its) /\ o = ans.asOf
            /\ k = c + Len(new)
      BY <1>1, <1>3, <1>8, <2>1, <2>2
    <2>4. CASE c <= Len(m)
      <3>1. k <= Len(m) /\ \A j \in 1 .. k : j \in 1 .. Len(m)
        BY <1>2, <1>3, <2>3, <2>4
      <3>2. /\ \A i, j \in 1 .. k : i < j => m[i].id > m[j].id
            /\ \A j \in 1 .. k : m[j].id <= o => m[j] \in Elements(its)
        BY <1>2, <1>11, <2>3, <3>1
      <3>3. k <= Cardinality(Elements(its)) + (recorded - o)
        BY <1>2, <1>5, <2>1, <2>2, <2>3, <3>1, <3>2, Counted
      <3>4. k - x <= recorded - o
        BY <1>5, <2>3, <3>3, SMTT(20)
      <3> QED BY <2>3, <3>4 DEF FewRepeated
    <2>5. CASE ~(c <= Len(m))
      <3>1. Len(new) = 0
        <4> SUFFICES ASSUME Len(new) # 0 PROVE FALSE
          OBVIOUS
        <4>1. c + 1 \in 1 .. Len(m)
          BY <1>3
        <4> QED BY <1>1, <1>2, <2>5, <4>1
      <3>2. Elements(its) = Elements(shown) /\ Len(its) = Len(shown)
        <4>1. Elements(new) = {}
          BY <3>1 DEF Elements
        <4>2. Elements(its) = Elements(shown)
          BY <1>7, <4>1
        <4>3. Len(its) = Len(shown)
          BY <1>1, <1>6, <1>8, <3>1
        <4> QED BY <4>2, <4>3
      <3> QED BY <1>1, <1>6, <3>2 DEF FewRepeated
    <2> QED BY <2>4, <2>5
  <1> QED BY <1>13, <1>14, <1>15, <1>16, <1>17 DEF ListOK, its, new, pg, ans, c

\* The newest entries, whatever their class: the list refreshState makes of the
\* audit page.
LEMMA StateList ==
  ASSUME TypeInv, InOrder, view = "audit"
  PROVE  ListOK(Slice(log, 1, StateSize), NoPage, FirstAnswer(Unfiltered, recorded))
  <1> DEFINE its == Slice(log, 1, StateSize)
             ans == FirstAnswer(Unfiltered, recorded)
  <1>1. /\ ans.first = Unfiltered /\ ans.last = Unfiltered /\ ans.asOf = recorded
        /\ Unfiltered.class = AnyClass /\ Unfiltered.since = 0
    BY DEF FirstAnswer, Unfiltered
  <1>2. /\ log \in Seq(Entries(recorded)) /\ DOMAIN log = 1 .. Len(log)
        /\ \A i \in 1 .. Len(log) : log[i] \in Entries(recorded) /\ log[i].id \in Nat
        /\ Len(log) \in Nat /\ recorded \in Nat /\ StateSize \in Nat \ {0}
    <2>1. log \in Seq(Entries(recorded)) /\ recorded \in Nat
      BY DEF TypeInv, ServerTypes
    <2>2. DOMAIN log = 1 .. Len(log) /\ \A i \in 1 .. Len(log) : log[i] \in Entries(recorded)
      BY <2>1, ElementTypes
    <2>3. \A e \in Entries(recorded) : e.id \in Nat
      BY <2>1 DEF Entries
    <2> QED BY <2>1, <2>2, <2>3, ConsoleAssumption
  <1>3. /\ its \in Seq(Entries(recorded)) /\ Len(its) \in Nat /\ Len(its) <= Len(log)
        /\ \A i \in 1 .. Len(its) : i \in 1 .. Len(log) /\ its[i] = log[i]
    <2>0. /\ log \in Seq(Entries(recorded)) /\ Len(log) \in Nat
          /\ StateSize \in Nat /\ 1 \in Nat \ {0}
      BY <1>2
    <2>1. PICK l \in Nat : l = IF StateSize < Len(log) THEN StateSize ELSE Len(log)
      BY <2>0
    <2>2. /\ its \in Seq(Entries(recorded))
          /\ Len(its) = IF 1 <= l THEN l - 1 + 1 ELSE 0
          /\ \A i \in 1 .. Len(its) : its[i] = log[1 + i - 1]
      <3> HIDE DEF ans
      <3> QED BY <2>0, <2>1, SliceFacts
    <2> HIDE DEF its, ans
    <2>3. (IF 1 <= l THEN l - 1 + 1 ELSE 0) = l /\ l <= Len(log)
      BY <2>0, <2>1
    <2>4. Len(its) = l /\ Len(its) \in Nat /\ Len(its) <= Len(log)
      BY <2>2, <2>3
    <2>5. \A i \in 1 .. Len(its) : 1 + i - 1 = i /\ i \in 1 .. Len(log)
      BY <1>2, <2>4
    <2> QED BY <2>2, <2>4, <2>5
  <1> HIDE DEF its, ans
  <1>4. \A i \in 1 .. Len(log) : i <= Len(its) => log[i] \in Elements(its)
    <2>1. \A i \in 1 .. Len(log) : i <= Len(its) => i \in 1 .. Len(its)
      BY <1>3
    <2> QED BY <1>3, <2>1 DEF Elements
  <1>5. Consistent(its, ans)
    <2>1. \A e : Matches(e, Unfiltered)
      BY <1>1 DEF Matches, OfClass, RowMatches, AuditMatches
    <2>2. ans.first.since <= ans.last.since /\ ans.asOf <= recorded
      BY <1>1, <1>2
    <2> QED BY <1>1, <2>1, <2>2 DEF Consistent
  <1>6. Complete(its, ans)
    <2> SUFFICES ASSUME NEW e \in Held, NEW b \in Elements(its), e.id > b.id
                 PROVE  e \in Elements(its)
      BY DEF Complete
    <2>1. PICK j \in 1 .. Len(log) : log[j] = e
      BY <1>2 DEF Held
    <2>2. PICK k \in 1 .. Len(its) : b = its[k]
      BY DEF Elements
    <2>3. k \in 1 .. Len(log) /\ b = log[k] /\ b.id \in Nat /\ e.id \in Nat
      BY <1>2, <1>3, <2>1, <2>2
    <2>4. ~(k < j)
      BY <2>1, <2>3 DEF InOrder
    <2>5. j <= Len(its)
      BY <1>3, <2>1, <2>2, <2>4
    <2> QED BY <1>4, <2>1, <2>5
  <1>7. AtTheEnd(its, NoPage, ans) /\ GoesOn(its, NoPage, ans)
    BY DEF AtTheEnd, GoesOn, NoPage, LastPage
  <1>8. FewRepeated(its, ans)
    <2>1. IsFiniteSet(Elements(its)) /\ Cardinality(Elements(its)) \in Nat
      BY <1>3, ElementsFinite
    <2>2. /\ \A i, j \in 1 .. Len(its) : i < j => log[i].id > log[j].id
          /\ \A j \in 1 .. Len(its) : log[j] \in Elements(its)
      BY <1>3, <1>4 DEF InOrder
    <2>3. recorded \in 0 .. recorded
      BY <1>2
    <2>4. Len(its) <= Cardinality(Elements(its)) + (recorded - recorded)
      BY <1>2, <1>3, <2>1, <2>2, <2>3, Counted
    <2> QED BY <1>1, <1>2, <1>3, <2>1, <2>4 DEF FewRepeated
  <1> QED BY <1>5, <1>6, <1>7, <1>8 DEF ListOK, its, ans

LEMMA RecordInOrder ==
  ASSUME TypeInv, InOrder, NEW c \in Classes, Record(c)
  PROVE  InOrder'
  <1> DEFINE x == Entry(c)
  <1>1. /\ recorded \in Nat /\ now \in Nat /\ now' = now
        /\ log \in Seq(Entries(recorded))
        /\ x.id = recorded + 1 /\ x.at = now
    BY DEF TypeInv, ServerTypes, Record, Entry
  <1> HIDE DEF x
  <1>2. /\ Len(log') \in {Len(log), Len(log) + 1} /\ Len(log') >= 1
        /\ log'[1] = x
        /\ \A i \in 1 .. Len(log') - 1 : log'[i + 1] = log[i]
    BY RecordLog DEF x
  <1>3. Len(log) \in Nat
    BY <1>1
  <1>4. PICK g \in {log'}, n \in Nat, l \in Nat :
           /\ g = log' /\ n = Len(log') /\ n = Len(g) /\ l = Len(log)
           /\ n = l \/ n = l + 1
           /\ n >= 1
    <2>1. PICK g \in {log'} : g = log'
      OBVIOUS
    <2>2. PICK n \in Nat, l \in Nat : n = Len(g) /\ l = Len(log)
      BY <1>2, <1>3, <2>1
    <2>3. (n = l \/ n = l + 1) /\ n >= 1
      BY <1>2, <1>3, <2>1, <2>2
    <2> QED BY <2>1, <2>2, <2>3
  <1>5. ASSUME NEW i \in 1 .. n, i # 1
        PROVE  i - 1 \in 1 .. Len(log) /\ g[i] = log[i - 1]
    <2>1. i - 1 \in 1 .. n - 1 /\ i - 1 \in 1 .. l /\ (i - 1) + 1 = i
      BY <1>4, <1>5
    <2> QED BY <1>2, <1>4, <2>1
  <1>6. \A i \in 1 .. Len(log) :
          log[i].id \in 1 .. recorded /\ log[i].at \in Nat /\ log[i].at <= now
    <2>1. \A i \in 1 .. Len(log) : log[i] \in Entries(recorded)
      BY <1>1, ElementTypes
    <2> QED BY <2>1 DEF Entries, InOrder
  <1>7. \A i \in 1 .. n : g[i].at <= now
    BY <1>1, <1>2, <1>4, <1>5, <1>6
  <1>8. ASSUME NEW i \in 1 .. n, NEW j \in 1 .. n, i < j
        PROVE  g[i].id > g[j].id /\ g[i].at >= g[j].at
    <2>1. j # 1
      BY <1>8
    <2>2. j - 1 \in 1 .. Len(log) /\ g[j] = log[j - 1]
      BY <1>5, <2>1
    <2>3. PICK k \in 1 .. Len(log) : g[j] = log[k] /\ k = j - 1
      BY <2>2
    <2>4. CASE i = 1
      <3>1. g[i] = x
        BY <1>2, <1>4, <2>4
      <3> QED BY <1>1, <1>6, <2>3, <3>1
    <2>5. CASE i # 1
      <3>1. PICK h \in 1 .. Len(log) : g[i] = log[h] /\ h = i - 1
        BY <1>5, <2>5
      <3>2. h < k
        BY <1>8, <2>3, <3>1
      <3> QED BY <2>3, <3>1, <3>2 DEF InOrder
    <2> QED BY <2>4, <2>5
  <1> QED BY <1>1, <1>4, <1>7, <1>8 DEF InOrder

\* A new entry leaves a list what it was.
LEMMA RecordKeepsList ==
  ASSUME TypeInv, InOrder, NEW c \in Classes, Record(c),
         NEW its \in Seq(Entries(recorded)), NEW pg \in Pages,
         NEW ans \in [first : Queries, last : Queries, asOf : Nat],
         ListOK(its, pg, ans)
  PROVE  ListOK(its, pg, ans)'
  <1> DEFINE x == Entry(c)
  <1>1. /\ recorded \in Nat /\ recorded' = recorded + 1
        /\ log \in Seq(Entries(recorded)) /\ x.id = recorded + 1
        /\ ans.asOf \in Nat
    BY DEF TypeInv, ServerTypes, Record, Entry
  <1> HIDE DEF x
  <1>2. /\ log' \in Seq(Entries(recorded'))
        /\ Len(log') \in {Len(log), Len(log) + 1} /\ Len(log') >= 1
        /\ log'[1] = x
        /\ \A i \in 1 .. Len(log') - 1 : log'[i + 1] = log[i]
    BY RecordLog DEF x
  <1>3. view' = view /\ storage' = storage
    BY DEF Record, view, storage
  <1>4. \A e, q : Matches(e, q)' = Matches(e, q)
    BY <1>3 DEF Matches, RowMatches, UsageMatches, HealthMatches, AuditMatches, OfClass
  <1>5. Len(log) \in Nat /\ DOMAIN log = 1 .. Len(log)
    BY <1>1, ElementTypes
  <1>6. DOMAIN log' = 1 .. Len(log')
    BY <1>2, ElementTypes
  <1>7. PICK g \in {log'}, n \in Nat, l \in Nat :
           /\ g = log' /\ n = Len(log') /\ n = Len(g) /\ l = Len(log)
           /\ n = l \/ n = l + 1
           /\ n >= 1
    <2>1. PICK g \in {log'} : g = log'
      OBVIOUS
    <2>2. PICK n \in Nat, l \in Nat : n = Len(g) /\ l = Len(log)
      <3>1. g \in Seq(Entries(recorded'))
        BY <1>2, <2>1
      <3>2. Len(g) \in Nat
        BY <3>1
      <3>3. Len(log) \in Nat
        BY <1>5
      <3> QED BY <3>2, <3>3
    <2>3. (n = l \/ n = l + 1) /\ n >= 1
      BY <1>2, <1>5, <2>1, <2>2
    <2> QED BY <2>1, <2>2, <2>3
  <1>8. \A e \in Held' : e = x \/ e \in Held
    <2> SUFFICES ASSUME NEW e \in Held', e # x PROVE e \in Held
      OBVIOUS
    <2>1. PICK i \in 1 .. n : e = g[i]
      BY <1>6, <1>7 DEF Held
    <2>2. i # 1
      BY <1>2, <1>7, <2>1
    <2>3. i - 1 \in 1 .. n - 1 /\ (i - 1) + 1 = i /\ i - 1 \in 1 .. l
      BY <1>7, <2>2
    <2>4. e = log[i - 1]
      BY <1>2, <1>7, <2>1, <2>3
    <2> QED BY <1>5, <1>7, <2>3, <2>4 DEF Held
  <1>9. Consistent(its, ans) /\ Complete(its, ans) /\ AtTheEnd(its, pg, ans)
        /\ GoesOn(its, pg, ans) /\ FewRepeated(its, ans)
    BY DEF ListOK
  <1>10. ans.asOf <= recorded
    BY <1>9 DEF Consistent
  <1>11. \A e \in Held' : e.id <= ans.asOf => e \in Held
    BY <1>1, <1>8, <1>10
  <1>12. Consistent(its, ans)'
    <2>1. ans.asOf <= recorded'
      BY <1>1, <1>10
    <2> QED BY <1>3, <1>4, <1>9, <2>1 DEF Consistent
  <1>13. Complete(its, ans)'
    BY <1>4, <1>9, <1>11 DEF Complete
  <1>14. AtTheEnd(its, pg, ans)'
    BY <1>4, <1>9, <1>11 DEF AtTheEnd
  <1>15. GoesOn(its, pg, ans)'
    <2> DEFINE q  == ans.last
               W  == {e \in Held : Matches(e, q)}
               W2 == {e \in Held' : Matches(e, q)}
               m  == Filtered(log, W)
               m2 == Filtered(g, W2)
    <2>1. Matching(q) = m
      BY DEF Matching
    <2>2. Matching(q)' = m2
      <3>1. W2 = {e \in Held' : Matches(e, q)'}
        BY <1>4
      <3> QED BY <1>7, <3>1 DEF Matching
    <2>3. g \in Seq(Entries(recorded + 1)) /\ log \in Seq(Entries(recorded + 1))
      <3>1. recorded + 1 \in Nat /\ recorded <= recorded + 1
        BY <1>1
      <3> QED BY <1>1, <1>2, <1>7, <3>1, EntriesGrow
    <2>4. \A i \in 1 .. Len(g) - 1 : g[i + 1] = log[i] /\ (log[i] \in W2 <=> log[i] \in W)
      <3> SUFFICES ASSUME NEW i \in 1 .. Len(g) - 1
                   PROVE  g[i + 1] = log[i] /\ (log[i] \in W2 <=> log[i] \in W)
        OBVIOUS
      <3>1. i \in 1 .. Len(log) /\ i + 1 \in 1 .. Len(log')
        <4>1. i \in 1 .. l /\ i + 1 \in 1 .. n
          BY <1>7
        <4> QED BY <1>7, <4>1
      <3>2. log'[i + 1] = log[i] /\ g[i + 1] = log[i]
        BY <1>2, <1>7
      <3>3. log[i] \in Held /\ log[i] \in Held'
        BY <1>5, <1>6, <3>1, <3>2 DEF Held
      <3> QED BY <3>2, <3>3
    <2>5. Among(m2, m, x)
      <3>0. n >= 1 /\ n >= l /\ n <= l + 1
        BY <1>7
      <3>1. Len(g) >= 1 /\ Len(g) >= Len(log) /\ Len(g) <= Len(log) + 1 /\ g[1] = x
        BY <1>2, <1>7, <3>0
      <3> HIDE DEF W, W2, m, m2
      <3> QED BY <2>3, <2>4, <3>1, FilteredShift DEF m, m2
    <2>6. /\ m \in Seq(Entries(recorded)) /\ m2 \in Seq(Entries(recorded + 1))
          /\ Len(m) \in Nat /\ Len(m2) \in Nat
      <3> HIDE DEF W, W2
      <3>1. m \in Seq(Entries(recorded)) /\ m2 \in Seq(Entries(recorded + 1))
        BY <1>1, <2>3, FilteredFacts
      <3> QED BY <3>1
    <2> HIDE DEF m, m2, W, W2
    <2> SUFFICES ASSUME pg.hasMore, NEW j \in 1 .. Len(m2), j <= pg.next
                 PROVE  \E b \in Elements(its) : m2[j] = b \/ m2[j].id > b.id
      BY <1>9, <2>2 DEF GoesOn
    <2>7. /\ Len(its) = pg.next
          /\ \A k \in 1 .. Len(m) : k <= pg.next =>
               \E b \in Elements(its) : m[k] = b \/ m[k].id > b.id
      BY <1>9, <2>1 DEF GoesOn
    <2>8. CASE m2[j] = x
      <3>1. 1 \in 1 .. Len(its)
        BY <2>6, <2>7
      <3>2. its[1] \in Elements(its) /\ its[1] \in Entries(recorded)
        BY <3>1, ElementsFinite
      <3>3. its[1].id \in 1 .. recorded
        BY <3>2 DEF Entries
      <3>4. m2[j].id > its[1].id
        BY <1>1, <2>8, <3>3
      <3> QED BY <3>2, <3>4
    <2>9. CASE m2[j] # x
      <3>1. PICK k \in 1 .. Len(m) : k <= j /\ m2[j] = m[k]
        BY <2>5, <2>9 DEF Among
      <3>2. pg.next \in Nat
        BY DEF Pages
      <3>3. k <= pg.next
        BY <2>6, <3>1, <3>2
      <3> QED BY <2>7, <3>1, <3>3
    <2> QED BY <2>8, <2>9
  <1>16. FewRepeated(its, ans)'
    <2>1. Len(its) \in Nat /\ Cardinality(Elements(its)) \in Nat
      BY ElementsFinite
    <2> QED BY <1>1, <1>9, <2>1 DEF FewRepeated
  <1> QED BY <1>12, <1>13, <1>14, <1>15, <1>16 DEF ListOK

-----------------------------------------------------------------------------
(* The list invariant: steps that leave the list                            *)

Answers == [first : Queries, last : Queries, asOf : Nat]

\* What the step does to the log takes nothing from any list.
LogKept ==
  \A its \in Seq(Entries(recorded)) : \A pg \in Pages : \A ans \in Answers :
    ListOK(its, pg, ans) => ListOK(its, pg, ans)'

LEMMA SameLog ==
  ASSUME UNCHANGED <<setting, log, recorded>>
  PROVE  LogKept
  <1> SUFFICES ASSUME NEW its \in Seq(Entries(recorded)), NEW pg \in Pages,
                      NEW ans \in Answers, ListOK(its, pg, ans)
               PROVE  ListOK(its, pg, ans)'
    BY DEF LogKept
  <1>1. view' = view /\ storage' = storage /\ Held' = Held
    BY DEF view, storage, Held
  <1>2. \A e, q : Matches(e, q)' = Matches(e, q)
    BY <1>1 DEF Matches, RowMatches, UsageMatches, HealthMatches, AuditMatches, OfClass
  <1>3. Matching(ans.last)' = Matching(ans.last)
    <2>1. Matching(ans.last)' = Filtered(log', {e \in Held' : Matches(e, ans.last)'})
      BY DEF Matching
    <2>2. {e \in Held' : Matches(e, ans.last)'} = {e \in Held : Matches(e, ans.last)}
      BY <1>1, <1>2
    <2> QED BY <2>1, <2>2 DEF Matching
  <1>4. Consistent(its, ans)'
    BY <1>1, <1>2 DEF ListOK, Consistent
  <1>5. Complete(its, ans)'
    BY <1>1, <1>2 DEF ListOK, Complete
  <1>6. AtTheEnd(its, pg, ans)'
    BY <1>1, <1>2 DEF ListOK, AtTheEnd
  <1>7. GoesOn(its, pg, ans)'
    BY <1>3 DEF ListOK, GoesOn
  <1>8. FewRepeated(its, ans)'
    BY DEF ListOK, FewRepeated
  <1> QED BY <1>4, <1>5, <1>6, <1>7, <1>8 DEF ListOK

LEMMA RecordKeepsLog ==
  ASSUME TypeInv, InOrder, NEW c \in Classes, Record(c)
  PROVE  LogKept
  BY RecordKeepsList DEF LogKept, Answers

LEMMA CurrentStays ==
  ASSUME TypeInv, UNCHANGED <<setting, filter>>, now' = now \/ now' = now + 1,
         NEW q \in Queries, Current(q)
  PROVE  Current(q)'
  <1>1. view' = view /\ now \in Nat /\ q.since \in Nat
    BY DEF view, TypeInv, ServerTypes, Queries
  <1>2. PICK n \in Nat : n = now' /\ now <= n
    BY <1>1
  <1> QED BY <1>1, <1>2
          DEF Current, Query, RequestsQuery, HealthQuery, AuditQuery, Since

LEMMA FetchStays ==
  ASSUME TypeInv, UNCHANGED <<list, setting, filter>>, LogKept,
         now' = now \/ now' = now + 1,
         NEW f \in FetchRecords(reads + loads, recorded), Fetched(f)
  PROVE  Fetched(f)'
  <1>1. /\ f.query \in Queries /\ f.items \in Seq(Entries(recorded))
        /\ f.page \in Pages /\ f.asOf \in Nat /\ recorded \in Nat
        /\ items \in Seq(Entries(recorded)) /\ answers \in Answers
    BY DEF FetchRecords, TypeInv, ServerTypes, PageTypes, Answers
  <1>2. view' = view /\ items' = items /\ page' = page /\ coherent' = coherent
        /\ answers' = answers
    BY DEF view, list
  <1>3. f.kind \in ListKinds =>
          Current(f.query)' /\ (view' = "audit" => f.query.since = 0)
    BY <1>1, <1>2, CurrentStays DEF Fetched
  <1>4. FirstPageOf(f) /\ f.phase = "answered" =>
          ListOK(f.items, f.page,
                 [first |-> f.query, last |-> f.query, asOf |-> f.asOf])'
    <2>1. [first |-> f.query, last |-> f.query, asOf |-> f.asOf] \in Answers
      BY <1>1 DEF Answers
    <2> QED BY <1>1, <2>1 DEF Fetched, LogKept
  <1>5. NextPage(f) /\ coherent /\ f.phase = "answered" =>
          ListOK(items \o f.items, f.page, [answers EXCEPT !.last = f.query])'
    <2> SUFFICES ASSUME NextPage(f), coherent, f.phase = "answered"
                 PROVE  ListOK(items \o f.items, f.page, [answers EXCEPT !.last = f.query])'
      OBVIOUS
    <2>1. PICK its \in Seq(Entries(recorded)), ans \in Answers :
            /\ its = items \o f.items /\ ans = [answers EXCEPT !.last = f.query]
      <3>1. items \o f.items \in Seq(Entries(recorded))
        BY <1>1, ConcatProperties
      <3>2. [answers EXCEPT !.last = f.query] \in Answers
        BY <1>1 DEF Answers
      <3> QED BY <3>1, <3>2
    <2>2. ListOK(its, f.page, ans)
      BY <2>1 DEF Fetched
    <2>3. ListOK(its, f.page, ans)'
      BY <1>1, <2>2 DEF LogKept
    <2>4. its = items' \o f.items /\ ans = [answers' EXCEPT !.last = f.query]
      BY <1>2, <2>1
    <2> QED BY <2>3, <2>4
  <1>6. f.kind \in Loads /\ f.phase = "answered" =>
          ListOK(f.items, NoPage,
                 [first |-> Unfiltered, last |-> Unfiltered, asOf |-> f.asOf])'
    <2>1. [first |-> Unfiltered, last |-> Unfiltered, asOf |-> f.asOf] \in Answers
      BY <1>1, PageConstants DEF Answers
    <2> QED BY <1>1, <2>1, PageConstants DEF Fetched, LogKept
  <1>7. NextPage(f) /\ coherent /\ f.phase = "sent" =>
          /\ page'.hasMore /\ f.cursor = page'.next
          /\ f.query.class = answers'.last.class
          /\ f.query.since >= answers'.last.since
    BY <1>2 DEF Fetched
  <1>8. f.kind = "replace" => f.cursor = 0
    BY DEF Fetched
  <1> QED BY <1>2, <1>3, <1>4, <1>5, <1>6, <1>7, <1>8
          DEF Fetched, NextPage, FirstPageOf, view

\* The list itself stays what it is.
LEMMA ShownStays ==
  ASSUME TypeInv, UNCHANGED list, LogKept, coherent => ListOK(items, page, answers)
  PROVE  (coherent => ListOK(items, page, answers))'
  <1>1. PICK its \in Seq(Entries(recorded)), pg \in Pages, ans \in Answers :
          its = items /\ pg = page /\ ans = answers
    BY DEF TypeInv, PageTypes, Answers
  <1>2. its = items' /\ pg = page' /\ ans = answers' /\ coherent' = coherent
    BY <1>1 DEF list
  <1> SUFFICES ASSUME coherent PROVE ListOK(items, page, answers)'
    BY <1>2
  <1>3. ListOK(its, pg, ans)'
    BY <1>1 DEF LogKept
  <1> QED BY <1>2, <1>3

\* Nothing but the log and the clock changes.
LEMMA QuietStep ==
  ASSUME TypeInv, ListInv, UNCHANGED <<list, setting, filter, fetches>>, LogKept,
         InOrder', now' = now \/ now' = now + 1
  PROVE  ListInv'
  <1>1. (coherent => ListOK(items, page, answers))'
    BY ShownStays DEF ListInv
  <1>2. (coherent /\ Settled => Current(answers.last))'
    <2>1. answers' = answers /\ coherent' = coherent /\ Settled' = Settled
      BY DEF list, Settled
    <2>2. answers.last \in Queries
      BY DEF TypeInv, PageTypes
    <2>3. PICK q \in Queries : q = answers.last /\ q = answers'.last
      BY <2>1, <2>2
    <2>4. coherent /\ Settled => Current(q)
      BY <2>3 DEF ListInv
    <2>5. coherent /\ Settled => Current(q)'
      BY <2>4, CurrentStays
    <2> QED BY <2>1, <2>3, <2>5
  <1>3. (\A f \in fetches : f.kind = "replace" => f.cursor = 0)'
    BY DEF ListInv
  <1>4. (\A f \in fetches : f.alone /\ ForList(f.kind) => NoneBeside(f) /\ Fetched(f))'
    <2> SUFFICES ASSUME NEW f \in fetches, f.alone, ForList(f.kind)
                 PROVE  (NoneBeside(f) /\ Fetched(f))'
      BY DEF ForList, view
    <2>1. f \in FetchRecords(reads + loads, recorded)
      BY DEF TypeInv
    <2>2. NoneBeside(f) /\ Fetched(f)
      BY DEF ListInv
    <2>3. NoneBeside(f)'
      BY <2>2 DEF NoneBeside, ForList, view
    <2> QED BY <2>1, <2>2, <2>3, FetchStays
  <1> QED BY <1>1, <1>2, <1>3, <1>4 DEF ListInv

\* A fetch of the list that was alone is still alone, and what it was to make
\* of the list it still makes, as long as the fetches beside it stay others
\* than fetches of the list.
LEMMA FetchesStay ==
  ASSUME TypeInv, ListInv, UNCHANGED <<list, setting, filter>>, LogKept,
         now' = now \/ now' = now + 1,
         NEW f \in fetches, f.alone, ForList(f.kind),
         \A g \in fetches' : g \in fetches \/ ~ForList(g.kind)
  PROVE  NoneBeside(f)' /\ Fetched(f)'
  <1>1. f \in FetchRecords(reads + loads, recorded)
    BY DEF TypeInv
  <1>2. NoneBeside(f) /\ Fetched(f)
    BY DEF ListInv
  <1>3. \A k : ForList(k)' <=> ForList(k)
    BY DEF ForList, view
  <1>4. NoneBeside(f)'
    BY <1>2, <1>3 DEF NoneBeside
  <1> QED BY <1>1, <1>2, <1>4, FetchStays

-----------------------------------------------------------------------------
(* The list invariant: the server answers                                   *)

\* Asking, answered or refused, a fetch is about the same part of the list.
SameFetch(f, g) ==
  /\ g.kind = f.kind /\ g.cursor = f.cursor /\ g.query = f.query /\ g.alone = f.alone

LEMMA ServeAnswer ==
  ASSUME TypeInv, ListInv, NEW f \in fetches, Serve(f) \/ Lose(f)
  PROVE  \E g : /\ Step(f, g) /\ SameFetch(f, g) /\ g.phase # "sent"
                /\ f.alone /\ ForList(f.kind) => Fetched(g)
  <1>1. /\ f \in FetchRecords(reads + loads, recorded) /\ IsFetch(f)
        /\ f.query \in Queries /\ f.cursor \in Nat
    BY FetchRecordIsFetch DEF TypeInv, FetchRecords
  <1>2. f.alone /\ ForList(f.kind) => Fetched(f)
    BY DEF ListInv
  <1>3. "replace" \notin Loads /\ "append" \notin Loads /\ "replace" \in ListKinds
        /\ \A k \in ListKinds : k \notin Loads
    BY DEF Loads, SignIns, ListKinds
  <1>4. CASE Refuse(f) \/ Lose(f)
    <2> DEFINE g == [f EXCEPT !.phase = "failed"]
    <2>1. Step(f, g)
      BY <1>4 DEF Refuse, Lose
    <2>2. SameFetch(f, g) /\ g.phase = "failed"
      BY <1>1 DEF SameFetch, IsFetch
    <2> HIDE DEF g
    <2>3. ASSUME Fetched(f) PROVE Fetched(g)
      BY <2>2, <2>3 DEF Fetched, SameFetch, NextPage, FirstPageOf
    <2> QED BY <1>2, <2>1, <2>2, <2>3
  <1>5. CASE ReadPage(f)
    <2> DEFINE found == Window(f.query, f.cursor)
               g == [f EXCEPT !.phase = "answered", !.items = PageItems(found),
                              !.page = PageInfo(found, f.cursor), !.asOf = recorded]
    <2>0. Step(f, g) /\ f.kind \in ListKinds /\ f.phase = "sent"
      BY <1>5 DEF ReadPage
    <2>1. /\ SameFetch(f, g) /\ g.phase = "answered" /\ g.items = PageItems(found)
          /\ g.page = PageInfo(found, f.cursor) /\ g.asOf = recorded
      <3> DEFINE its == PageItems(found)
                 pg  == PageInfo(found, f.cursor)
      <3> HIDE DEF its, pg, found
      <3>1. g = [f EXCEPT !.phase = "answered", !.items = its, !.page = pg, !.asOf = recorded]
        BY DEF its, pg, found
      <3> HIDE DEF g
      <3>2. /\ SameFetch(f, g) /\ g.phase = "answered" /\ g.items = its
            /\ g.page = pg /\ g.asOf = recorded
        BY <1>1, <3>1 DEF SameFetch, IsFetch
      <3> QED BY <3>2 DEF its, pg
    <2> HIDE DEF g
    <2>2. ASSUME Fetched(f) PROVE Fetched(g)
      <3>1. g.kind \in ListKinds =>
              Current(g.query) /\ (view = "audit" => g.query.since = 0)
        BY <2>1, <2>2 DEF Fetched, SameFetch
      <3>2. g.kind = "replace" => g.cursor = 0
        BY <2>1, <2>2 DEF Fetched, SameFetch
      <3>3. ASSUME FirstPageOf(g)
            PROVE  ListOK(g.items, g.page,
                          [first |-> g.query, last |-> g.query, asOf |-> g.asOf])
        <4>1. f.cursor = 0 /\ (view = "audit" => f.query.since = 0)
          BY <2>0, <2>1, <2>2, <3>3 DEF Fetched, SameFetch, FirstPageOf
        <4>2. ListOK(PageItems(Window(f.query, 0)), PageInfo(Window(f.query, 0), 0),
                     FirstAnswer(f.query, recorded))
          BY <1>1, <4>1, FirstPage DEF ListInv
        <4>3. /\ g.items = PageItems(Window(f.query, 0))
              /\ g.page = PageInfo(Window(f.query, 0), 0)
              /\ g.query = f.query /\ g.asOf = recorded
          BY <2>1, <4>1 DEF SameFetch
        <4> QED BY <4>2, <4>3, Zenon DEF FirstAnswer
      <3>4. ASSUME NextPage(g), coherent
            PROVE  ListOK(items \o g.items, g.page, [answers EXCEPT !.last = g.query])
        <4>1. NextPage(f)
          BY <2>1, <3>4 DEF NextPage, SameFetch
        <4>2. /\ page.hasMore /\ f.cursor = page.next
              /\ f.query.class = answers.last.class
              /\ f.query.since >= answers.last.since
          BY <2>0, <2>2, <3>4, <4>1 DEF Fetched
        <4>3. /\ items \in Seq(Entries(recorded)) /\ page \in Pages
              /\ answers \in [first : Queries, last : Queries, asOf : Nat]
          BY DEF TypeInv, PageTypes
        <4>4. ListOK(items \o PageItems(Window(f.query, page.next)),
                     PageInfo(Window(f.query, page.next), page.next),
                     [answers EXCEPT !.last = f.query])
          BY <1>1, <3>4, <4>2, <4>3, NextPageOK DEF ListInv
        <4>5. /\ g.items = PageItems(Window(f.query, page.next))
              /\ g.page = PageInfo(Window(f.query, page.next), page.next)
              /\ g.query = f.query
          BY <2>1, <4>2 DEF SameFetch
        <4> QED BY <4>4, <4>5, Zenon
      <3>5. g.phase # "sent" /\ g.kind \notin Loads
        BY <1>3, <2>0, <2>1 DEF SameFetch
      <3> QED BY <3>1, <3>2, <3>3, <3>4, <3>5 DEF Fetched
    <2>3. g.phase # "sent"
      BY <2>1
    <2> QED BY <1>2, <2>0, <2>1, <2>2, <2>3
  <1>6. CASE ReadState(f)
    <2> DEFINE top == IF view = "audit" THEN Slice(log, 1, StateSize) ELSE <<>>
               g == [f EXCEPT !.phase = "answered", !.items = top, !.asOf = recorded]
    <2>0. Step(f, g) /\ f.kind \in Loads /\ f.phase = "sent"
      BY <1>6 DEF ReadState
    <2>1. /\ SameFetch(f, g) /\ g.phase = "answered" /\ g.items = top
          /\ g.asOf = recorded
      <3> HIDE DEF top
      <3> QED BY <1>1 DEF SameFetch, IsFetch
    <2> HIDE DEF g
    <2>2. ASSUME Fetched(f), ForList(f.kind) PROVE Fetched(g)
      <3>1. f.kind \notin ListKinds /\ view = "audit"
        BY <1>3, <2>0, <2>2 DEF ForList
      <3>2. ListOK(g.items, NoPage,
                   [first |-> Unfiltered, last |-> Unfiltered, asOf |-> g.asOf])
        <4>1. ListOK(Slice(log, 1, StateSize), NoPage, FirstAnswer(Unfiltered, recorded))
          BY <3>1, StateList DEF ListInv
        <4>2. g.items = Slice(log, 1, StateSize) /\ g.asOf = recorded
          BY <2>1, <3>1
        <4> QED BY <4>1, <4>2, Zenon DEF FirstAnswer
      <3>3. g.kind \notin ListKinds /\ g.kind # "replace" /\ g.kind # "append"
        BY <1>3, <2>0, <2>1, <3>1 DEF SameFetch
      <3> QED BY <3>2, <3>3 DEF Fetched, NextPage, FirstPageOf
    <2>3. g.phase # "sent"
      BY <2>1
    <2> QED BY <1>2, <2>0, <2>1, <2>2, <2>3
  <1> QED BY <1>4, <1>5, <1>6 DEF Serve

LEMMA ServeList ==
  ASSUME TypeInv, TypeInv', ListInv, NEW f \in fetches, Serve(f) \/ Lose(f)
  PROVE  ListInv'
  <1>1. PICK g : /\ Step(f, g) /\ SameFetch(f, g) /\ g.phase # "sent"
                 /\ f.alone /\ ForList(f.kind) => Fetched(g)
    BY ServeAnswer
  <1>2. /\ fetches' = (fetches \ {f}) \cup {g}
        /\ UNCHANGED <<list, filter, setting, log, recorded, now>>
    BY <1>1 DEF Step, server
  <1>3. LogKept
    BY <1>2, SameLog
  <1>4. InOrder'
    BY <1>2 DEF ListInv, InOrder
  <1>5. (coherent => ListOK(items, page, answers))'
    BY <1>2, <1>3, ShownStays DEF ListInv
  <1>6. (coherent /\ Settled => Current(answers.last))'
    <2>1. Settled' => Settled
      BY <1>1, <1>2 DEF Settled, SameFetch
    <2>2. answers' = answers /\ coherent' = coherent
      BY <1>2 DEF list
    <2>3. \A q : Current(q)' <=> Current(q)
      BY <1>2 DEF Current, Query, RequestsQuery, HealthQuery, AuditQuery, Since, view
    <2> QED BY <2>1, <2>2, <2>3 DEF ListInv
  <1>7. (\A h \in fetches : h.kind = "replace" => h.cursor = 0)'
    BY <1>1, <1>2 DEF ListInv, SameFetch
  <1>8. \A k : ForList(k)' <=> ForList(k)
    BY <1>2 DEF ForList, view
  <1>9. ASSUME NEW h \in fetches', h.alone, ForList(h.kind)
        PROVE  NoneBeside(h)' /\ Fetched(h)'
    <2>1. CASE h = g
      <3>1. f.alone /\ ForList(f.kind)
        BY <1>1, <1>9, <2>1 DEF SameFetch
      <3>2. Fetched(g) /\ NoneBeside(f)
        BY <1>1, <3>1 DEF ListInv
      <3>3. NoneBeside(h)'
        BY <1>2, <1>8, <2>1, <3>2 DEF NoneBeside
      <3>4. g \in FetchRecords(reads + loads, recorded)
        <4>1. g \in FetchRecords(reads' + loads', recorded')
          BY <1>2 DEF TypeInv
        <4>2. reads' = reads /\ loads' = loads /\ recorded' = recorded
          BY <1>1 DEF Step, bounds, server
        <4> QED BY <4>1, <4>2
      <3> QED BY <1>2, <1>3, <2>1, <3>2, <3>3, <3>4, FetchStays
    <2>2. CASE h # g
      <3>1. h \in fetches /\ h # f
        BY <1>2, <2>2
      <3>2. NoneBeside(h)
        BY <1>9, <3>1 DEF ListInv
      <3>3. ~ForList(g.kind)
        BY <1>1, <3>1, <3>2 DEF NoneBeside, SameFetch
      <3>4. \A i \in fetches' : i \in fetches \/ ~ForList(i.kind)
        BY <1>2, <3>3
      <3> QED BY <1>2, <1>3, <1>9, <3>1, <3>4, FetchesStay
    <2> QED BY <2>1, <2>2
  <1>10. (\A h \in fetches : h.alone /\ ForList(h.kind) => NoneBeside(h) /\ Fetched(h))'
    BY <1>8, <1>9
  <1> QED BY <1>4, <1>5, <1>6, <1>7, <1>10 DEF ListInv

-----------------------------------------------------------------------------
(* The list invariant: a fetch is sent                                      *)

\* The fetches after one is sent are the one sent and those before, about the
\* same part of the list; if the one sent is about the list, no other fetch of
\* the list is alone any more.
LEMMA SentAlone ==
  ASSUME TypeInv, UNCHANGED setting, NEW others \in SUBSET fetches, NEW kind,
         NEW cursor, NEW query, NEW tok,
         fetches' = Sent(others, kind, cursor, query, tok),
         NEW f, f = NewFetch(others, kind, cursor, query, tok)
  PROVE  /\ f.kind = kind /\ f.cursor = cursor /\ f.query = query
         /\ f.phase = "sent" /\ f \in fetches'
         /\ \A h \in fetches' : h = f \/ \E g \in others :
              /\ h.kind = g.kind /\ h.cursor = g.cursor
              /\ ~ForList(kind) => h = g
         /\ \A g \in others : \E h \in fetches' : h.kind = g.kind /\ h.cursor = g.cursor
         /\ ForList(kind) =>
              \A h \in fetches' : h.alone /\ ForList(h.kind) =>
                h = f /\ NoneBeside(h)' /\ \A g \in others : ~ForList(g.kind)
  <1>1. fetches' = {AfterSending(g, kind) : g \in others} \cup {f}
    BY SentIs
  <1>2. /\ f.kind = kind /\ f.cursor = cursor /\ f.query = query /\ f.phase = "sent"
        /\ f.alone = ~\E g \in others : ForList(kind) /\ ForList(g.kind)
    BY NewFetchFields
  <1>3. \A g \in others : LET h == AfterSending(g, kind)
                          IN  /\ h.kind = g.kind /\ h.cursor = g.cursor
                              /\ ForList(kind) /\ ForList(g.kind) => ~h.alone
                              /\ ~ForList(kind) => h = g
    <2> SUFFICES ASSUME NEW g \in others
                 PROVE  LET h == AfterSending(g, kind)
                        IN  /\ h.kind = g.kind /\ h.cursor = g.cursor
                            /\ ForList(kind) /\ ForList(g.kind) => ~h.alone
                            /\ ~ForList(kind) => h = g
      OBVIOUS
    <2>1. IsFetch(g)
      BY FetchRecordIsFetch DEF TypeInv
    <2>2. ~ForList(kind) => AfterSending(g, kind) = g
      BY DEF AfterSending
    <2> QED BY <2>1, <2>2, AfterSendingFields
  <1>4. \A h \in fetches' : h = f \/ \E g \in others :
          /\ h.kind = g.kind /\ h.cursor = g.cursor
          /\ ~ForList(kind) => h = g
          /\ ForList(kind) /\ ForList(g.kind) => ~h.alone
    BY <1>1, <1>3
  <1>5. \A k : ForList(k)' <=> ForList(k)
    BY DEF ForList, view
  <1>6. ASSUME ForList(kind), NEW h \in fetches', h.alone, ForList(h.kind)
        PROVE  h = f /\ NoneBeside(h)' /\ \A g \in others : ~ForList(g.kind)
    <2>1. h = f
      BY <1>4, <1>6
    <2>2. \A g \in others : ~ForList(g.kind)
      BY <1>2, <1>6, <2>1
    <2>3. NoneBeside(h)'
      BY <1>4, <1>5, <2>1, <2>2 DEF NoneBeside
    <2> QED BY <2>1, <2>2, <2>3
  <1>7. \A g \in others : \E h \in fetches' : h.kind = g.kind /\ h.cursor = g.cursor
    BY <1>1, <1>3
  <1> QED BY <1>1, <1>2, <1>4, <1>6, <1>7

\* A fetch of a page, sent for the class chosen.
LEMMA SendsPage ==
  ASSUME TypeInv, UNCHANGED setting, NEW others \in SUBSET fetches,
         NEW kind \in ListKinds, NEW cursor \in Nat, NEW query, NEW tok,
         fetches' = Sent(others, kind, cursor, query, tok),
         Current(query)', view = "audit" => query.since = 0,
         kind = "replace" => cursor = 0,
         \A g \in others : g.kind = "replace" => g.cursor = 0,
         /\ kind = "append" /\ cursor > 0 /\ coherent'
         /\ \A g \in others : ~ForList(g.kind)
         => /\ page'.hasMore /\ cursor = page'.next
            /\ query.class = answers'.last.class
            /\ query.since >= answers'.last.since
  PROVE  /\ (\A f \in fetches : f.kind = "replace" => f.cursor = 0)'
         /\ (\A f \in fetches :
               f.alone /\ ForList(f.kind) => NoneBeside(f) /\ Fetched(f))'
         /\ Settled' => /\ kind = "append" /\ cursor > 0
                        /\ \A g \in others :
                             g.kind \in ListKinds => g.kind = "append" /\ g.cursor > 0
  <1>1. PICK f : f = NewFetch(others, kind, cursor, query, tok)
    OBVIOUS
  <1>2. /\ f.kind = kind /\ f.cursor = cursor /\ f.query = query
        /\ f.phase = "sent" /\ f \in fetches'
        /\ \A h \in fetches' : h = f \/ \E g \in others :
             /\ h.kind = g.kind /\ h.cursor = g.cursor
             /\ ~ForList(kind) => h = g
        /\ \A g \in others : \E h \in fetches' : h.kind = g.kind /\ h.cursor = g.cursor
        /\ ForList(kind) =>
             \A h \in fetches' : h.alone /\ ForList(h.kind) =>
               h = f /\ NoneBeside(h)' /\ \A g \in others : ~ForList(g.kind)
    BY <1>1, SentAlone, SMTT(20)
  <1>3. ForList(kind) /\ view' = view /\ \A k : ForList(k)' <=> ForList(k)
    BY DEF ForList, view
  <1>4. kind \notin Loads
    BY DEF Loads, SignIns, ListKinds
  <1>5. ASSUME \A g \in others : ~ForList(g.kind)
        PROVE  Fetched(f)'
    BY <1>2, <1>3, <1>4, <1>5 DEF Fetched, NextPage, FirstPageOf
  <1>6. (\A h \in fetches : h.alone /\ ForList(h.kind) => NoneBeside(h) /\ Fetched(h))'
    <2> SUFFICES ASSUME NEW h \in fetches', h.alone, ForList(h.kind)
                 PROVE  NoneBeside(h)' /\ Fetched(h)'
      BY <1>3
    <2>1. h = f /\ NoneBeside(h)' /\ \A g \in others : ~ForList(g.kind)
      BY <1>2, <1>3
    <2> QED BY <1>5, <2>1
  <1>7. (\A h \in fetches : h.kind = "replace" => h.cursor = 0)'
    BY <1>2
  <1>8. Settled' => /\ kind = "append" /\ cursor > 0
                    /\ \A g \in others :
                         g.kind \in ListKinds => g.kind = "append" /\ g.cursor > 0
    BY <1>2 DEF Settled
  <1> QED BY <1>6, <1>7, <1>8

\* What a page is asked for with is current.
LEMMA QueryIsCurrent ==
  ASSUME TypeInv, TypeInv', UNCHANGED <<setting, now>>
  PROVE  \E q \in Queries :
           /\ q = Query(filter') /\ Current(q)'
           /\ view = "audit" => q.since = 0
  <1>1. filter' \in [class : Classes \cup {AnyClass}, range : {"all", "1h"}]
    BY DEF TypeInv, PageTypes
  <1>2. PICK q \in Queries : q = Query(filter')
    BY <1>1, QueryTypes
  <1>3. q = Query(filter)'
    BY <1>2 DEF Query, RequestsQuery, HealthQuery, AuditQuery, Since, view
  <1>4. q.since <= q.since
    BY DEF Queries
  <1>5. Current(q)'
    BY <1>3, <1>4 DEF Current
  <1>6. view = "audit" => q.since = 0
    BY <1>2 DEF Query, AuditQuery
  <1> QED BY <1>2, <1>5, <1>6

LEMMA ListPageList ==
  ASSUME TypeInv, TypeInv', ListInv,
         \/ ClickRefresh \/ EnterTarget \/ LoadMore
         \/ \E c \in Choices : ChooseClass(c)
         \/ \E r \in {"all", "1h"} : ChooseRange(r)
         \/ \E r \in setting.routes : Navigate(r)
  PROVE  ListInv'
  <1>1. UNCHANGED <<list, setting, log, recorded, now>>
    BY DEF ClickRefresh, EnterTarget, LoadMore, ChooseClass, ChooseRange, Navigate, server
  <1>2. LogKept
    BY <1>1, SameLog
  <1>3. InOrder'
    BY <1>1 DEF ListInv, InOrder
  <1>4. \/ UNCHANGED <<fetches, filter>>
        \/ \E kind \in ListKinds : ReadList(kind, 0)
        \/ page.hasMore /\ ReadList("append", page.next) /\ UNCHANGED filter
    BY DEF ClickRefresh, EnterTarget, LoadMore, ChooseClass, ChooseRange, Navigate, Refresh,
           ListKinds
  <1>5. CASE UNCHANGED <<fetches, filter>>
    BY <1>1, <1>2, <1>3, <1>5, QuietStep
  <1>6. ASSUME NEW kind \in ListKinds, NEW cursor \in Nat, ReadList(kind, cursor),
               kind = "replace" => cursor = 0,
               cursor > 0 => page.hasMore /\ cursor = page.next /\ UNCHANGED filter
        PROVE  ListInv'
    <2>1. PICK q \in Queries : q = Query(filter') /\ Current(q)'
                               /\ (view = "audit" => q.since = 0)
      BY <1>1, QueryIsCurrent
    <2>2. fetches' = Sent(fetches, kind, cursor, q, token)
      BY <1>6, <2>1 DEF ReadList
    <2>3. page' = page /\ answers' = answers /\ coherent' = coherent
      BY <1>1 DEF list
    <2>4. (\A g \in fetches : ~ForList(g.kind)) => Settled
      BY DEF Settled, ForList
    <2>5. /\ kind = "append" /\ cursor > 0 /\ coherent'
          /\ \A g \in fetches : ~ForList(g.kind)
          => /\ page'.hasMore /\ cursor = page'.next
             /\ q.class = answers'.last.class
             /\ q.since >= answers'.last.since
      <3> SUFFICES ASSUME cursor > 0, coherent, \A g \in fetches : ~ForList(g.kind)
                   PROVE  /\ page.hasMore /\ cursor = page.next
                          /\ q.class = answers.last.class
                          /\ q.since >= answers.last.since
        BY <2>3
      <3>1. Current(answers.last) /\ q = Query(filter)
        BY <1>6, <2>1, <2>4 DEF ListInv
      <3>2. answers.last.since \in Nat /\ q.since \in Nat
        BY DEF TypeInv, PageTypes, Queries
      <3> QED BY <1>6, <3>1, <3>2 DEF Current
    <2>6. /\ (\A f \in fetches : f.kind = "replace" => f.cursor = 0)'
          /\ (\A f \in fetches :
                f.alone /\ ForList(f.kind) => NoneBeside(f) /\ Fetched(f))'
          /\ Settled' => /\ kind = "append" /\ cursor > 0
                         /\ \A g \in fetches :
                              g.kind \in ListKinds => g.kind = "append" /\ g.cursor > 0
      <3>1. \A g \in fetches : g.kind = "replace" => g.cursor = 0
        BY DEF ListInv
      <3>2. fetches \in SUBSET fetches
        OBVIOUS
      <3> QED BY <1>1, <1>6, <2>1, <2>2, <2>5, <3>1, <3>2, SendsPage
    <2>7. (coherent /\ Settled => Current(answers.last))'
      <3> SUFFICES ASSUME coherent, Settled'
                   PROVE  Current(answers.last)'
        BY <2>3
      <3>1. UNCHANGED filter /\ Settled
        BY <1>6, <2>6 DEF Settled
      <3>2. Current(answers.last)
        BY <3>1 DEF ListInv
      <3>3. PICK p \in Queries : p = answers.last /\ p = answers'.last
        BY <2>3 DEF TypeInv, PageTypes
      <3>4. Current(p)'
        BY <1>1, <3>1, <3>2, <3>3, CurrentStays
      <3> QED BY <3>3, <3>4 DEF Current
    <2>8. (coherent => ListOK(items, page, answers))'
      BY <1>1, <1>2, ShownStays DEF ListInv
    <2> QED BY <1>3, <2>6, <2>7, <2>8 DEF ListInv
  <1>7. CASE \E kind \in ListKinds : ReadList(kind, 0)
    BY <1>6, <1>7
  <1>8. CASE page.hasMore /\ ReadList("append", page.next) /\ UNCHANGED filter
    <2>1. PICK cursor \in Nat : cursor = page.next
      BY DEF TypeInv, PageTypes, Pages
    <2>2. "append" \in ListKinds
      BY DEF ListKinds
    <2> QED BY <1>6, <1>8, <2>1, <2>2
  <1> QED BY <1>4, <1>5, <1>7, <1>8

LEMMA SignInList ==
  ASSUME TypeInv, ListInv, (\E t \in Tokens : Submit(t)) \/ Reload \/ LogOut
  PROVE  ListInv'
  <1>1. UNCHANGED <<list, filter, setting, log, recorded, now>>
    BY DEF Submit, Reload, LogOut, Load, server
  <1>2. LogKept
    BY <1>1, SameLog
  <1>3. InOrder'
    BY <1>1 DEF ListInv, InOrder
  <1>4. CASE LogOut
    BY <1>1, <1>2, <1>3, <1>4, QuietStep DEF LogOut
  <1>5. CASE ~LogOut
    <2>1. PICK kind, t : kind \in Loads /\ Load(kind, t)
      BY <1>5 DEF Submit, Reload, Loads, SignIns
    <2>2. PICK f : f = NewFetch(fetches, kind, 0, Unfiltered, t)
      OBVIOUS
    <2>3. fetches' = Sent(fetches, kind, 0, Unfiltered, t) /\ fetches \in SUBSET fetches
      BY <2>1 DEF Load
    <2>4. /\ f.kind = kind /\ f.cursor = 0 /\ f.query = Unfiltered
          /\ f.phase = "sent" /\ f \in fetches'
          /\ \A h \in fetches' : h = f \/ \E g \in fetches :
               /\ h.kind = g.kind /\ h.cursor = g.cursor
               /\ ~ForList(kind) => h = g
          /\ \A g \in fetches : \E h \in fetches' : h.kind = g.kind /\ h.cursor = g.cursor
          /\ ForList(kind) =>
               \A h \in fetches' : h.alone /\ ForList(h.kind) =>
                 h = f /\ NoneBeside(h)' /\ \A g \in fetches : ~ForList(g.kind)
      BY <1>1, <2>2, <2>3, SentAlone
    <2>5. \A k \in Loads : k \notin ListKinds /\ k # "replace" /\ k # "append"
      BY DEF Loads, SignIns, ListKinds
    <2>6. (coherent => ListOK(items, page, answers))'
      BY <1>1, <1>2, ShownStays DEF ListInv
    <2>7. (coherent /\ Settled => Current(answers.last))'
      <3> SUFFICES ASSUME coherent, Settled'
                   PROVE  Current(answers.last)'
        BY <1>1 DEF list
      <3>1. Settled
        BY <2>4 DEF Settled
      <3>2. PICK p \in Queries : p = answers.last /\ p = answers'.last
        BY <1>1 DEF list, TypeInv, PageTypes
      <3>3. Current(p)
        BY <3>1, <3>2 DEF ListInv
      <3>4. Current(p)'
        BY <1>1, <3>3, CurrentStays
      <3> QED BY <3>2, <3>4 DEF Current
    <2>8. (\A h \in fetches : h.kind = "replace" => h.cursor = 0)'
      BY <2>4, <2>5 DEF ListInv
    <2>9. \A k : ForList(k)' <=> ForList(k)
      BY <1>1 DEF ForList, view
    <2>10. Fetched(f)'
      <3>1. f.kind \in Loads /\ f.phase = "sent"
        BY <2>1, <2>4
      <3>2. f.kind \notin ListKinds /\ f.kind # "replace" /\ f.kind # "append"
        BY <2>5, <3>1
      <3> QED BY <3>1, <3>2 DEF Fetched, NextPage, FirstPageOf
    <2>11. ASSUME NEW h \in fetches', h.alone, ForList(h.kind)
           PROVE  NoneBeside(h)' /\ Fetched(h)'
      <3>1. CASE ForList(kind)
        BY <2>4, <2>10, <2>11, <3>1
      <3>2. CASE ~ForList(kind)
        <4>1. h \in fetches
          BY <2>4, <2>11, <3>2
        <4>2. \A g \in fetches' : g \in fetches \/ ~ForList(g.kind)
          BY <2>4, <3>2
        <4> QED BY <1>1, <1>2, <2>11, <4>1, <4>2, FetchesStay
      <3> QED BY <3>1, <3>2
    <2>12. (\A h \in fetches : h.alone /\ ForList(h.kind) => NoneBeside(h) /\ Fetched(h))'
      BY <2>9, <2>11
    <2> QED BY <1>3, <2>6, <2>7, <2>8, <2>12 DEF ListInv
  <1> QED BY <1>4, <1>5

-----------------------------------------------------------------------------
(* The list invariant: an answer is applied                                 *)

LEMMA ApplyListList ==
  ASSUME TypeInv, ListInv, NEW f \in fetches, ApplyList(f)
  PROVE  ListInv'
  <1>1. /\ UNCHANGED <<filter, setting, log, recorded, now>>
        /\ fetches' = fetches \ {f} /\ f.kind \in ListKinds
    BY DEF ApplyList, server
  <1>2. LogKept
    BY <1>1, SameLog
  <1>3. InOrder'
    BY <1>1 DEF ListInv, InOrder
  <1>4. \A k : ForList(k)' <=> ForList(k)
    BY <1>1 DEF ForList, view
  <1>5. /\ f.items \in Seq(Entries(recorded)) /\ f.page \in Pages
        /\ f.query \in Queries /\ f.asOf \in Nat
        /\ items \in Seq(Entries(recorded)) /\ answers \in Answers
    BY DEF TypeInv, FetchRecords, PageTypes, Answers
  <1>6. (\A h \in fetches : h.kind = "replace" => h.cursor = 0)'
    BY <1>1 DEF ListInv
  <1>7. \A h \in fetches' : ~(h.alone /\ ForList(h.kind))
    <2> SUFFICES ASSUME NEW h \in fetches', h.alone, ForList(h.kind) PROVE FALSE
      OBVIOUS
    <2>1. h \in fetches /\ h # f /\ ForList(f.kind)
      BY <1>1 DEF ForList
    <2> QED BY <2>1 DEF ListInv, NoneBeside
  <1>8. (\A h \in fetches : h.alone /\ ForList(h.kind) => NoneBeside(h) /\ Fetched(h))'
    BY <1>4, <1>7
  <1>9. f.alone => Fetched(f)
    BY <1>1 DEF ListInv, ForList
  <1>10. \A q \in Queries : Current(q) => Current(q)'
    BY <1>1, CurrentStays
  <1>11. CASE f.phase = "answered" /\ f.cursor = 0 /\ Begin(f)
    <2>1. PICK its \in Seq(Entries(recorded)), pg \in Pages, ans \in Answers :
            /\ its = f.items /\ pg = f.page
            /\ ans = [first |-> f.query, last |-> f.query, asOf |-> f.asOf]
      BY <1>5 DEF Answers
    <2>2. /\ its = items' /\ pg = page' /\ ans = answers' /\ coherent' = f.alone
          /\ ans.last = f.query
      BY <1>11, <2>1 DEF Begin
    <2> SUFFICES ASSUME f.alone
                 PROVE  ListOK(items, page, answers)' /\ Current(answers.last)'
      BY <1>3, <1>6, <1>8, <2>2 DEF ListInv
    <2>3. ListOK(its, pg, ans) /\ Current(f.query)
      BY <1>1, <1>9, <1>11, <2>1 DEF Fetched, FirstPageOf
    <2>4. ListOK(its, pg, ans)'
      BY <1>2, <2>3 DEF LogKept
    <2>5. Current(f.query)'
      BY <1>5, <1>10, <2>3
    <2>6. Current(answers.last)'
      BY <2>2, <2>5 DEF Current
    <2> QED BY <2>2, <2>4, <2>6
  <1>12. CASE f.phase = "answered" /\ NextPage(f) /\ ShowMore(f)
    <2>1. PICK its \in Seq(Entries(recorded)), pg \in Pages, ans \in Answers :
            /\ its = items \o f.items /\ pg = f.page
            /\ ans = [answers EXCEPT !.last = f.query]
      <3>1. items \o f.items \in Seq(Entries(recorded))
        BY <1>5, ConcatProperties
      <3>2. [answers EXCEPT !.last = f.query] \in Answers
        BY <1>5 DEF Answers
      <3> QED BY <1>5, <3>1, <3>2
    <2>2. /\ its = items' /\ pg = page' /\ ans = answers'
          /\ coherent' = (coherent /\ f.alone)
      BY <1>12, <2>1 DEF ShowMore
    <2>3. ans.last = f.query
      BY <1>5, <2>1 DEF Answers
    <2> SUFFICES ASSUME coherent, f.alone
                 PROVE  ListOK(items, page, answers)' /\ Current(answers.last)'
      BY <1>3, <1>6, <1>8, <2>2 DEF ListInv
    <2>4. ListOK(its, pg, ans) /\ Current(f.query)
      BY <1>1, <1>9, <1>12, <2>1 DEF Fetched
    <2>5. ListOK(its, pg, ans)'
      BY <1>2, <2>4 DEF LogKept
    <2>6. Current(f.query)'
      BY <1>5, <1>10, <2>4
    <2>7. Current(answers.last)'
      BY <2>2, <2>3, <2>6 DEF Current
    <2> QED BY <2>2, <2>5, <2>7
  <1>13. CASE KeepList(f)
    <2>1. PICK its \in Seq(Entries(recorded)), pg \in Pages, ans \in Answers :
            its = items /\ pg = page /\ ans = answers
      BY DEF TypeInv, PageTypes, Answers
    <2>2. /\ its = items' /\ pg = page' /\ ans = answers'
          /\ coherent' = (coherent /\ f.cursor > 0)
      BY <1>13, <2>1 DEF KeepList
    <2>3. ASSUME coherent, f.cursor > 0
          PROVE  ListOK(items, page, answers)'
      <3>1. ListOK(its, pg, ans)
        BY <2>1, <2>3 DEF ListInv
      <3>2. ListOK(its, pg, ans)'
        BY <1>2, <3>1 DEF LogKept
      <3> QED BY <2>2, <3>2
    <2>4. ASSUME coherent, f.cursor > 0, Settled'
          PROVE  Current(answers.last)'
      <3>1. f.kind = "append"
        BY <1>1, <2>4 DEF ListInv, ListKinds
      <3>2. Settled
        BY <1>1, <2>4, <3>1 DEF Settled
      <3>3. ans.last \in Queries /\ Current(ans.last)
        BY <2>1, <2>4, <3>2 DEF ListInv, Answers
      <3>4. Current(ans.last)'
        BY <1>10, <3>3
      <3> QED BY <2>2, <3>4 DEF Current
    <2> QED BY <1>3, <1>6, <1>8, <2>2, <2>3, <2>4 DEF ListInv
  <1>14. f.kind = "replace" => f.cursor = 0
    BY DEF ListInv
  <1> QED BY <1>11, <1>12, <1>13, <1>14 DEF ApplyList, Show, ShowBelow, NextPage

\* A state fetch that is gone took no part in the list unless it was of the
\* audit page.
LEMMA LoadGone ==
  ASSUME TypeInv, ListInv, NEW f \in fetches, f.kind \in Loads,
         fetches' = fetches \ {f}, UNCHANGED <<list, filter, setting, log, recorded, now>>
  PROVE  ListInv'
  <1>1. LogKept
    BY SameLog
  <1>2. InOrder'
    BY DEF ListInv, InOrder
  <1>3. \A k : ForList(k)' <=> ForList(k)
    BY DEF ForList, view
  <1>4. (\A h \in fetches : h.kind = "replace" => h.cursor = 0)'
    BY DEF ListInv
  <1>5. ASSUME NEW h \in fetches', h.alone, ForList(h.kind)
        PROVE  NoneBeside(h)' /\ Fetched(h)'
    BY <1>1, <1>5, FetchesStay
  <1>6. (\A h \in fetches : h.alone /\ ForList(h.kind) => NoneBeside(h) /\ Fetched(h))'
    BY <1>3, <1>5
  <1>7. (coherent => ListOK(items, page, answers))'
    BY <1>1, ShownStays DEF ListInv
  <1>8. (coherent /\ Settled => Current(answers.last))'
    <2> SUFFICES ASSUME coherent, Settled'
                 PROVE  Current(answers.last)'
      BY DEF list
    <2>1. f.kind \notin ListKinds
      BY DEF Loads, SignIns, ListKinds
    <2>2. Settled
      BY <2>1 DEF Settled
    <2>3. PICK p \in Queries : p = answers.last /\ p = answers'.last
      BY DEF list, TypeInv, PageTypes
    <2>4. Current(p)'
      BY <2>2, <2>3, CurrentStays DEF ListInv
    <2> QED BY <2>3, <2>4 DEF Current
  <1> QED BY <1>2, <1>4, <1>6, <1>7, <1>8 DEF ListInv

LEMMA ApplyLoadList ==
  ASSUME TypeInv, TypeInv', ListInv, NEW f \in fetches, ApplyLoad(f)
  PROVE  ListInv'
  <1>1. /\ UNCHANGED <<filter, setting, log, recorded, now>>
        /\ f.kind \in Loads /\ f.phase = "answered" /\ ShowState(f)
    BY DEF ApplyLoad, server
  <1>2. LogKept
    BY <1>1, SameLog
  <1>3. InOrder'
    BY <1>1 DEF ListInv, InOrder
  <1>4. \A k : ForList(k)' <=> ForList(k)
    BY <1>1 DEF ForList, view
  <1>5. \/ fetches' = fetches \ {f}
        \/ fetches' = Sent(fetches \ {f}, "replace", 0, Query(filter), token)
    BY DEF ApplyLoad
  <1>6. (coherent => ListOK(items, page, answers))'
    <2>1. CASE view = "audit"
      <3>1. PICK its \in Seq(Entries(recorded)), pg \in Pages, ans \in Answers :
              /\ its = f.items /\ pg = NoPage
              /\ ans = [first |-> Unfiltered, last |-> Unfiltered, asOf |-> f.asOf]
        <4>1. recorded \in Nat /\ f \in FetchRecords(reads + loads, recorded)
          BY DEF TypeInv, ServerTypes
        <4>2. f.items \in Seq(Entries(recorded)) /\ f.asOf \in 0 .. recorded
          BY <4>1 DEF FetchRecords
        <4>3. f.asOf \in Nat
          BY <4>1, <4>2
        <4>4. [first |-> Unfiltered, last |-> Unfiltered, asOf |-> f.asOf] \in Answers
          BY <4>3, PageConstants DEF Answers
        <4> QED BY <4>2, <4>4, PageConstants
      <3>2. /\ its = items' /\ pg = page' /\ ans = answers'
            /\ coherent' = (f.alone /\ filter.class = AnyClass)
        BY <1>1, <2>1, <3>1 DEF ShowState
      <3> SUFFICES ASSUME f.alone PROVE ListOK(items, page, answers)'
        BY <3>2
      <3>3. Fetched(f)
        BY <2>1 DEF ListInv, ForList
      <3>4. ListOK(its, pg, ans)
        BY <1>1, <3>1, <3>3 DEF Fetched
      <3>5. ListOK(its, pg, ans)'
        BY <1>2, <3>4 DEF LogKept
      <3> QED BY <3>2, <3>5
    <2>2. CASE view # "audit"
      BY <1>1, <1>2, <2>2, ShownStays DEF ShowState, ListInv
    <2> QED BY <2>1, <2>2
  <1>7. CASE fetches' = fetches \ {f} /\ view # "audit"
    BY <1>1, <1>7, LoadGone DEF ShowState
  <1>8. CASE fetches' = fetches \ {f} /\ view = "audit"
    <2>1. (\A h \in fetches : h.kind = "replace" => h.cursor = 0)'
      BY <1>8 DEF ListInv
    <2>2. \A h \in fetches' : ~(h.alone /\ ForList(h.kind))
      <3> SUFFICES ASSUME NEW h \in fetches', h.alone, ForList(h.kind) PROVE FALSE
        OBVIOUS
      <3>1. h \in fetches /\ h # f /\ ForList(f.kind)
        BY <1>8 DEF ForList
      <3> QED BY <3>1 DEF ListInv, NoneBeside
    <2>3. (\A h \in fetches : h.alone /\ ForList(h.kind) => NoneBeside(h) /\ Fetched(h))'
      BY <1>4, <2>2
    <2>4. (coherent => Current(answers.last))'
      <3>1. answers'.last = Unfiltered /\ coherent' = (f.alone /\ filter.class = AnyClass)
        BY <1>1, <1>8 DEF ShowState
      <3> SUFFICES ASSUME filter.class = AnyClass
                   PROVE  Current(answers.last)'
        BY <3>1
      <3>2. Query(filter)' = [class |-> AnyClass, since |-> 0]
        BY <1>1, <1>8 DEF Query, AuditQuery, view
      <3> QED BY <3>1, <3>2 DEF Current, Unfiltered
    <2> QED BY <1>3, <1>6, <2>1, <2>3, <2>4 DEF ListInv
  <1>9. CASE fetches' = Sent(fetches \ {f}, "replace", 0, Query(filter), token)
    <2>1. PICK q \in Queries : /\ q = Query(filter') /\ Current(q)'
                               /\ view = "audit" => q.since = 0
      BY <1>1, QueryIsCurrent
    <2>2. fetches' = Sent(fetches \ {f}, "replace", 0, q, token)
      BY <1>1, <1>9, <2>1
    <2>3. /\ fetches \ {f} \in SUBSET fetches /\ "replace" \in ListKinds /\ 0 \in Nat
          /\ \A g \in fetches \ {f} : g.kind = "replace" => g.cursor = 0
      BY DEF ListKinds, ListInv
    <2>4. PICK kind \in ListKinds, cursor \in Nat : kind = "replace" /\ cursor = 0
      BY <2>3
    <2>5. ~(kind = "append") /\ (kind = "replace" => cursor = 0)
      BY <2>4
    <2>6. /\ (\A h \in fetches : h.kind = "replace" => h.cursor = 0)'
          /\ (\A h \in fetches :
                h.alone /\ ForList(h.kind) => NoneBeside(h) /\ Fetched(h))'
          /\ Settled' => kind = "append"
      BY <1>1, <2>1, <2>2, <2>3, <2>4, <2>5, SendsPage
    <2>7. ~Settled'
      BY <2>5, <2>6
    <2> QED BY <1>3, <1>6, <2>6, <2>7 DEF ListInv
  <1> QED BY <1>5, <1>7, <1>8, <1>9

LEMMA FailLoadList ==
  ASSUME TypeInv, ListInv, NEW f \in fetches, FailLoad(f)
  PROVE  ListInv'
  BY LoadGone DEF FailLoad, server

-----------------------------------------------------------------------------
LEMMA InitList == Init => ListInv
  <1> SUFFICES ASSUME Init PROVE ListInv
    OBVIOUS
  <1>1. InOrder
    <2>1. log = <<>> /\ 1 .. Len(log) = {}
      BY DEF Init
    <2> QED BY <2>1 DEF InOrder
  <1>2. ~coherent
    BY DEF Init
  <1>3. \A f \in fetches : /\ f.kind = "init" /\ f.phase = "sent"
                           /\ \A g \in fetches : g = f
    <2>1. CASE token = NoToken
      BY <2>1 DEF Init
    <2>2. CASE token # NoToken
      <3> DEFINE r == Request(1, "init", 0, Unfiltered, token)
      <3>1. fetches = {r}
        BY <2>2 DEF Init
      <3>2. r.kind = "init" /\ r.phase = "sent"
        BY DEF Request
      <3> HIDE DEF r
      <3> QED BY <3>1, <3>2
    <2> QED BY <2>1, <2>2
  <1>4. \A f \in fetches : NoneBeside(f) /\ Fetched(f) /\ f.kind # "replace"
    BY <1>2, <1>3 DEF NoneBeside, Fetched, NextPage, FirstPageOf, ListKinds, Loads
  <1> QED BY <1>1, <1>2, <1>4 DEF ListInv

LEMMA NextList == TypeInv /\ TypeInv' /\ ListInv /\ [Next]_vars => ListInv'
  <1> SUFFICES ASSUME TypeInv, TypeInv', ListInv, [Next]_vars
               PROVE  ListInv'
    OBVIOUS
  <1>1. CASE Tick
    <2>1. /\ UNCHANGED <<list, setting, filter, fetches, log, recorded>>
          /\ now' = now + 1
      BY <1>1 DEF Tick
    <2>2. InOrder'
      <3>1. \A i \in 1 .. Len(log) : log[i].at <= now'
        <4>1. now \in Nat /\ \A i \in 1 .. Len(log) : log[i] \in Entries(recorded)
          <5>1. log \in Seq(Entries(recorded)) /\ now \in Nat
            BY DEF TypeInv, ServerTypes
          <5>2. DOMAIN log = 1 .. Len(log)
            BY <5>1, ElementTypes
          <5> QED BY <5>1, <5>2, ElementTypes
        <4>2. \A i \in 1 .. Len(log) : log[i].at \in Nat /\ log[i].at <= now
          BY <4>1 DEF Entries, ListInv, InOrder
        <4> QED BY <2>1, <4>1, <4>2
      <3> QED BY <2>1, <3>1 DEF ListInv, InOrder
    <2> QED BY <2>1, <2>2, SameLog, QuietStep
  <1>2. CASE \E c \in Classes : Record(c)
    <2>1. PICK c \in Classes : Record(c)
      BY <1>2
    <2>2. LogKept /\ InOrder'
      BY <2>1, RecordKeepsLog, RecordInOrder DEF ListInv
    <2>3. UNCHANGED <<list, setting, filter, fetches, now>>
      BY <2>1 DEF Record
    <2> QED BY <2>2, <2>3, QuietStep
  <1>3. CASE \E f \in fetches : Serve(f) \/ Lose(f) \/ Apply(f)
    <2>1. PICK f \in fetches : Serve(f) \/ Lose(f) \/ Apply(f)
      BY <1>3
    <2>2. CASE Serve(f) \/ Lose(f)
      BY <2>2, ServeList
    <2>3. CASE Apply(f)
      BY <2>3, ApplyListList, ApplyLoadList, FailLoadList DEF Apply
    <2> QED BY <2>1, <2>2, <2>3
  <1>4. CASE \/ ClickRefresh \/ EnterTarget \/ LoadMore
             \/ \E c \in Choices : ChooseClass(c)
             \/ \E r \in {"all", "1h"} : ChooseRange(r)
             \/ \E r \in setting.routes : Navigate(r)
    BY <1>4, ListPageList
  <1>5. CASE (\E t \in Tokens : Submit(t)) \/ Reload \/ LogOut
    BY <1>5, SignInList
  <1>6. CASE UNCHANGED vars
    <2>1. UNCHANGED <<list, setting, filter, fetches, log, recorded, now>>
      BY <1>6 DEF vars, server
    <2>2. InOrder'
      BY <2>1 DEF ListInv, InOrder
    <2> QED BY <2>1, <2>2, SameLog, QuietStep
  <1> QED BY <1>1, <1>2, <1>3, <1>4, <1>5, <1>6 DEF Next

LEMMA ListHolds == Spec => [](TypeInv /\ ListInv)
  <1>1. TypeInv /\ ListInv /\ [Next]_vars => (TypeInv /\ ListInv)'
    BY NextTypes, NextList
  <1> QED BY TypesInit, InitList, <1>1, PTL DEF Spec

-----------------------------------------------------------------------------
(* The rows before the last refresh: a refresh that appends is sent on the  *)
(* audit page only, as a further page never starts at the beginning.        *)

PageGoesOn(pg) == pg.hasMore => pg.next > 0

FetchRows(f) ==
  /\ f.kind = "append" /\ f.cursor = 0 => view = "audit"
  /\ PageGoesOn(f.page)

RowsInv ==
  /\ AllRows
  /\ PageGoesOn(page)
  /\ \A f \in fetches : FetchRows(f)

LEMMA InfoGoesOn ==
  ASSUME NEW found, NEW offset \in Nat
  PROVE  PageGoesOn(PageInfo(found, offset))
  <1>1. PageSize \in Nat \ {0}
    BY ConsoleAssumption
  <1> QED BY <1>1 DEF PageGoesOn, PageInfo, LastPage

LEMMA NoPageGoesOn == PageGoesOn(NoPage)
  BY DEF PageGoesOn, NoPage

LEMMA RowsSent ==
  ASSUME TypeInv, RowsInv, UNCHANGED setting, NEW others \in SUBSET fetches,
         NEW kind, NEW cursor, NEW query, NEW tok,
         fetches' = Sent(others, kind, cursor, query, tok),
         kind = "append" /\ cursor = 0 => view = "audit"
  PROVE  (\A f \in fetches : FetchRows(f))'
  <1>1. fetches' = {AfterSending(g, kind) : g \in others}
                     \cup {NewFetch(others, kind, cursor, query, tok)}
    BY SentIs
  <1>2. view' = view
    BY DEF view
  <1>3. ASSUME NEW g \in others, NEW h, h = AfterSending(g, kind)
        PROVE  FetchRows(h)'
    <2>1. IsFetch(g) /\ FetchRows(g)
      BY FetchRecordIsFetch DEF TypeInv, RowsInv
    <2>3. h.kind = g.kind /\ h.cursor = g.cursor /\ h.page = g.page
      BY <1>3, <2>1, AfterSendingFields
    <2> QED BY <1>2, <2>1, <2>3 DEF FetchRows, PageGoesOn
  <1>4. ASSUME NEW h, h = NewFetch(others, kind, cursor, query, tok)
        PROVE  FetchRows(h)'
    <2>2. h.kind = kind /\ h.cursor = cursor /\ h.page = NoPage
      BY <1>4, NewFetchFields
    <2> QED BY <1>2, <2>2, NoPageGoesOn DEF FetchRows
  <1> QED BY <1>1, <1>3, <1>4

LEMMA RowsServed ==
  ASSUME TypeInv, RowsInv, NEW f \in fetches, Serve(f) \/ Lose(f)
  PROVE  RowsInv'
  <1>1. IsFetch(f) /\ f.cursor \in Nat /\ FetchRows(f)
    BY FetchRecordIsFetch DEF TypeInv, FetchRecords, RowsInv
  <1>2. PICK g : /\ Step(f, g) /\ g.kind = f.kind /\ g.cursor = f.cursor
                 /\ PageGoesOn(g.page)
    <2>1. CASE Refuse(f) \/ Lose(f)
      <3>1. Step(f, [f EXCEPT !.phase = "failed"])
        BY <2>1 DEF Refuse, Lose
      <3> QED BY <1>1, <3>1 DEF IsFetch, FetchRows
    <2>2. CASE ReadPage(f)
      <3> DEFINE its  == PageItems(Window(f.query, f.cursor))
                 info == PageInfo(Window(f.query, f.cursor), f.cursor)
                 g    == [f EXCEPT !.phase = "answered", !.items = its,
                                   !.page = info, !.asOf = recorded]
      <3>1. Step(f, g)
        BY <2>2 DEF ReadPage
      <3>2. PageGoesOn(info)
        BY <1>1, InfoGoesOn
      <3> HIDE DEF its, info
      <3>3. g.kind = f.kind /\ g.cursor = f.cursor /\ g.page = info
        BY <1>1 DEF IsFetch
      <3> QED BY <3>1, <3>2, <3>3
    <2>3. CASE ReadState(f)
      <3> DEFINE top == IF view = "audit" THEN Slice(log, 1, StateSize) ELSE <<>>
                 g   == [f EXCEPT !.phase = "answered", !.items = top,
                                  !.asOf = recorded]
      <3>1. Step(f, g)
        BY <2>3 DEF ReadState
      <3> HIDE DEF top
      <3>2. g.kind = f.kind /\ g.cursor = f.cursor /\ g.page = f.page
        BY <1>1 DEF IsFetch
      <3> QED BY <1>1, <3>1, <3>2 DEF FetchRows
    <2> QED BY <2>1, <2>2, <2>3 DEF Serve
  <1>3. UNCHANGED <<older, page, setting>> /\ fetches' = (fetches \ {f}) \cup {g}
    BY <1>2 DEF Step, list, server
  <1> QED BY <1>1, <1>2, <1>3 DEF RowsInv, AllRows, FetchRows, PageGoesOn, view

LEMMA RowsApplied ==
  ASSUME TypeInv, RowsInv, NEW f \in fetches, Apply(f)
  PROVE  RowsInv'
  <1>1. UNCHANGED setting /\ view' = view /\ FetchRows(f)
    BY DEF Apply, ApplyList, ApplyLoad, FailLoad, server, view, RowsInv
  <1>2. CASE ApplyList(f)
    <2>1. fetches' = fetches \ {f}
      BY <1>2 DEF ApplyList
    <2>2. AllRows' /\ PageGoesOn(page')
      BY <1>1, <1>2 DEF ApplyList, Show, ShowBelow, ShowMore, KeepList, Begin,
                        RowsInv, AllRows, FetchRows, PageGoesOn
    <2> QED BY <1>1, <2>1, <2>2 DEF RowsInv, FetchRows, PageGoesOn
  <1>3. CASE ApplyLoad(f)
    <2>1. AllRows' /\ PageGoesOn(page')
      BY <1>1, <1>3, NoPageGoesOn DEF ApplyLoad, ShowState, list, RowsInv, AllRows,
                                      PageGoesOn
    <2>2. \/ fetches' = fetches \ {f}
          \/ fetches' = Sent(fetches \ {f}, "replace", 0, Query(filter), token)
      BY <1>3 DEF ApplyLoad
    <2>3. CASE fetches' = fetches \ {f}
      BY <1>1, <2>1, <2>3 DEF RowsInv, FetchRows, PageGoesOn
    <2>4. CASE fetches' = Sent(fetches \ {f}, "replace", 0, Query(filter), token)
      <3>1. PICK kind, cursor, query : /\ kind = "replace" /\ cursor = 0
                                       /\ query = Query(filter)
        OBVIOUS
      <3>2. fetches' = Sent(fetches \ {f}, kind, cursor, query, token)
        BY <2>4, <3>1
      <3>3. fetches \ {f} \in SUBSET fetches /\ kind # "append"
        BY <3>1
      <3>4. (\A g \in fetches : FetchRows(g))'
        BY <1>1, <3>2, <3>3, RowsSent
      <3> QED BY <2>1, <3>4 DEF RowsInv, PageGoesOn
    <2> QED BY <2>2, <2>3, <2>4
  <1>4. CASE FailLoad(f)
    <2>1. UNCHANGED <<older, page>> /\ fetches' = fetches \ {f}
      BY <1>4 DEF FailLoad, list
    <2> QED BY <1>1, <2>1 DEF RowsInv, AllRows, FetchRows, PageGoesOn
  <1> QED BY <1>2, <1>3, <1>4 DEF Apply

\* What the user asks for: nothing, or a fetch.
LEMMA RowsAsked ==
  ASSUME TypeInv, RowsInv,
         \/ ClickRefresh \/ EnterTarget \/ LoadMore
         \/ \E c \in Choices : ChooseClass(c)
         \/ \E r \in {"all", "1h"} : ChooseRange(r)
         \/ \E r \in setting.routes : Navigate(r)
         \/ \E t \in Tokens : Submit(t)
         \/ Reload \/ LogOut
  PROVE  RowsInv'
  <1>1. UNCHANGED <<older, page, setting>> /\ view' = view
    BY DEF ClickRefresh, EnterTarget, LoadMore, ChooseClass, ChooseRange, Navigate, Submit,
           Reload, LogOut, Load, list, server, view
  <1>2. \/ UNCHANGED fetches
        \/ \E kind, cursor, query, tok :
              /\ fetches' = Sent(fetches, kind, cursor, query, tok)
              /\ kind = "append" /\ cursor = 0 => view = "audit"
    <2>1. CASE ClickRefresh \/ (\E c \in Choices : ChooseClass(c))
                 \/ (\E r \in {"all", "1h"} : ChooseRange(r))
      BY <2>1 DEF ClickRefresh, ChooseClass, ChooseRange, Refresh, ReadList
    <2>2. CASE LoadMore
      <3>1. page.next > 0
        BY <2>2 DEF LoadMore, RowsInv, PageGoesOn
      <3>2. page.next # 0
        BY <3>1 DEF TypeInv, PageTypes, Pages
      <3> QED BY <2>2, <3>2 DEF LoadMore, ReadList
    <2>3. CASE EnterTarget \/ (\E r \in setting.routes : Navigate(r))
      BY <2>3 DEF EnterTarget, Navigate, ReadList
    <2>4. CASE (\E t \in Tokens : Submit(t)) \/ Reload \/ LogOut
      BY <2>4 DEF Submit, Reload, LogOut, Load
    <2> QED BY <2>1, <2>2, <2>3, <2>4
  <1>3. CASE UNCHANGED fetches
    BY <1>1, <1>3 DEF RowsInv, AllRows, FetchRows, PageGoesOn
  <1>4. CASE \E kind, cursor, query, tok :
              /\ fetches' = Sent(fetches, kind, cursor, query, tok)
              /\ kind = "append" /\ cursor = 0 => view = "audit"
    <2>1. PICK kind, cursor, query, tok :
              /\ fetches' = Sent(fetches, kind, cursor, query, tok)
              /\ kind = "append" /\ cursor = 0 => view = "audit"
      BY <1>4
    <2>2. fetches \in SUBSET fetches
      OBVIOUS
    <2>3. (\A g \in fetches : FetchRows(g))'
      BY <1>1, <2>1, <2>2, RowsSent
    <2> QED BY <1>1, <2>3 DEF RowsInv, AllRows, PageGoesOn
  <1> QED BY <1>2, <1>3, <1>4

LEMMA RowsHold == Spec => []RowsInv
  <1>1. Init => RowsInv
    <2> SUFFICES ASSUME Init PROVE RowsInv
      OBVIOUS
    <2>1. AllRows /\ PageGoesOn(page)
      BY NoPageGoesOn DEF Init, AllRows
    <2>2. \A f \in fetches : FetchRows(f)
      BY NoPageGoesOn DEF Init, Request, FetchRows
    <2> QED BY <2>1, <2>2 DEF RowsInv
  <1>2. TypeInv /\ RowsInv /\ [Next]_vars => RowsInv'
    <2> SUFFICES ASSUME TypeInv, RowsInv, [Next]_vars
                 PROVE  RowsInv'
      OBVIOUS
    <2>1. CASE Tick \/ (\E c \in Classes : Record(c)) \/ UNCHANGED vars
      <3>1. UNCHANGED <<older, page, setting, fetches>>
        BY <2>1 DEF Tick, Record, vars, list, server
      <3> QED BY <3>1 DEF RowsInv, AllRows, FetchRows, PageGoesOn, view
    <2>2. CASE \E f \in fetches : Serve(f) \/ Lose(f) \/ Apply(f)
      BY <2>2, RowsServed, RowsApplied
    <2>3. CASE \/ ClickRefresh \/ EnterTarget \/ LoadMore
               \/ \E c \in Choices : ChooseClass(c)
               \/ \E r \in {"all", "1h"} : ChooseRange(r)
               \/ \E r \in setting.routes : Navigate(r)
               \/ \E t \in Tokens : Submit(t)
               \/ Reload \/ LogOut
      BY <2>3, RowsAsked
    <2> QED BY <2>1, <2>2, <2>3 DEF Next
  <1> QED BY <1>1, <1>2, ListHolds, PTL DEF Spec

-----------------------------------------------------------------------------
\* Shown, the entries of the list, and what the invariant calls them.
LEMMA ShownIs == TypeInv => Shown = Elements(items)
  <1> SUFFICES ASSUME TypeInv PROVE Shown = Elements(items)
    OBVIOUS
  <1>1. items \in Seq(Entries(recorded))
    BY DEF TypeInv, PageTypes
  <1>2. DOMAIN items = 1 .. Len(items)
    BY <1>1, ElementTypes
  <1> QED BY <1>2 DEF Shown, Elements

\* The pages loaded one after the other leave nothing out.
THEOREM PagesComplete == Spec => []NoneSkipped
  <1>1. TypeInv /\ ListInv => NoneSkipped
    BY ShownIs DEF NoneSkipped, ListInv, ListOK, Complete
  <1> QED BY ListHolds, <1>1, PTL

\* A list that offers no further page shows all there was.
THEOREM EndComplete == Spec => []EndIsEnd
  <1>1. TypeInv /\ ListInv => EndIsEnd
    BY ShownIs DEF EndIsEnd, ListInv, ListOK, AtTheEnd
  <1> QED BY ListHolds, <1>1, PTL

\* No more repetitions than new entries among what a refresh and the pages since
\* have brought, and no rows from before off the audit page.
THEOREM FewRepetitions == Spec => []RepeatsBounded
  <1>1. TypeInv /\ ListInv /\ RowsInv => RepeatsBounded
    BY ShownIs DEF RepeatsBounded, ListInv, ListOK, FewRepeated, RowsInv
  <1> QED BY ListHolds, RowsHold, <1>1, PTL

\* At rest what a refresh and the pages since have brought is what was chosen,
\* and no row is left from before off the audit page.
THEOREM FilterShown == Spec => []ShownMatchesFilter
  <1>1. TypeInv /\ ListInv /\ RowsInv => ShownMatchesFilter
    <2> SUFFICES ASSUME TypeInv, ListInv, RowsInv, coherent, Quiet, NEW e \in Shown
                 PROVE  /\ filter.class \in {AnyClass, e.class}
                        /\ storage = "memory" => e.at >= answers.first.since
      BY DEF ShownMatchesFilter, RowsInv
    <2>1. Settled
      BY DEF Quiet, Settled, ForList
    <2>2. Current(answers.last) /\ Consistent(items, answers)
      BY <2>1 DEF ListInv, ListOK
    <2>3. Query(filter).class = filter.class
      BY DEF Query, RequestsQuery, HealthQuery, AuditQuery
    <2>4. /\ Matches(e, answers.first) /\ answers.first.class = filter.class
          /\ view = "audit" => answers.first.since = 0
      BY <2>2, <2>3, ShownIs DEF Consistent, Current
    <2>5. OfClass(e, answers.first)
      BY <2>4 DEF Matches, RowMatches, UsageMatches, HealthMatches, AuditMatches
    <2>6. filter.class \in {AnyClass, e.class}
      BY <2>4, <2>5 DEF OfClass
    <2>7. e.at \in Nat
      <3>1. items \in Seq(Entries(recorded))
        BY DEF TypeInv, PageTypes
      <3>2. e \in Entries(recorded)
        BY <3>1, ShownIs, ElementsFinite
      <3> QED BY <3>2 DEF Entries
    <2>8. view \in {"requests", "health", "audit"}
      BY ConsoleAssumption DEF TypeInv, ServerTypes, view
    <2>9. storage = "memory" => e.at >= answers.first.since
      BY <2>4, <2>7, <2>8 DEF Matches, UsageMatches, HealthMatches
    <2> QED BY <2>6, <2>9
  <1> QED BY ListHolds, RowsHold, <1>1, PTL

=============================================================================
