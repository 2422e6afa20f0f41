--------------------------- MODULE RoomClient_proofs ---------------------------
(***************************************************************************)
(* One tab's refreshes are never taken for a theft, a command reaches one   *)
(* WebSocket once, its types are right and a confident clock is fresh and   *)
(* near the truth, for any number of sockets, commands, sign-ins, faults    *)
(* and probes.                                                              *)
(***************************************************************************)
EXTENDS RoomClient, FiniteSetTheorems, TLAPS

RowType == [family : 1 .. MaxFamilies, spent : BOOLEAN, revoked : BOOLEAN]
CallStates == [Callers -> {"none", "asked", "bare", "waiting", "again", "refreshing",
                           "failed"}]
FormStates == [kind : {"none", "guest", "logout", "rename", "create"},
               cookie : 0 .. Len(rows)]
Flights == {"sent", "consumed", "granted", "refused"}
RefreshType(n) == [cookie : 0 .. n, row : 0 .. n, st : Flights]

USE DEF CallStates, FormStates

(* A token that would not be taken for a replay.                            *)
Unspent(k) == k \in Standing => ~rows[k].spent

(* The refreshes in flight: one at most, of a token the server knows, with   *)
(* the row it was given once it was.                                        *)
Single ==
  /\ Len(refreshes) <= 1
  /\ \A i \in 1 .. Len(refreshes) :
       /\ refreshes[i].st = "consumed" => refreshes[i].cookie # 0
       /\ refreshes[i].st = "granted" => refreshes[i].row # 0

(* Every token belongs to a family there is.                                *)
Rooted == \A k \in 1 .. Len(rows) : rows[k].family <= Len(kinds)

(* The refresh in flight has spent the cookie in the jar.                   *)
Spending == \E i \in 1 .. Len(refreshes) :
  refreshes[i].cookie = cookie /\ refreshes[i].st \in {"consumed", "granted"}

(* While every answer arrived, what the page holds or has sent is unspent,   *)
(* but for what its own refresh is spending.                                *)
Honest ==
  /\ ~reused
  /\ Unspent(cookie) \/ Spending
  /\ \A i \in 1 .. Len(refreshes) :
       /\ refreshes[i].st = "sent" => Unspent(refreshes[i].cookie)
       /\ refreshes[i].st = "granted" => Unspent(refreshes[i].row)

SessionInv == SessionTypeOK /\ Single /\ Rooted /\ (strayed \/ Honest)

(* The page's own two callers and every socket have a call of their own.     *)
LEMMA CallerNames == Boot \in Callers /\ Form \in Callers /\ 1 .. MaxSockets \subseteq Callers
  BY SessionBoundsAssumption DEF SessionBoundsAssumption, Boot, Form, Callers

(* The three ways the list of refreshes changes.                            *)
LEMMA OneLeft ==
  ASSUME NEW S, NEW s \in Seq(S), Len(s) <= 1, NEW i \in 1 .. Len(s)
  PROVE  RemoveAt(s, i) = <<>>
  <1>1. \A n \in Nat : \A j \in 1 .. n : n <= 1 => j = 1 /\ n = 1
    OBVIOUS
  <1>3. i = 1 /\ Len(s) = 1
    <2>1. Len(s) \in Nat
      OBVIOUS
    <2> QED
      BY <1>1, <2>1, Zenon
  <1>2. RemoveAt(s, 1) \in Seq(S) /\ Len(RemoveAt(s, 1)) = 0
    BY <1>3 DEF RemoveAt
  <1> QED
    BY <1>2, <1>3

(* With nothing in flight, asking for a refresh leaves exactly one.          *)
LEMMA OneSent ==
  ASSUME SessionTypeOK
  PROVE  LET r == <<[cookie |-> cookie, st |-> "sent", row |-> 0]>>
         IN  r \in Seq(RefreshType(Len(rows))) /\ Len(r) = 1
  BY DEF SessionTypeOK, RefreshType, Flights

(* A page that asks for a refresh adds one only if there is none.           *)
LEMMA AskingRefreshes ==
  ASSUME SessionInv, refreshes' = Refreshing, 
         UNCHANGED <<cookie, kinds, rows, reused, strayed>>
  PROVE  /\ refreshes' \in Seq(RefreshType(Len(rows)))
         /\ Single' /\ Rooted' /\ (strayed \/ Honest)'
  <1>1. CASE refreshes # <<>>
    BY <1>1 DEF Refreshing, SessionInv, SessionTypeOK, Single, Rooted, Honest, Unspent,
                Spending, Standing, RefreshType, Flights
  <1>2. CASE refreshes = <<>>
    <2>1. refreshes' = <<[cookie |-> cookie, st |-> "sent", row |-> 0]>>
      BY <1>2 DEF Refreshing
    <2>2. refreshes' \in Seq(RefreshType(Len(rows))) /\ Len(refreshes') = 1
          /\ refreshes'[1] = [cookie |-> cookie, st |-> "sent", row |-> 0]
      BY <2>1, OneSent DEF SessionInv
    <2>3. strayed \/ Unspent(cookie)
      BY <1>2 DEF SessionInv, Honest, Spending
    <2> QED
      BY <2>2, <2>3 DEF SessionInv, Single, Rooted, Honest, Unspent, Standing
  <1> QED
    BY <1>1, <1>2

(* A step that leaves tokens and refreshes alone keeps what is said of them. *)
LEMMA Aside ==
  ASSUME SessionInv, UNCHANGED <<refreshes, cookie, kinds, rows, reused, strayed>>
  PROVE  Single' /\ Rooted' /\ (strayed \/ Honest)'
  BY DEF SessionInv, Single, Rooted, Honest, Unspent, Spending, Standing

(* A call moved to a known state leaves the table of calls typed.            *)
LEMMA CallSet ==
  ASSUME SessionTypeOK, NEW c \in Callers,
         \E p \in {"none", "asked", "bare", "waiting", "again", "refreshing", "failed"} :
           call' = [call EXCEPT ![c] = p]
  PROVE  call' \in CallStates
  BY DEF SessionTypeOK

(* So does asking again after a refresh.                                     *)
LEMMA AskingSet ==
  ASSUME SessionTypeOK, NEW c \in Callers, call' = Asking(call, c)
  PROVE  call' \in CallStates
  BY DEF SessionTypeOK, Asking

(* api.ts: a 401 asks for a refresh only when none is in flight.             *)
LEMMA UnauthorizedStep ==
  ASSUME SessionInv, NEW c \in Callers, Unauthorized(c)
  PROVE  SessionInv'
  <1>1. /\ refreshes' \in Seq(RefreshType(Len(rows)))
        /\ Single' /\ Rooted' /\ (strayed \/ Honest)'
    BY AskingRefreshes DEF Unauthorized, tabVars, serverVars, worldVars
  <1>2. call' \in CallStates
    BY CallSet DEF Unauthorized, SessionInv
  <1> QED
    BY <1>1, <1>2 DEF SessionInv, SessionTypeOK, Unauthorized, tabVars, serverVars,
                      worldVars, RefreshType, Flights

(* A request that fails touches no token.                                    *)
LEMMA FailsStep ==
  ASSUME SessionInv, NEW c \in Callers, Fails(c)
  PROVE  SessionInv'
  <1>1. Single' /\ Rooted' /\ (strayed \/ Honest)'
    BY Aside DEF Fails, tabVars, serverVars
  <1>2. call' \in CallStates
    BY CallSet DEF Fails, SessionInv
  <1> QED
    BY <1>1, <1>2, SessionBoundsAssumption
    DEF SessionBoundsAssumption, SessionInv, SessionTypeOK, Fails, tabVars, serverVars

(* An access token that ages touches no refresh token.                       *)
LEMMA ExpiresStep ==
  ASSUME SessionInv, Expires
  PROVE  SessionInv'
  <1>1. Single' /\ Rooted' /\ (strayed \/ Honest)'
    BY Aside DEF Expires, tabVars, serverVars
  <1> QED
    BY <1>1, SessionBoundsAssumption
    DEF SessionBoundsAssumption, SessionInv, SessionTypeOK, Expires, serverVars

(* session-provider.tsx: the silent refresh joins the one in flight.         *)
LEMMA TimerStep ==
  ASSUME SessionInv, TimerFires
  PROVE  SessionInv'
  <1>1. /\ refreshes' \in Seq(RefreshType(Len(rows)))
        /\ Single' /\ Rooted' /\ (strayed \/ Honest)'
    BY AskingRefreshes DEF TimerFires, serverVars
  <1>2. ages' \in 0 .. MaxAges
    BY SessionBoundsAssumption
    DEF SessionBoundsAssumption, SessionInv, SessionTypeOK, TimerFires
  <1>3. UNCHANGED <<who, token, expired, sender, call, form, cookie, strayed, late, faults,
                    kinds, rows, reused>> /\ timer' \in BOOLEAN
    BY DEF TimerFires, serverVars
  <1> QED
    BY <1>1, <1>2, <1>3 DEF SessionInv, SessionTypeOK, RefreshType, Flights

(* With one refresh in flight its bounds go.                                 *)
LEMMA Only ==
  ASSUME SessionInv, NEW i \in DOMAIN refreshes
  PROVE  /\ refreshes \in Seq(RefreshType(Len(rows))) /\ Len(rows) \in Nat
         /\ i = 1 /\ Len(refreshes) = 1 /\ refreshes[1] \in RefreshType(Len(rows))
         /\ refreshes[1].cookie \in 0 .. Len(rows) /\ refreshes[1].row \in 0 .. Len(rows)
         /\ refreshes[1].st \in Flights
  <1>1. /\ refreshes \in Seq(RefreshType(Len(rows))) /\ Len(refreshes) <= 1
        /\ rows \in Seq(RowType)
    BY DEF SessionInv, SessionTypeOK, Single, RefreshType, Flights, RowType
  <1>2. Len(refreshes) \in Nat /\ Len(rows) \in Nat /\ i \in 1 .. Len(refreshes)
    BY <1>1
  <1>3. \A n \in Nat : \A j \in 1 .. n : n <= 1 => j = 1 /\ n = 1
    OBVIOUS
  <1>4. i = 1 /\ Len(refreshes) = 1
    BY <1>1, <1>2, <1>3, Zenon
  <1>5. refreshes[1] \in RefreshType(Len(rows))
    BY <1>1, <1>4
  <1> QED
    BY <1>1, <1>2, <1>4, <1>5 DEF RefreshType

(* A list of one with its element replaced is a list of one.                 *)
LEMMA OneReplaced ==
  ASSUME NEW S, NEW s \in Seq(S), Len(s) = 1, NEW e \in S
  PROVE  /\ [s EXCEPT ![1] = e] \in Seq(S) /\ Len([s EXCEPT ![1] = e]) = 1
         /\ [s EXCEPT ![1] = e][1] = e
  OBVIOUS

(* What honesty asks when there is one refresh in flight.                    *)
LEMMA HonestOne ==
  ASSUME Len(refreshes) = 1
  PROVE  /\ Spending <=> /\ refreshes[1].cookie = cookie
                         /\ refreshes[1].st \in {"consumed", "granted"}
         /\ Honest <=> /\ ~reused
                       /\ Unspent(cookie) \/ Spending
                       /\ refreshes[1].st = "sent" => Unspent(refreshes[1].cookie)
                       /\ refreshes[1].st = "granted" => Unspent(refreshes[1].row)
         /\ Single <=> /\ refreshes[1].st = "consumed" => refreshes[1].cookie # 0
                       /\ refreshes[1].st = "granted" => refreshes[1].row # 0
  <1>1. \A i : i \in 1 .. Len(refreshes) <=> i = 1
    OBVIOUS
  <1> QED
    BY <1>1 DEF Spending, Honest, Single

(* The same, of the next state.                                              *)
LEMMA HonestNext ==
  ASSUME Len(refreshes') = 1
  PROVE  /\ Spending' <=> /\ refreshes'[1].cookie = cookie'
                          /\ refreshes'[1].st \in {"consumed", "granted"}
         /\ Honest' <=> /\ ~reused'
                        /\ Unspent(cookie)' \/ Spending'
                        /\ refreshes'[1].st = "sent" => Unspent(refreshes[1].cookie)'
                        /\ refreshes'[1].st = "granted" => Unspent(refreshes[1].row)'
         /\ Single' <=> /\ refreshes'[1].st = "consumed" => refreshes'[1].cookie # 0
                        /\ refreshes'[1].st = "granted" => refreshes'[1].row # 0
  <1>1. \A i : i \in 1 .. Len(refreshes') <=> i = 1
    OBVIOUS
  <1> QED
    BY <1>1 DEF Spending, Honest, Single

(* What the server tells a refresh changes its state alone.                  *)
LEMMA ToldList ==
  ASSUME SessionInv, NEW i \in DOMAIN refreshes, NEW st \in Flights, Told(i, st)
  PROVE  /\ Len(refreshes') = 1 /\ refreshes' \in Seq(RefreshType(Len(rows)))
         /\ refreshes'[1].st = st
         /\ refreshes'[1].cookie = refreshes[1].cookie
         /\ refreshes'[1].row = refreshes[1].row
  <1> DEFINE r == [refreshes[1] EXCEPT !.st = st]
  <1>3. /\ r \in RefreshType(Len(rows)) /\ r.st = st
        /\ r.cookie = refreshes[1].cookie /\ r.row = refreshes[1].row
    BY Only DEF RefreshType
  <1>4. refreshes' = [refreshes EXCEPT ![1] = r]
    BY Only DEF Told
  <1> HIDE DEF r
  <1>5. refreshes \in Seq(RefreshType(Len(rows))) /\ Len(refreshes) = 1
    BY Only
  <1>6. /\ refreshes' \in Seq(RefreshType(Len(rows))) /\ Len(refreshes') = 1
        /\ refreshes'[1] = r
    <2>1. r \in RefreshType(Len(rows))
      BY <1>3
    <2> HIDE DEF RefreshType
    <2> QED
      BY <2>1, <1>4, <1>5, OneReplaced
  <1> QED
    BY <1>3, <1>6

(* A refusal changes only what the refresh in flight is told.                *)
LEMMA RefusedStep ==
  ASSUME SessionInv, NEW i \in DOMAIN refreshes, RefreshRefused(i),
         UNCHANGED <<cookie, kinds, strayed>>
  PROVE  /\ refreshes' \in Seq(RefreshType(Len(rows)))
         /\ Single' /\ Rooted' /\ (strayed \/ Honest)'
  <1>1. Told(i, "refused") /\ UNCHANGED <<rows, reused>> /\ "refused" \in Flights
    BY DEF RefreshRefused, Flights
  <1>2. i = 1 /\ Len(refreshes) = 1
    BY Only
  <1>3. /\ Len(refreshes') = 1 /\ refreshes' \in Seq(RefreshType(Len(rows)))
        /\ refreshes'[1].st = "refused"
    BY <1>1, ToldList
  <1>4. refreshes[1].st = "sent"
    BY <1>2 DEF RefreshRefused
  <1>5. Single' /\ Rooted'
    BY <1>1, <1>3, HonestNext DEF SessionInv, Rooted
  <1>6. Honest => Honest'
    BY <1>1, <1>2, <1>3, <1>4, HonestOne, HonestNext DEF Unspent, Standing
  <1> QED
    BY <1>3, <1>5, <1>6 DEF SessionInv

(* Revoking a family spends nothing and keeps the rows typed.                *)
LEMMA RevokedRows ==
  ASSUME SessionInv, NEW f, rows' = Revoking(f)
  PROVE  /\ rows' \in Seq(RowType) /\ Len(rows') = Len(rows)
         /\ \A k \in 1 .. Len(rows) :
              /\ rows'[k].family = rows[k].family /\ rows'[k].spent = rows[k].spent
              /\ rows[k].revoked => rows'[k].revoked
  <1> DEFINE r(k) == [rows[k] EXCEPT !.revoked = TRUE]
             e(k) == IF rows[k].family = f THEN r(k) ELSE rows[k]
  <1>1. rows \in Seq(RowType) /\ Len(rows) \in Nat /\ DOMAIN rows = 1 .. Len(rows)
    BY DEF SessionInv, SessionTypeOK, RowType
  <1>2. \A k \in 1 .. Len(rows) : rows[k] \in RowType
    BY <1>1
  <1>3. \A k \in 1 .. Len(rows) : 
          /\ r(k) \in RowType /\ r(k).revoked
          /\ r(k).family = rows[k].family /\ r(k).spent = rows[k].spent
    BY <1>2 DEF RowType
  <1>4. rows' = [k \in 1 .. Len(rows) |-> e(k)]
    BY <1>1 DEF Revoking
  <1> HIDE DEF r
  <1>5. \A k \in 1 .. Len(rows) :
          /\ e(k) \in RowType /\ e(k).family = rows[k].family /\ e(k).spent = rows[k].spent
          /\ rows[k].revoked => e(k).revoked
    BY <1>2, <1>3
  <1> HIDE DEF e
  <1>6. rows' \in Seq(RowType) /\ Len(rows') = Len(rows)
    BY <1>1, <1>4, <1>5
  <1> QED
    BY <1>4, <1>5, <1>6

(* Reuse is seen only of a spent token, so only after straying.              *)
LEMMA ReuseStep ==
  ASSUME SessionInv, NEW i \in DOMAIN refreshes, ReuseDetected(i),
         UNCHANGED <<cookie, kinds, strayed>>
  PROVE  /\ refreshes' \in Seq(RefreshType(Len(rows')))
         /\ rows' \in Seq(RowType) /\ Len(rows') = Len(rows)
         /\ Single' /\ Rooted' /\ (strayed \/ Honest)'
  <1>1. Told(i, "refused") /\ "refused" \in Flights
    BY DEF ReuseDetected, Flights
  <1>2. i = 1 /\ Len(refreshes) = 1
    BY Only
  <1>3. ~Honest
    BY <1>2, HonestOne DEF ReuseDetected, Unspent
  <1>4. /\ Len(refreshes') = 1 /\ refreshes' \in Seq(RefreshType(Len(rows)))
        /\ refreshes'[1].st = "refused"
    BY <1>1, ToldList
  <1>5. rows' = Revoking(rows[refreshes[i].cookie].family)
    BY DEF ReuseDetected
  <1>6. /\ rows' \in Seq(RowType) /\ Len(rows') = Len(rows)
        /\ \A k \in 1 .. Len(rows) : rows'[k].family = rows[k].family
    BY <1>5, RevokedRows
  <1>7. Single' /\ Rooted'
    BY <1>4, <1>6, HonestNext DEF SessionInv, Rooted
  <1> QED
    BY <1>3, <1>4, <1>6, <1>7 DEF SessionInv

(* Spending the token in flight: the one token that may be spent.            *)
LEMMA ConsumedStep ==
  ASSUME SessionInv, NEW i \in DOMAIN refreshes, Consumed(i),
         UNCHANGED <<cookie, kinds, strayed>>
  PROVE  /\ refreshes' \in Seq(RefreshType(Len(rows')))
         /\ rows' \in Seq(RowType) /\ Len(rows') = Len(rows)
         /\ Single' /\ Rooted' /\ (strayed \/ Honest)'
  <1> DEFINE k == refreshes[1].cookie
             row == [rows[k] EXCEPT !.spent = TRUE]
  <1>1. Told(i, "consumed") /\ "consumed" \in Flights /\ UNCHANGED reused
    BY DEF Consumed, Flights
  <1>2. i = 1 /\ Len(refreshes) = 1
    BY Only
  <1>3. refreshes[1].st = "sent" /\ k \in Standing /\ rows' = [rows EXCEPT ![k] = row]
    BY <1>2 DEF Consumed
  <1>4. rows \in Seq(RowType) /\ k \in 1 .. Len(rows) /\ DOMAIN rows = 1 .. Len(rows)
    <2>1. rows \in Seq(RowType)
      BY DEF SessionInv, SessionTypeOK, RowType
    <2>2. DOMAIN rows = 1 .. Len(rows)
      BY <2>1
    <2>3. k \in DOMAIN rows
      BY <1>3 DEF Standing
    <2> QED
      BY <2>1, <2>2, <2>3
  <1>5. rows[k] \in RowType
    BY <1>4
  <1>6. row \in RowType /\ row.family = rows[k].family
    BY <1>5 DEF RowType
  <1>7. /\ Len(refreshes') = 1 /\ refreshes' \in Seq(RefreshType(Len(rows)))
        /\ refreshes'[1].st = "consumed" /\ refreshes'[1].cookie = k
    BY <1>1, ToldList
  <1> HIDE DEF k, row
  <1>8. /\ rows' \in Seq(RowType) /\ Len(rows') = Len(rows)
        /\ \A j \in 1 .. Len(rows) : rows'[j] = IF j = k THEN row ELSE rows[j]
    BY <1>3, <1>4, <1>6
  <1>9. Single'
    BY <1>4, <1>7, HonestNext
  <1>10. Rooted'
    BY <1>6, <1>8 DEF SessionInv, Rooted
  <1>11. ASSUME Honest PROVE Honest'
    <2>1. Unspent(cookie)
      BY <1>2, <1>3, <1>11, HonestOne
    <2>2. CASE cookie = k
      BY <2>2, <1>1, <1>7, <1>11, HonestNext DEF Honest
    <2>3. CASE cookie # k
      <3>1. Unspent(cookie)'
        BY <2>1, <2>3, <1>4, <1>8 DEF Unspent, Standing
      <3> QED
        BY <3>1, <1>1, <1>7, <1>11, HonestNext DEF Honest
    <2> QED
      BY <2>2, <2>3
  <1> QED
    BY <1>7, <1>8, <1>9, <1>10, <1>11 DEF SessionInv

(* A new row in an existing family keeps the rows typed.                     *)
LEMMA NewRow ==
  ASSUME SessionInv, NEW f \in 1 .. MaxFamilies, rows' = Append(rows, RowOf(f))
  PROVE  /\ rows' \in Seq(RowType) /\ Len(rows') = Len(rows) + 1
         /\ \A k \in 1 .. Len(rows) : rows'[k] = rows[k]
         /\ rows'[Len(rows) + 1] = RowOf(f)
  <1>1. rows \in Seq(RowType) /\ RowOf(f) \in RowType
    BY DEF SessionInv, SessionTypeOK, RowType, RowOf
  <1> QED
    BY <1>1

(* Whatever is unspent stays so when a row is added, and the new one is.     *)
LEMMA UnspentGrows ==
  ASSUME SessionInv, NEW f \in 1 .. MaxFamilies, rows' = Append(rows, RowOf(f))
  PROVE  /\ \A k \in 0 .. Len(rows) : Unspent(k) => (k \in Standing' => ~rows'[k].spent)
         /\ Len(rows) + 1 \in Standing' => ~rows'[Len(rows) + 1].spent
  <1>1. DOMAIN rows = 1 .. Len(rows) /\ DOMAIN rows' = 1 .. Len(rows')
    BY NewRow DEF SessionInv, SessionTypeOK
  <1>2. \A k \in 0 .. Len(rows) : k \in Standing' => k \in Standing /\ rows'[k] = rows[k]
    BY <1>1, NewRow DEF Standing
  <1>3. ~rows'[Len(rows) + 1].spent
    BY NewRow DEF RowOf
  <1> QED
    BY <1>2, <1>3 DEF Unspent

(* The row a rotation writes is unspent, and it is what is granted.          *)
LEMMA RotatedStep ==
  ASSUME SessionInv, NEW i \in DOMAIN refreshes, Rotated(i),
         UNCHANGED <<cookie, kinds, strayed>>
  PROVE  /\ refreshes' \in Seq(RefreshType(Len(rows')))
         /\ rows' \in Seq(RowType) /\ Len(rows') = Len(rows) + 1
         /\ Single' /\ Rooted' /\ (strayed \/ Honest)'
  <1> DEFINE k == refreshes[1].cookie
             r == [cookie |-> k, row |-> Len(rows) + 1, st |-> "granted"]
             f == rows[k].family
  <1>1. /\ refreshes \in Seq(RefreshType(Len(rows))) /\ Len(rows) \in Nat
        /\ i = 1 /\ Len(refreshes) = 1 /\ refreshes[1] \in RefreshType(Len(rows))
        /\ k \in 0 .. Len(rows)
    BY Only
  <1>2. refreshes[1].st = "consumed" /\ k \in 1 .. Len(rows)
    BY <1>1, HonestOne DEF Rotated, SessionInv
  <1>3. f \in 1 .. MaxFamilies /\ f <= Len(kinds)
    <2>1. rows \in Seq(RowType)
      BY DEF SessionInv, SessionTypeOK, RowType
    <2>2. rows[k] \in RowType
      BY <1>2, <2>1
    <2> QED
      BY <1>2, <2>2 DEF SessionInv, Rooted, RowType
  <1>4. rows' = Append(rows, RowOf(f)) /\ refreshes' = [refreshes EXCEPT ![1] = r]
        /\ UNCHANGED reused
    BY <1>1 DEF Rotated
  <1>5. /\ r \in RefreshType(Len(rows) + 1)
        /\ r.st = "granted" /\ r.cookie = k /\ r.row = Len(rows) + 1
    BY <1>1 DEF RefreshType, Flights
  <1>6. refreshes \in Seq(RefreshType(Len(rows) + 1))
    <2>1. RefreshType(Len(rows)) \subseteq RefreshType(Len(rows) + 1)
      BY <1>1 DEF RefreshType
    <2> HIDE DEF RefreshType
    <2> QED
      BY <2>1, <1>1
  <1> HIDE DEF r, k, f
  <1>7. /\ refreshes' \in Seq(RefreshType(Len(rows) + 1)) /\ Len(refreshes') = 1
        /\ refreshes'[1] = r
    BY <1>1, <1>4, <1>5, <1>6, OneReplaced, Zenon
  <1>8. Single'
    BY <1>1, <1>5, <1>7, HonestNext
  <1>9. Rooted'
    BY <1>1, <1>3, <1>4, NewRow DEF SessionInv, Rooted, RowOf
  <1>10. ASSUME Honest PROVE Honest'
    <2>1. Unspent(cookie)' \/ Spending'
      <3>1. CASE Spending
        BY <3>1, <1>1, <1>5, <1>7, HonestOne, HonestNext DEF k
      <3>2. CASE Unspent(cookie)
        <4>1. cookie \in 0 .. Len(rows)
          BY DEF SessionInv, SessionTypeOK
        <4> QED
          BY <4>1, <3>2, <1>3, <1>4, UnspentGrows DEF Unspent
      <3> QED
        BY <3>1, <3>2, <1>10 DEF Honest
    <2>2. Len(rows) + 1 \in Standing' => ~rows'[Len(rows) + 1].spent
      BY <1>3, <1>4, UnspentGrows
    <2>3. Unspent(refreshes[1].row)'
      BY <2>2, <1>5, <1>7 DEF Unspent
    <2> QED
      BY <2>1, <2>3, <1>4, <1>5, <1>7, <1>10, HonestNext DEF Honest
  <1> QED
    BY <1>3, <1>4, <1>7, <1>8, <1>9, <1>10, NewRow DEF SessionInv

(* Whatever the server does about a refresh keeps the session honest.        *)
LEMMA ServerStep ==
  ASSUME SessionInv, ServerRefreshes
  PROVE  SessionInv'
  <1>1. UNCHANGED <<cookie, kinds, strayed, late, call, form, who, token, expired, timer,
                    sender, faults, ages>>
    BY DEF ServerRefreshes, tabVars, worldVars
  <1>2. PICK i \in DOMAIN refreshes :
          RefreshRefused(i) \/ ReuseDetected(i) \/ Consumed(i) \/ Rotated(i)
    BY DEF ServerRefreshes
  <1>3. rows \in Seq(RowType) /\ Len(rows) \in Nat /\ reused \in BOOLEAN
    BY DEF SessionInv, SessionTypeOK, RowType
  <1>4. /\ refreshes' \in Seq(RefreshType(Len(rows'))) /\ rows' \in Seq(RowType)
        /\ Len(rows') \in {Len(rows), Len(rows) + 1} /\ reused' \in BOOLEAN
        /\ Single' /\ Rooted' /\ (strayed \/ Honest)'
    <2>1. CASE RefreshRefused(i)
      BY <2>1, <1>1, <1>3, RefusedStep DEF RefreshRefused
    <2>2. CASE ReuseDetected(i)
      BY <2>2, <1>1, ReuseStep DEF ReuseDetected
    <2>3. CASE Consumed(i)
      BY <2>3, <1>1, <1>3, ConsumedStep DEF Consumed
    <2>4. CASE Rotated(i)
      BY <2>4, <1>1, <1>3, RotatedStep DEF Rotated
    <2> QED
      BY <1>2, <2>1, <2>2, <2>3, <2>4
  <1>5. cookie' \in 0 .. Len(rows') /\ form' \in FormStates' /\ late' \subseteq 0 .. Len(rows')
    <2>1. 0 .. Len(rows) \subseteq 0 .. Len(rows')
      BY <1>3, <1>4
    <2>2. cookie \in 0 .. Len(rows) /\ form \in FormStates /\ late \subseteq 0 .. Len(rows)
      BY DEF SessionInv, SessionTypeOK
    <2> QED
      BY <1>1, <2>1, <2>2
  <1> QED
    BY <1>1, <1>4, <1>5 DEF SessionInv, SessionTypeOK, RefreshType, Flights, RowType

(* With no refresh in flight what is said of it is nothing.                  *)
LEMMA NoneLeft ==
  ASSUME SessionInv, NEW i \in DOMAIN refreshes, refreshes' = RemoveAt(refreshes, i)
  PROVE  refreshes' = <<>> /\ Single' /\ (Honest' <=> ~reused' /\ Unspent(cookie)')
  <1>1. refreshes' = <<>>
    <2>1. i = 1 /\ Len(refreshes) = 1 /\ refreshes \in Seq(RefreshType(Len(rows)))
      BY Only
    <2>2. Len(refreshes) <= 1 /\ i \in 1 .. Len(refreshes)
      BY <2>1
    <2> HIDE DEF RefreshType
    <2> QED
      BY <2>1, <2>2, OneLeft
  <1>2. Len(refreshes') = 0 /\ \A j : j \notin 1 .. Len(refreshes')
    BY <1>1
  <1> QED
    BY <1>1, <1>2 DEF Single, Honest, Spending

(* The answer puts the granted, unspent row in the jar.                      *)
LEMMA LandsStep ==
  ASSUME SessionInv, RefreshLands
  PROVE  SessionInv'
  <1>1. PICK i \in DOMAIN refreshes :
          /\ refreshes[i].st = "granted" /\ refreshes' = RemoveAt(refreshes, i)
          /\ cookie' = refreshes[i].row /\ token' = rows[refreshes[i].row].family
    BY DEF RefreshLands
  <1>2. UNCHANGED <<kinds, rows, reused, strayed, late, faults, ages, who, form>>
        /\ expired' = FALSE /\ timer' = TRUE
    BY DEF RefreshLands, serverVars, worldVars
  <1>3. i = 1 /\ Len(refreshes) = 1 /\ refreshes[1].row \in 0 .. Len(rows)
        /\ Len(rows) \in Nat
    BY Only
  <1>4. refreshes[1].row \in 1 .. Len(rows)
    BY <1>1, <1>3, HonestOne DEF SessionInv
  <1>5. token' \in 0 .. Len(kinds)
    <2>1. rows \in Seq(RowType) /\ kinds \in Seq({"guest", "account"})
      BY DEF SessionInv, SessionTypeOK, RowType
    <2>2. rows[refreshes[1].row] \in RowType /\ Len(kinds) \in Nat
      BY <2>1, <1>4
    <2> QED
      BY <2>2, <1>1, <1>3, <1>4 DEF SessionInv, Rooted, RowType
  <1>6. refreshes' = <<>> /\ Single' /\ (Honest' <=> ~reused' /\ Unspent(cookie)')
    BY <1>1, NoneLeft
  <1>7. strayed' \/ Honest'
    BY <1>1, <1>2, <1>3, <1>6, HonestOne DEF SessionInv, Unspent, Standing
  <1>8. Rooted'
    BY <1>2 DEF SessionInv, Rooted
  <1>9. call' \in CallStates /\ sender' \in [{Boot, Form} -> 0 .. Len(kinds)]
    <2>1. sender \in [{Boot, Form} -> 0 .. Len(kinds)]
      BY DEF SessionInv, SessionTypeOK
    <2>2. call' \in CallStates
      BY DEF RefreshLands, SessionInv, SessionTypeOK
    <2> QED
      BY <1>5, <2>1, <2>2 DEF RefreshLands
  <1>10. cookie' \in 0 .. Len(rows)
    BY <1>1, <1>3
  <1>11. refreshes' \in Seq([cookie : 0..Len(rows'), row : 0..Len(rows'), 
                             st : {"sent", "consumed", "granted", "refused"}])
    BY <1>6
  <1> QED
    BY <1>2, <1>5, <1>6, <1>7, <1>8, <1>9, <1>10, <1>11 DEF SessionInv, SessionTypeOK

(* What a page gives up on was of tokens the server knows.                   *)
LEMMA UnmetKnown ==
  ASSUME SessionInv PROVE Unmet \subseteq 0 .. Len(rows)
  <1> SUFFICES ASSUME NEW u \in Unmet PROVE u \in 0 .. Len(rows)
    OBVIOUS
  <1>1. PICK i \in DOMAIN refreshes : u = refreshes[i].cookie
    BY DEF Unmet
  <1> QED
    BY <1>1, Only

(* A refresh that is refused or lost leaves the jar as it was.               *)
LEMMA DeniedStep ==
  ASSUME SessionInv, RefreshDenied
  PROVE  SessionInv'
  <1>1. PICK i \in DOMAIN refreshes :
          /\ refreshes' = RemoveAt(refreshes, i)
          /\ \/ refreshes[i].st = "refused" /\ UNCHANGED <<strayed, late, faults>>
             \/ /\ faults < MaxFaults /\ faults' = faults + 1
                /\ strayed' = (strayed \/ Answered) /\ late' = late \cup Unmet
    BY DEF RefreshDenied
  <1>2. UNCHANGED <<timer, sender, form, cookie, ages, kinds, rows, reused>>
        /\ token' = 0 /\ expired' = FALSE
    BY DEF RefreshDenied, serverVars
  <1>3. i = 1 /\ Len(refreshes) = 1
    BY Only
  <1>4. refreshes' = <<>> /\ Single' /\ (Honest' <=> ~reused' /\ Unspent(cookie)')
    BY <1>1, NoneLeft
  <1>5. strayed' \in BOOLEAN /\ faults' \in 0 .. MaxFaults
    <2>1. strayed \in BOOLEAN /\ faults \in 0 .. MaxFaults
      BY DEF SessionInv, SessionTypeOK
    <2>2. strayed' \in BOOLEAN
      BY <1>1, <2>1, Zenon
    <2>3. faults' = faults \/ (faults < MaxFaults /\ faults' = faults + 1)
      BY <1>1, Zenon
    <2> QED
      BY <2>1, <2>2, <2>3, SessionBoundsAssumption DEF SessionBoundsAssumption
  <1>6. strayed' \/ Honest'
    <2> SUFFICES ASSUME ~strayed' PROVE Honest'
      OBVIOUS
    <2>1. ~strayed /\ refreshes[1].st \notin {"consumed", "granted"}
      <3>1. CASE refreshes[1].st = "refused" /\ strayed' = strayed
        BY <3>1
      <3>2. CASE strayed' = (strayed \/ Answered)
        <4>1. ~strayed /\ ~Answered
          BY <3>2, Zenon
        <4> QED
          BY <4>1, <1>3 DEF Answered
      <3> QED
        BY <3>1, <3>2, <1>1, <1>3
    <2>2. ~reused /\ Unspent(cookie)
      BY <2>1, <1>3, HonestOne DEF SessionInv
    <2> QED
      BY <2>2, <1>2, <1>4 DEF Unspent, Standing
  <1>7. Rooted'
    BY <1>2 DEF SessionInv, Rooted
  <1>8. call' \in CallStates
    BY DEF RefreshDenied, SessionInv, SessionTypeOK
  <1>9. who' \in {"loading", "anonymous", "guest", "account"}
    BY DEF RefreshDenied, SessionInv, SessionTypeOK
  <1>10. token' \in 0 .. Len(kinds)
    BY <1>2 DEF SessionInv, SessionTypeOK
  <1>11. refreshes' \in Seq([cookie : 0..Len(rows'), row : 0..Len(rows'), 
                             st : {"sent", "consumed", "granted", "refused"}])
    BY <1>4
  <1>12. late' \subseteq 0 .. Len(rows)
    BY <1>1, UnmetKnown DEF SessionInv, SessionTypeOK
  <1> QED
    BY <1>2, <1>4, <1>5, <1>6, <1>7, <1>8, <1>9, <1>10, <1>11, <1>12
    DEF SessionInv, SessionTypeOK

(* The page's own requests.  A few leave the session's tokens alone.         *)
LEMMA AsideStep ==
  ASSUME SessionInv,
         UNCHANGED <<refreshes, cookie, kinds, rows, reused, strayed, late, timer>>,
         sender' \in [{Boot, Form} -> 0 .. Len(kinds)],
         who' \in {"loading", "anonymous", "guest", "account"},
         token' \in 0 .. Len(kinds), expired' \in BOOLEAN,
         faults' \in 0 .. MaxFaults, ages' \in 0 .. MaxAges,
         call' \in CallStates,
         form' \in FormStates
  PROVE  SessionInv'
  BY Aside DEF SessionInv, SessionTypeOK

(* With one refresh at most, those callers wait for are counted.             *)
LEMMA Counted ==
  ASSUME SessionInv
  PROVE  /\ rows \in Seq(RowType) /\ Len(rows) \in Nat /\ Len(kinds) \in Nat
         /\ kinds \in Seq({"guest", "account"}) /\ Len(kinds) <= MaxFamilies
         /\ NoForm \in FormStates
         /\ 0 \in 0 .. Len(kinds) /\ expired \in BOOLEAN /\ token \in 0 .. Len(kinds)
         /\ token # 0 => kinds[token] \in {"guest", "account"}
         /\ who \in {"loading", "anonymous", "guest", "account"}
         /\ faults \in 0 .. MaxFaults /\ ages \in 0 .. MaxAges
         /\ form \in FormStates
         /\ call \in CallStates
         /\ cookie \in 0 .. Len(rows) /\ late \subseteq 0 .. Len(rows)
         /\ sender \in [{Boot, Form} -> 0 .. Len(kinds)]
  <1>1. rows \in Seq(RowType) /\ kinds \in Seq({"guest", "account"})
        /\ token \in 0 .. Len(kinds)
    BY DEF SessionInv, SessionTypeOK, RowType
  <1>2. Len(rows) \in Nat /\ Len(kinds) \in Nat
    BY <1>1
  <1>3. token # 0 => kinds[token] \in {"guest", "account"}
    BY <1>1, <1>2
  <1> QED
    BY <1>1, <1>2, <1>3 DEF SessionInv, SessionTypeOK, NoForm

(* An answer names a kind of user there is.                                  *)
LEMMA Named ==
  ASSUME SessionInv, NEW c, Names(c)
  PROVE  who' \in {"loading", "anonymous", "guest", "account"}
  BY DEF Names, SessionInv, SessionTypeOK

(* The answer to the first request, or its failure, touches no token.        *)
LEMMA BootStep ==
  ASSUME SessionInv, BootAnswers \/ BootFails
  PROVE  SessionInv'
  <1>1. UNCHANGED <<token, expired, timer, sender, refreshes, form, cookie, kinds, rows,
                    reused, strayed, late, faults, ages>>
    BY DEF BootAnswers, BootFails, serverVars, worldVars
  <1>2. call' \in CallStates
    BY CallSet, CallerNames DEF BootAnswers, BootFails, SessionInv
  <1>3. who' \in {"loading", "anonymous", "guest", "account"}
    BY Counted, Named DEF BootAnswers, BootFails
  <1> QED
    BY <1>1, <1>2, <1>3, AsideStep, Counted

(* A form carries the cookie the jar holds.                                  *)
LEMMA SubmitStep ==
  ASSUME SessionInv, NEW kind \in {"guest", "logout", "rename", "create"}, Submit(kind)
  PROVE  SessionInv'
  <1>1. UNCHANGED <<refreshes, cookie, who, token, expired, timer, kinds, rows, reused,
                    strayed, late, faults, ages>>
    BY DEF Submit, serverVars, worldVars
  <1>2. call' \in CallStates
    BY CallSet, AskingSet, CallerNames DEF Submit, SessionInv
  <1>3. form' \in FormStates
    BY Counted DEF Submit
  <1>4. sender' \in [{Boot, Form} -> 0 .. Len(kinds)]
    BY Counted DEF Submit
  <1> QED
    BY <1>1, <1>2, <1>3, <1>4, AsideStep, Counted

(* A form that ends touches no token.                                        *)
LEMMA FormStep ==
  ASSUME SessionInv, FormDone
  PROVE  /\ call' \in CallStates
         /\ form' \in FormStates
  BY CallSet, CallerNames, Counted DEF FormDone, SessionInv

(* Nor does one that fails.                                                  *)
LEMMA FormEnds ==
  ASSUME SessionInv, LogoutFails \/ RenameAnswers \/ FormFails
  PROVE  SessionInv'
  <1>1. FormDone
    BY DEF LogoutFails, RenameAnswers, FormFails
  <1>2. UNCHANGED <<refreshes, cookie, kinds, rows, reused, strayed, late, timer, sender,
                    faults, ages>>
    BY DEF LogoutFails, RenameAnswers, FormFails, tabVars, serverVars, worldVars
  <1>3. who' \in {"loading", "anonymous", "guest", "account"}
        /\ token' \in 0 .. Len(kinds) /\ expired' \in BOOLEAN
    BY Counted, Named DEF LogoutFails, RenameAnswers, FormFails, tabVars
  <1> QED
    BY <1>1, <1>2, <1>3, AsideStep, FormStep, Counted

(* Signing out revokes a family, and spends nothing.                         *)
LEMMA LogoutRows ==
  ASSUME SessionInv, LoggedOut
  PROVE  /\ rows' \in Seq(RowType) /\ Len(rows') = Len(rows)
         /\ \A k \in 1 .. Len(rows) :
               /\ rows'[k].family = rows[k].family /\ rows'[k].spent = rows[k].spent
               /\ rows[k].revoked => rows'[k].revoked
         /\ \A k : Unspent(k) => (k \in Standing' => ~rows'[k].spent)
  <1>1. /\ rows' \in Seq(RowType) /\ Len(rows') = Len(rows)
        /\ \A k \in 1 .. Len(rows) :
              /\ rows'[k].family = rows[k].family /\ rows'[k].spent = rows[k].spent
              /\ rows[k].revoked => rows'[k].revoked
    BY RevokedRows, Counted DEF LoggedOut
  <1>2. DOMAIN rows = 1 .. Len(rows) /\ DOMAIN rows' = 1 .. Len(rows)
    BY <1>1, Counted
  <1>3. \A k : Unspent(k) => (k \in Standing' => ~rows'[k].spent)
    BY <1>1, <1>2 DEF Unspent, Standing
  <1> QED
    BY <1>1, <1>3

(* An answer to it that is lost leaves the jar and the page as they were.    *)
LEMMA LogoutLostStep ==
  ASSUME SessionInv, LogoutLost
  PROVE  SessionInv'
  <1>1. /\ UNCHANGED <<refreshes, form, cookie, kinds, reused, strayed, late, ages, who,
                       token, expired, timer, sender>>
        /\ faults < MaxFaults /\ faults' = faults + 1
        /\ call' = [call EXCEPT ![Form] = "failed"] /\ LoggedOut
    BY DEF LogoutLost, tabVars
  <1>2. /\ rows' \in Seq(RowType) /\ Len(rows') = Len(rows)
        /\ \A k \in 1 .. Len(rows) : rows'[k].family = rows[k].family
        /\ \A k : Unspent(k) => (k \in Standing' => ~rows'[k].spent)
    BY <1>1, LogoutRows
  <1>3. Single' /\ Rooted'
    BY <1>1, <1>2 DEF SessionInv, Single, Rooted
  <1>4. strayed' \/ Honest'
    BY <1>1, <1>2 DEF SessionInv, Honest, Spending, Unspent
  <1>5. call' \in CallStates
    BY <1>1, CallSet, CallerNames DEF SessionInv
  <1>6. faults' \in 0 .. MaxFaults
    BY <1>1, Counted, SessionBoundsAssumption DEF SessionBoundsAssumption
  <1> QED
    BY <1>1, <1>2, <1>3, <1>4, <1>5, <1>6 DEF SessionInv, SessionTypeOK, RowType

(* A refresh that arrives late is served for nobody: it strays, if served.   *)
LEMMA LateStep ==
  ASSUME SessionInv, LateArrives
  PROVE  SessionInv'
  <1>1. UNCHANGED <<refreshes, call, form, cookie, kinds, faults, ages, who, token, expired,
                    timer, sender>>
    BY DEF LateArrives, tabVars
  <1>2. PICK k \in late :
          /\ late' = late \ {k}
          /\ \/ k \notin Standing /\ UNCHANGED <<rows, reused, strayed>>
             \/ /\ k \in Standing /\ rows[k].spent
                /\ rows' = Revoking(rows[k].family) /\ reused' = TRUE /\ strayed' = TRUE
             \/ /\ k \in Standing /\ ~rows[k].spent
                /\ rows' = Append([rows EXCEPT ![k].spent = TRUE], RowOf(rows[k].family))
                /\ strayed' = TRUE /\ UNCHANGED reused
    BY DEF LateArrives
  <1>3. /\ rows' \in Seq(RowType) /\ Len(rows') \in {Len(rows), Len(rows) + 1}
        /\ Rooted' /\ (strayed \/ Honest)' /\ reused' \in BOOLEAN /\ strayed' \in BOOLEAN
    <2>1. rows \in Seq(RowType) /\ reused \in BOOLEAN /\ strayed \in BOOLEAN
      BY Counted DEF SessionInv, SessionTypeOK
    <2>2. CASE k \notin Standing /\ UNCHANGED <<rows, reused, strayed>>
      BY <1>1, <2>1, <2>2, Aside
    <2>3. CASE rows' = Revoking(rows[k].family) /\ reused' = TRUE /\ strayed' = TRUE
      BY <1>1, <2>3, RevokedRows DEF SessionInv, Rooted
    <2>4. CASE /\ k \in Standing /\ strayed' = TRUE /\ UNCHANGED reused
               /\ rows' = Append([rows EXCEPT ![k].spent = TRUE], RowOf(rows[k].family))
      <3> DEFINE row == [rows[k] EXCEPT !.spent = TRUE]
                 new == RowOf(rows[k].family)
      <3>1. k \in 1 .. Len(rows)
        BY <2>1, <2>4 DEF Standing
      <3>2. rows[k] \in RowType /\ rows[k].family <= Len(kinds)
        BY <2>1, <3>1 DEF SessionInv, Rooted
      <3>3. /\ row \in RowType /\ row.family = rows[k].family
            /\ new \in RowType /\ new.family = rows[k].family
        BY <3>2 DEF RowType, RowOf
      <3>4. rows' = Append([rows EXCEPT ![k] = row], new)
        BY <2>4
      <3> HIDE DEF row, new
      <3>5. /\ rows' \in Seq(RowType) /\ Len(rows') = Len(rows) + 1
            /\ \A j \in 1 .. Len(rows) : rows'[j] = IF j = k THEN row ELSE rows[j]
            /\ rows'[Len(rows) + 1] = new
        <4> DEFINE marked == [rows EXCEPT ![k] = row]
        <4>1. /\ marked \in Seq(RowType) /\ Len(marked) = Len(rows)
              /\ \A j \in 1 .. Len(rows) : marked[j] = IF j = k THEN row ELSE rows[j]
          BY <2>1, <3>1, <3>3
        <4>2. rows' = Append(marked, new)
          BY <3>4
        <4> HIDE DEF marked
        <4> QED
          BY <4>1, <4>2, <3>3
      <3>6. Rooted'
        <4> SUFFICES ASSUME NEW j \in 1 .. Len(rows') PROVE rows'[j].family <= Len(kinds)
          BY <1>1 DEF Rooted
        <4>1. j \in 1 .. Len(rows) \/ j = Len(rows) + 1
          BY <3>5, Counted
        <4>2. rows'[j].family = rows[k].family \/ (j \in 1 .. Len(rows) /\ rows'[j] = rows[j])
          BY <3>3, <3>5, <4>1
        <4> QED
          BY <3>2, <4>2 DEF SessionInv, Rooted
      <3> QED
        BY <2>1, <2>4, <3>5, <3>6
    <2> QED
      BY <1>2, <2>2, <2>3, <2>4
  <1>4. refreshes' \in Seq(RefreshType(Len(rows'))) /\ Single'
    <2>1. RefreshType(Len(rows)) \subseteq RefreshType(Len(rows'))
      BY <1>3, Counted DEF RefreshType
    <2>2. refreshes \in Seq(RefreshType(Len(rows))) /\ Len(refreshes) \in Nat
      BY DEF SessionInv, SessionTypeOK, RefreshType, Flights
    <2> HIDE DEF RefreshType
    <2>3. refreshes' \in Seq(RefreshType(Len(rows')))
      BY <1>1, <2>1, <2>2
    <2> QED
      BY <2>3, <1>1 DEF SessionInv, Single
  <1>5. cookie' \in 0 .. Len(rows') /\ form' \in FormStates' /\ late' \subseteq 0 .. Len(rows')
    BY <1>1, <1>2, <1>3, Counted
  <1> QED
    BY <1>1, <1>3, <1>4, <1>5 DEF SessionInv, SessionTypeOK, RefreshType, Flights, RowType

(* Signing out revokes the family and empties the jar.                       *)
LEMMA LogoutStep ==
  ASSUME SessionInv, LogoutAnswers
  PROVE  SessionInv'
  <1>1. FormDone /\ UNCHANGED <<timer, sender, refreshes, kinds, reused, strayed, late, faults,
                                ages>>
        /\ cookie' = 0 /\ token' = 0 /\ expired' = FALSE /\ who' = "anonymous"
    BY DEF LogoutAnswers, worldVars
  <1>2. /\ rows' \in Seq(RowType) /\ Len(rows') = Len(rows)
        /\ \A k \in 1 .. Len(rows) :
              /\ rows'[k].family = rows[k].family /\ rows'[k].spent = rows[k].spent
              /\ rows[k].revoked => rows'[k].revoked
    BY LogoutRows DEF LogoutAnswers
  <1>3. \A k : Unspent(k) => (k \in Standing' => ~rows'[k].spent)
    BY LogoutRows DEF LogoutAnswers
  <1>4. Unspent(cookie)'
    BY <1>1, <1>2 DEF Unspent, Standing
  <1>5. Single' /\ Rooted'
    BY <1>1, <1>2 DEF SessionInv, Single, Rooted
  <1>6. Honest => Honest'
    BY <1>1, <1>3, <1>4 DEF Honest, Unspent
  <1>7. /\ form' \in FormStates'
        /\ refreshes' \in Seq(RefreshType(Len(rows')))
    BY <1>1, <1>2, FormStep DEF SessionInv, SessionTypeOK, RefreshType, Flights
  <1>8. strayed' \/ Honest'
    BY <1>1, <1>6 DEF SessionInv
  <1>9. call' \in CallStates
    BY <1>1, FormStep
  <1>10. /\ cookie' \in 0 .. Len(rows') /\ token' \in 0 .. Len(kinds')
         /\ kinds' \in Seq({"guest", "account"}) /\ Len(kinds') <= MaxFamilies
         /\ faults' \in 0 .. MaxFaults /\ ages' \in 0 .. MaxAges
         /\ late' \subseteq 0 .. Len(rows')
    BY <1>1, <1>2, Counted
  <1>11. timer' \in BOOLEAN /\ reused' \in BOOLEAN /\ strayed' \in BOOLEAN
    BY <1>1 DEF SessionInv, SessionTypeOK
  <1> QED
    BY <1>1, <1>2, <1>5, <1>7, <1>8, <1>9, <1>10, <1>11
    DEF SessionInv, SessionTypeOK, RefreshType, Flights, RowType

(* Signing in puts a new, unspent row in the jar.                            *)
LEMMA SignedInStep ==
  ASSUME SessionInv, NEW kind \in {"guest", "account"}, SignedIn(kind)
  PROVE  /\ kinds' \in Seq({"guest", "account"}) /\ Len(kinds') = Len(kinds) + 1
         /\ Len(kinds') <= MaxFamilies
         /\ rows' \in Seq(RowType) /\ Len(rows') = Len(rows) + 1
         /\ cookie' = Len(rows) + 1 /\ Rooted' /\ Unspent(cookie)' /\ UNCHANGED reused
         /\ \A k \in 0 .. Len(rows) : Unspent(k) => (k \in Standing' => ~rows'[k].spent)
  <1> DEFINE f == Len(kinds) + 1
  <1>1. /\ Len(kinds) < MaxFamilies /\ kinds' = Append(kinds, kind)
        /\ rows' = Append(rows, RowOf(f)) /\ cookie' = Len(rows) + 1 /\ UNCHANGED reused
    BY DEF SignedIn
  <1>2. f \in 1 .. MaxFamilies
    BY <1>1, Counted, SessionBoundsAssumption DEF SessionBoundsAssumption
  <1>3. /\ kinds' \in Seq({"guest", "account"}) /\ Len(kinds') = Len(kinds) + 1
        /\ Len(kinds') <= MaxFamilies
    BY <1>1, <1>2, Counted
  <1>4. /\ rows' \in Seq(RowType) /\ Len(rows') = Len(rows) + 1
        /\ \A k \in 1 .. Len(rows) : rows'[k] = rows[k]
        /\ rows'[Len(rows) + 1] = RowOf(f)
    BY <1>1, <1>2, NewRow
  <1>5. /\ \A k \in 0 .. Len(rows) : Unspent(k) => (k \in Standing' => ~rows'[k].spent)
        /\ Len(rows) + 1 \in Standing' => ~rows'[Len(rows) + 1].spent
    BY <1>1, <1>2, UnspentGrows
  <1>6. Rooted'
    <2> SUFFICES ASSUME NEW k \in 1 .. Len(rows') PROVE rows'[k].family <= Len(kinds')
      BY DEF Rooted
    <2>1. CASE k \in 1 .. Len(rows)
      <3>1. rows[k] \in RowType
        BY <2>1, Counted
      <3>2. rows[k].family \in Int /\ rows[k].family <= Len(kinds)
        BY <2>1, <3>1 DEF SessionInv, Rooted, RowType
      <3> QED
        BY <2>1, <3>2, <1>3, <1>4, Counted
    <2>2. CASE k = Len(rows) + 1
      BY <2>2, <1>3, <1>4, Counted DEF RowOf
    <2> QED
      BY <2>1, <2>2, <1>4, Counted
  <1>7. Unspent(cookie)'
    BY <1>1, <1>5 DEF Unspent
  <1> QED
    BY <1>1, <1>3, <1>4, <1>5, <1>6, <1>7

(* A guest's sign-in is one of them.                                         *)
LEMMA GuestStep ==
  ASSUME SessionInv, GuestAnswers
  PROVE  SessionInv'
  <1>1. FormDone /\ SignedIn("guest")
        /\ UNCHANGED <<sender, refreshes, strayed, late, faults, ages>>
        /\ token' = Len(kinds) + 1 /\ expired' = FALSE /\ timer' = TRUE /\ who' = "guest"
    BY DEF GuestAnswers, worldVars
  <1>2. /\ kinds' \in Seq({"guest", "account"}) /\ Len(kinds') = Len(kinds) + 1
        /\ Len(kinds') <= MaxFamilies
        /\ rows' \in Seq(RowType) /\ Len(rows') = Len(rows) + 1
        /\ cookie' = Len(rows) + 1 /\ Rooted' /\ Unspent(cookie)' /\ UNCHANGED reused
        /\ \A k \in 0 .. Len(rows) : Unspent(k) => (k \in Standing' => ~rows'[k].spent)
    BY <1>1, SignedInStep
  <1>3. refreshes \in Seq(RefreshType(Len(rows))) /\ Len(refreshes) \in Nat
    BY DEF SessionInv, SessionTypeOK, RefreshType, Flights
  <1>4. refreshes' \in Seq(RefreshType(Len(rows'))) /\ Single'
    <2>1. RefreshType(Len(rows)) \subseteq RefreshType(Len(rows'))
      BY <1>2, Counted DEF RefreshType
    <2> HIDE DEF RefreshType
    <2>2. refreshes' \in Seq(RefreshType(Len(rows')))
      BY <2>1, <1>1, <1>3
    <2> QED
      BY <2>2, <1>1 DEF SessionInv, Single
  <1>5. Honest => Honest'
    <2> SUFFICES ASSUME Honest, NEW i \in 1 .. Len(refreshes)
                 PROVE  /\ refreshes[i].st = "sent" => Unspent(refreshes[i].cookie)'
                        /\ refreshes[i].st = "granted" => Unspent(refreshes[i].row)'
      BY <1>1, <1>2 DEF Honest
    <2>1. refreshes[i] \in RefreshType(Len(rows))
      BY <1>3
    <2>2. refreshes[i].cookie \in 0 .. Len(rows) /\ refreshes[i].row \in 0 .. Len(rows)
      BY <2>1 DEF RefreshType
    <2> QED
      BY <2>2, <1>1, <1>2 DEF Honest, Unspent
  <1>6. form' \in FormStates'
    BY <1>1, <1>2, Counted DEF FormDone, NoForm
  <1>7. call' \in CallStates
    BY <1>1, FormStep
  <1>8. strayed' \/ Honest'
    BY <1>1, <1>5 DEF SessionInv
  <1>9. /\ cookie' \in 0 .. Len(rows') /\ token' \in 0 .. Len(kinds')
        /\ faults' \in 0 .. MaxFaults /\ ages' \in 0 .. MaxAges
        /\ late' \subseteq 0 .. Len(rows') /\ sender' \in [{Boot, Form} -> 0 .. Len(kinds')]
    BY <1>1, <1>2, Counted
  <1>10. reused' \in BOOLEAN /\ strayed' \in BOOLEAN
    BY <1>1, <1>2 DEF SessionInv, SessionTypeOK
  <1> QED
    BY <1>1, <1>2, <1>4, <1>6, <1>7, <1>8, <1>9, <1>10
    DEF SessionInv, SessionTypeOK, RefreshType, Flights, RowType

(* A new page starts with one refresh of the cookie it finds.                *)
LEMMA BootingStep ==
  ASSUME NEW k \in Nat, Booting(k), rows' \in Seq(RowType), k <= Len(rows'),
         kinds' \in Seq({"guest", "account"}), Len(kinds') <= MaxFamilies,
         cookie' = k, reused' \in BOOLEAN, strayed' \in BOOLEAN,
         faults' \in 0 .. MaxFaults, ages' \in 0 .. MaxAges, Rooted',
         late' \subseteq 0 .. Len(rows'),
         strayed' \/ (~reused' /\ Unspent(cookie)')
  PROVE  SessionInv'
  <1> DEFINE r == [cookie |-> k, st |-> "sent", row |-> 0]
  <1>1. Len(rows') \in Nat /\ Len(kinds') \in Nat
    OBVIOUS
  <1>2. r \in RefreshType(Len(rows')) /\ refreshes' = <<r>> 
    BY <1>1 DEF Booting, RefreshType, Flights
  <1>3. r.st = "sent" /\ r.cookie = k
    OBVIOUS
  <1> HIDE DEF r
  <1>4. /\ refreshes' \in Seq(RefreshType(Len(rows'))) /\ Len(refreshes') = 1
        /\ refreshes'[1] = r
    BY <1>2
  <1>5. Single'
    BY <1>3, <1>4, HonestNext
  <1>6. strayed' \/ Honest'
    BY <1>3, <1>4, HonestNext DEF Unspent
  <1>7. call' \in CallStates
    BY DEF Booting
  <1>8. form' \in FormStates'
    BY <1>1 DEF Booting, NoForm
  <1>9. /\ cookie' \in 0 .. Len(rows') /\ token' \in 0 .. Len(kinds')
        /\ who' \in {"loading", "anonymous", "guest", "account"}
    BY <1>1 DEF Booting
  <1>10. /\ expired' \in BOOLEAN /\ timer' \in BOOLEAN
         /\ sender' \in [{Boot, Form} -> 0 .. Len(kinds')]
    <2>1. expired' = FALSE /\ timer' = FALSE /\ sender' = [c \in {Boot, Form} |-> 0]
      BY Zenon DEF Booting
    <2> HIDE DEF Booting
    <2>2. 0 \in 0 .. Len(kinds')
      BY <1>1
    <2> QED
      BY <2>1, <2>2
  <1>11. late' \subseteq 0 .. Len(rows')
    OBVIOUS
  <1> HIDE DEF Booting
  <1> QED
    BY <1>4, <1>5, <1>6, <1>7, <1>8, <1>9, <1>10, <1>11
    DEF SessionInv, SessionTypeOK, RefreshType, Flights, RowType

(* A reload forgets what was in flight, which strays if it was spent.        *)
LEMMA ReloadStep ==
  ASSUME SessionInv, Reloads
  PROVE  SessionInv'
  <1>1. /\ Booting(cookie) /\ UNCHANGED <<cookie, ages, kinds, rows, reused>>
        /\ faults < MaxFaults /\ faults' = faults + 1
        /\ strayed' = (strayed \/ Answered)
    BY DEF Reloads, serverVars
  <1>2. faults' \in 0 .. MaxFaults
    BY <1>1, Counted, SessionBoundsAssumption DEF SessionBoundsAssumption
  <1>3. strayed' \in BOOLEAN
    BY <1>1, Zenon DEF SessionInv, SessionTypeOK
  <1>4. ASSUME ~strayed' PROVE ~reused' /\ Unspent(cookie)'
    <2>1. ~strayed /\ \A i \in DOMAIN refreshes : refreshes[i].st \notin {"consumed", "granted"}
      BY <1>1, <1>4, Zenon DEF Answered
    <2>2. ~Spending
      <3>1. DOMAIN refreshes = 1 .. Len(refreshes)
        BY DEF SessionInv, SessionTypeOK
      <3> QED
        BY <2>1, <3>1, Zenon DEF Spending
    <2> QED
      BY <2>1, <2>2, <1>1 DEF SessionInv, Honest, Unspent, Standing
  <1>5. Rooted'
    BY <1>1 DEF SessionInv, Rooted
  <1>6. cookie \in Nat /\ cookie <= Len(rows') /\ rows' \in Seq(RowType)
    BY <1>1, Counted
  <1>7. /\ kinds' \in Seq({"guest", "account"}) /\ Len(kinds') <= MaxFamilies
        /\ ages' \in 0 .. MaxAges
    BY <1>1, Counted
  <1>8. reused' \in BOOLEAN
    BY <1>1 DEF SessionInv, SessionTypeOK
  <1>9. late' \subseteq 0 .. Len(rows')
    BY <1>1, UnmetKnown, Counted DEF Booting
  <1> QED
    BY <1>1, <1>2, <1>3, <1>4, <1>5, <1>6, <1>7, <1>8, <1>9, BootingStep

(* Coming back from Google is a sign-in and a reload.                        *)
LEMMA GoogleStep ==
  ASSUME SessionInv, GoogleReturns
  PROVE  SessionInv'
  <1>1. SignedIn("account") /\ Booting(Len(rows) + 1) /\ UNCHANGED <<strayed, faults, ages>>
    BY DEF GoogleReturns
  <1>2. /\ kinds' \in Seq({"guest", "account"}) /\ Len(kinds') = Len(kinds) + 1
        /\ Len(kinds') <= MaxFamilies
        /\ rows' \in Seq(RowType) /\ Len(rows') = Len(rows) + 1
        /\ cookie' = Len(rows) + 1 /\ Rooted' /\ Unspent(cookie)' /\ UNCHANGED reused
    BY <1>1, SignedInStep
  <1>3. strayed' \/ (~reused' /\ Unspent(cookie)')
    BY <1>1, <1>2 DEF SessionInv, Honest
  <1>4. /\ reused' \in BOOLEAN /\ strayed' \in BOOLEAN
        /\ faults' \in 0 .. MaxFaults /\ ages' \in 0 .. MaxAges
    BY <1>1, <1>2 DEF SessionInv, SessionTypeOK
  <1>5. Len(rows) + 1 \in Nat /\ Len(rows) + 1 <= Len(rows')
    BY <1>2, Counted
  <1>6. late' \subseteq 0 .. Len(rows')
    BY <1>1, <1>2, UnmetKnown, Counted DEF Booting
  <1> QED
    BY <1>1, <1>2, <1>3, <1>4, <1>5, <1>6, BootingStep

------------------------------------------------------------------------------
(* The socket.                                                              *)

SockType ==
  [state : {"idle", "connecting", "authenticating", "open", "reconnecting", "closed"},
   tried : BOOLEAN, closed : BOOLEAN, timer : BOOLEAN,
   ws : {"none", "dialing", "auth", "live"}, outbox : Seq(1 .. MaxCommands),
   fresh : 0 .. Confident, old : 0 .. Confident, probing : BOOLEAN]

(* A timer, a ticket under way and a WebSocket exclude one another; what is   *)
(* open is live and has sent what waited, and no probe outlives its           *)
(* connection.                                                              *)
Sound(s) ==
  /\ s \in SockType
  /\ s.timer => s.state = "reconnecting" /\ s.ws = "none"
  /\ s.state = "open" => s.ws = "live" /\ s.outbox = <<>>
  /\ s.old = 0 /\ Len(s.outbox) <= MaxOutbox

Calm(n) == call[n] # "none" => ~socks[n].timer /\ socks[n].ws = "none"

SocksInv ==
  /\ socks \in [1 .. MaxSockets -> SockType]
  /\ \A n \in 1 .. MaxSockets : Sound(socks[n]) /\ Calm(n)

(* A sound socket is a typed one.                                            *)
LEMMA SoundTyped == \A s : Sound(s) => s \in SockType
  BY DEF Sound

(* A new socket is sound.                                                    *)
LEMMA NewSound == SocketBoundsAssumption => Sound(NewSocket)
  BY DEF SocketBoundsAssumption, Sound, NewSocket, SockType

(* So is one asked to connect,                                               *)
LEMMA ConnectingSound ==
  ASSUME NEW s \in SockType, Sound(s)
  PROVE  LET t == [s EXCEPT !.timer = FALSE]
         IN  /\ Sound(t) /\ t.outbox = s.outbox /\ t.ws = s.ws /\ ~t.timer
             /\ Sound(Connecting(t)) /\ Connecting(t).outbox = s.outbox
             /\ Connecting(t).ws = s.ws /\ ~Connecting(t).timer
  BY DEF Sound, Connecting, SockType

(* one that waits for its timer,                                             *)
LEMMA ScheduleSound ==
  ASSUME NEW s \in SockType, s.ws = "none", s.old = 0, Len(s.outbox) <= MaxOutbox
  PROVE  /\ Sound(ScheduleReconnect(s)) /\ ScheduleReconnect(s).outbox = s.outbox
         /\ ScheduleReconnect(s).ws = "none"
  BY SocketBoundsAssumption
  DEF Sound, ScheduleReconnect, Reset, SockType, SocketBoundsAssumption

(* one whose connection closed,                                              *)
LEMMA CloseSound ==
  ASSUME NEW s \in SockType, Sound(s), s.ws # "none"
  PROVE  Sound(OnClose(s)) /\ OnClose(s).outbox = s.outbox /\ OnClose(s).ws = "none"
  <1> DEFINE t == [s EXCEPT !.ws = "none", !.probing = FALSE]
  <1>1. /\ t \in SockType /\ t.ws = "none" /\ t.old = 0 /\ Len(t.outbox) <= MaxOutbox
        /\ t.outbox = s.outbox /\ t.timer = s.timer /\ t.closed = s.closed
    BY DEF Sound, SockType
  <1>2. ~s.timer
    BY DEF Sound
  <1>3. OnClose(s) = IF s.closed THEN [t EXCEPT !.state = "closed"] ELSE ScheduleReconnect(t)
    BY DEF OnClose
  <1>4. CASE ~s.closed
    BY <1>1, <1>3, <1>4, ScheduleSound
  <1>5. CASE s.closed
    <2> DEFINE u == [t EXCEPT !.state = "closed"]
    <2> HIDE DEF t
    <2>1. /\ u \in SockType /\ u.ws = "none" /\ u.old = 0 /\ u.outbox = t.outbox
          /\ ~u.timer /\ u.state = "closed"
      BY <1>1, <1>2 DEF SockType
    <2> HIDE DEF u
    <2>2. Sound(u)
      BY <1>1, <2>1 DEF Sound
    <2>3. OnClose(s) = u
      BY <1>3, <1>5 DEF u
    <2> QED
      BY <1>1, <2>1, <2>2, <2>3
  <1> QED
    BY <1>4, <1>5

(* one closed by its page,                                                   *)
LEMMA ClosedSound ==
  ASSUME NEW s \in SockType, Sound(s)
  PROVE  /\ Sound(Closed(s)) /\ Closed(s).outbox = s.outbox
         /\ Closed(s).ws = "none" /\ ~Closed(s).timer
  BY DEF Sound, Closed, SockType

(* one whose ticket arrived,                                                 *)
LEMMA DialSound ==
  ASSUME NEW s \in SockType, Sound(s), s.ws = "none", ~s.timer
  PROVE  LET t == [s EXCEPT !.ws = "dialing"]
         IN  Sound(t) /\ t.outbox = s.outbox
  BY DEF Sound, SockType

(* one that opened,                                                          *)
LEMMA OpenedSound ==
  ASSUME NEW s \in SockType, Sound(s), s.ws = "dialing"
  PROVE  LET t == [s EXCEPT !.ws = "auth", !.state = "authenticating"]
         IN  Sound(t) /\ t.outbox = s.outbox
  BY DEF Sound, SockType

(* one whose server is ready, its outbox sent,                               *)
LEMMA ReadySound ==
  ASSUME NEW s \in SockType, Sound(s), s.ws = "auth"
  PROVE  LET t == Flushed([s EXCEPT !.ws = "live", !.tried = FALSE,
                                    !.state = "open", !.probing = TRUE])
         IN  Sound(t) /\ t.outbox = <<>>
  <1> DEFINE t == [s EXCEPT !.ws = "live", !.tried = FALSE,
                            !.state = "open", !.probing = TRUE]
  <1>1. t \in SockType /\ t.ws = "live" /\ t.old = 0 /\ ~t.timer
    BY DEF Sound, SockType
  <1>2. <<>> \in Seq(1 .. MaxCommands) /\ Len(<<>>) = 0
    OBVIOUS
  <1> HIDE DEF t
  <1>3. Flushed(t) \in SockType /\ Flushed(t).outbox = <<>> /\ Flushed(t).ws = "live"
        /\ Flushed(t).old = 0 /\ ~Flushed(t).timer
    BY <1>1, <1>2 DEF Flushed, SockType
  <1>4. Sound(Flushed(t))
    BY <1>2, <1>3, SocketBoundsAssumption DEF Sound, SocketBoundsAssumption
  <1> QED
    BY <1>3, <1>4 DEF t

(* and one that heard a probe.                                               *)
LEMMA PongSound ==
  ASSUME NEW s \in SockType, Sound(s), s.fresh + s.old < Confident
  PROVE  LET t == [s EXCEPT !.fresh = @ + 1]
         IN  Sound(t) /\ t.outbox = s.outbox /\ t.ws = s.ws /\ t.timer = s.timer
  <1> DEFINE t == [s EXCEPT !.fresh = @ + 1]
  <1>1. s.old = 0 /\ s.fresh \in 0 .. Confident /\ Confident \in Nat
    BY SocketBoundsAssumption DEF Sound, SockType, SocketBoundsAssumption
  <1>2. s.fresh + 1 \in 0 .. Confident
    BY <1>1
  <1>3. t \in SockType
    BY <1>2 DEF SockType
  <1>4. /\ t.outbox = s.outbox /\ t.ws = s.ws /\ t.timer = s.timer
        /\ t.state = s.state /\ t.old = s.old
    BY DEF SockType
  <1> HIDE DEF t
  <1>5. Sound(t)
    BY <1>3, <1>4 DEF Sound
  <1> QED
    BY <1>4, <1>5 DEF t

(* The commands: where each of them is.                                      *)
Waiting(n) == ToSet(socks[n].outbox)
Once(q) == \A i, j \in DOMAIN q : q[i] = q[j] => i = j

CommandsInv ==
  /\ built \in 0 .. MaxSockets /\ given \in 0 .. MaxCommands
  /\ wired \in Seq(1 .. MaxCommands) /\ forgotten \subseteq 1 .. MaxCommands
  /\ \A k : k \in 1 .. given <=> \/ k \in ToSet(wired) \cup forgotten
                                 \/ \E n \in 1 .. MaxSockets : k \in Waiting(n)
  /\ Once(wired) /\ ToSet(wired) \cap forgotten = {}
  /\ \A n \in 1 .. MaxSockets :
       /\ Once(socks[n].outbox) /\ (n > built => socks[n].outbox = <<>>)
       /\ Waiting(n) \cap (ToSet(wired) \cup forgotten) = {}
  /\ \A m, n \in 1 .. MaxSockets : m # n => Waiting(m) \cap Waiting(n) = {}

(* A step that keeps every outbox keeps where the commands are.              *)
LEMMA OutboxesKept ==
  ASSUME CommandsInv, built' = built, UNCHANGED <<given, wired, forgotten>>,
         \A n \in 1 .. MaxSockets : socks'[n].outbox = socks[n].outbox
  PROVE  CommandsInv'
  <1>1. \A n \in 1 .. MaxSockets : Waiting(n)' = Waiting(n)
    BY DEF Waiting
  <1> QED
    BY <1>1 DEF CommandsInv

(* One socket changes, and what it holds with it or not.                     *)
LEMMA BecomesStep ==
  ASSUME SocksInv, NEW n \in 1 .. MaxSockets, NEW s, Sound(s), Becomes(n, s),
         call'[n] # "none" => ~s.timer /\ s.ws = "none",
         \A m \in 1 .. MaxSockets : m # n => call'[m] = call[m]
  PROVE  SocksInv'
  BY SoundTyped DEF SocksInv, Becomes, Calm

(* A socket that keeps its outbox keeps every command in its place.          *)
LEMMA BecomesKept ==
  ASSUME SocksInv, CommandsInv, NEW n \in 1 .. MaxSockets, NEW s, Becomes(n, s),
         s.outbox = socks[n].outbox, NoCommand
  PROVE  CommandsInv'
  <1>1. \A m \in 1 .. MaxSockets : socks'[m].outbox = socks[m].outbox
    BY DEF SocksInv, Becomes
  <1> QED
    BY <1>1, OutboxesKept DEF Becomes, NoCommand

(* Every socket there may be is typed and sound.                             *)
LEMMA SockHere ==
  ASSUME SocksInv, NEW n \in 1 .. MaxSockets
  PROVE  socks[n] \in SockType /\ Sound(socks[n]) /\ Calm(n)
  BY DEF SocksInv, Sound

(* The back-off's timer asks for a ticket.                                   *)
LEMMA TimerOfSocket ==
  ASSUME SessionInv, SocksInv, CommandsInv, NEW n \in 1 .. MaxSockets, ReconnectTimer(n)
  PROVE  SessionInv' /\ SocksInv' /\ CommandsInv'
  <1> DEFINE s == [socks[n] EXCEPT !.timer = FALSE]
  <1>1. /\ Sound(s) /\ s.outbox = socks[n].outbox /\ s.ws = socks[n].ws /\ ~s.timer
        /\ Sound(Connecting(s)) /\ Connecting(s).outbox = socks[n].outbox
        /\ Connecting(s).ws = socks[n].ws /\ ~Connecting(s).timer
    BY SockHere, ConnectingSound
  <1>2. socks[n].ws = "none"
    BY SockHere DEF ReconnectTimer, Sound
  <1>3. /\ NoCommand
        /\ \/ Becomes(n, Connecting(s)) /\ call' = Asking(call, n)
           \/ Becomes(n, s) /\ UNCHANGED call
        /\ UNCHANGED <<refreshes, form, cookie, who, token, expired, timer, sender, kinds, rows, reused,
                       strayed, late, faults, ages>>
    BY DEF ReconnectTimer, tabVars, serverVars, worldVars
  <1>4. n \in Callers /\ call \in CallStates
    BY CallerNames DEF SessionInv, SessionTypeOK
  <1>5. call' \in CallStates
        /\ \A m \in 1 .. MaxSockets : m # n => call'[m] = call[m]
    BY <1>3, <1>4, CallerNames DEF Asking
  <1>6. SessionInv'
    BY <1>3, <1>5, AsideStep, Counted
  <1> HIDE DEF s
  <1>7. SocksInv'
    BY <1>1, <1>2, <1>3, <1>5, BecomesStep
  <1>8. CommandsInv'
    BY <1>1, <1>3, BecomesKept
  <1> QED
    BY <1>6, <1>7, <1>8

(* A ticket that arrives, or fails, moves its own socket only.               *)
LEMMA TicketStep ==
  ASSUME SessionInv, SocksInv, CommandsInv, NEW n \in 1 .. MaxSockets,
         TicketAnswers(n) \/ TicketFails(n)
  PROVE  SessionInv' /\ SocksInv' /\ CommandsInv'
  <1> DEFINE t == [socks[n] EXCEPT !.ws = "dialing"]
             u == ScheduleReconnect(socks[n])
  <1>1. /\ call' = [call EXCEPT ![n] = "none"] /\ NoCommand
        /\ UNCHANGED <<refreshes, form, cookie, who, token, expired, timer, sender, kinds, rows, reused,
                       strayed, late, faults, ages>>
        /\ call[n] # "none" /\ (Becomes(n, t) \/ Becomes(n, u))
    BY DEF TicketAnswers, TicketFails, TicketDone, Answerable, tabVars, serverVars, worldVars
  <1>2. n \in Callers /\ call \in CallStates
    BY CallerNames DEF SessionInv, SessionTypeOK
  <1>3. call' \in CallStates
        /\ call'[n] = "none" /\ \A m \in 1 .. MaxSockets : m # n => call'[m] = call[m]
    BY <1>1, <1>2, CallerNames
  <1>4. socks[n].ws = "none" /\ ~socks[n].timer
    BY <1>1, SockHere DEF Calm
  <1>5. Sound(t) /\ t.outbox = socks[n].outbox /\ Sound(u) /\ u.outbox = socks[n].outbox
    <2>1. socks[n].old = 0 /\ Len(socks[n].outbox) <= MaxOutbox
      BY SockHere DEF Sound
    <2> QED
      BY <2>1, <1>4, SockHere, DialSound, ScheduleSound
  <1>6. SessionInv'
    BY <1>1, <1>3, AsideStep, Counted
  <1> HIDE DEF t, u
  <1>7. SocksInv'
    BY <1>1, <1>3, <1>5, BecomesStep
  <1>8. CommandsInv'
    BY <1>1, <1>5, BecomesKept
  <1> QED
    BY <1>6, <1>7, <1>8

(* A step that leaves the session alone keeps it honest.                     *)
LEMMA SessionKept ==
  ASSUME SessionInv, Alone
  PROVE  SessionInv' /\ call' = call
  <1>1. UNCHANGED <<who, token, expired, timer, sender, refreshes, call, form, cookie, kinds, rows,
                    reused, strayed, late, faults, ages>>
    BY DEF Alone, sessionVars
  <1> QED
    BY <1>1, AsideStep, Counted

(* Opening and probing move one socket and no command.                       *)
LEMMA OpenedStep ==
  ASSUME SessionInv, SocksInv, CommandsInv, NEW n \in 1 .. MaxSockets, Opened(n) \/ Pong(n)
  PROVE  SessionInv' /\ SocksInv' /\ CommandsInv'
  <1> DEFINE t == [socks[n] EXCEPT !.ws = "auth", !.state = "authenticating"]
             u == [socks[n] EXCEPT !.fresh = @ + 1]
  <1>1. /\ Alone /\ NoCommand /\ socks[n].ws # "none"
        /\ \/ Becomes(n, t) /\ socks[n].ws = "dialing"
           \/ Becomes(n, u) /\ socks[n].fresh + socks[n].old < Confident
    BY DEF Opened, Pong
  <1>2. SessionInv' /\ call' = call
    BY <1>1, SessionKept
  <1>3. call[n] = "none"
    BY <1>1, SockHere DEF Calm
  <1>4. CASE Becomes(n, t) /\ socks[n].ws = "dialing"
    <2>1. Sound(t) /\ t.outbox = socks[n].outbox
      BY <1>4, SockHere, OpenedSound
    <2> HIDE DEF t
    <2> QED
      BY <2>1, <1>1, <1>2, <1>3, <1>4, BecomesStep, BecomesKept
  <1>5. CASE Becomes(n, u) /\ socks[n].fresh + socks[n].old < Confident
    <2>1. Sound(u) /\ u.outbox = socks[n].outbox
      BY <1>5, SockHere, PongSound
    <2> HIDE DEF u
    <2> QED
      BY <2>1, <1>1, <1>2, <1>3, <1>5, BecomesStep, BecomesKept
  <1> QED
    BY <1>1, <1>4, <1>5

(* A dropped connection moves one socket and no command.                     *)
LEMMA DropStep ==
  ASSUME SessionInv, SocksInv, CommandsInv, NEW n \in 1 .. MaxSockets, Drops(n)
  PROVE  SessionInv' /\ SocksInv' /\ CommandsInv'
  <1>1. /\ socks[n].ws # "none" /\ NoCommand /\ Becomes(n, OnClose(socks[n]))
        /\ UNCHANGED <<refreshes, call, form, cookie, who, token, expired, timer, sender, kinds, rows,
                       reused, strayed, late, ages>>
        /\ faults < MaxFaults /\ faults' = faults + 1
    BY DEF Drops, tabVars, serverVars
  <1>2. faults' \in 0 .. MaxFaults
    BY <1>1, Counted, SessionBoundsAssumption DEF SessionBoundsAssumption
  <1>3. SessionInv'
    BY <1>1, <1>2, AsideStep, Counted
  <1>4. Sound(OnClose(socks[n])) /\ OnClose(socks[n]).outbox = socks[n].outbox
        /\ call[n] = "none"
    BY <1>1, SockHere, CloseSound DEF Calm
  <1>5. SocksInv' /\ CommandsInv'
    BY <1>1, <1>4, BecomesStep, BecomesKept
  <1> QED
    BY <1>3, <1>5

\* Two lists that repeat nothing and share nothing make one that repeats nothing.
LEMMA ConcatOnce ==
  ASSUME NEW S, NEW a \in Seq(S), NEW b \in Seq(S), Once(a), Once(b),
         ToSet(a) \cap ToSet(b) = {}
  PROVE  Once(a \o b) /\ ToSet(a \o b) = ToSet(a) \cup ToSet(b)
  <1>1. /\ Len(a) \in Nat /\ Len(b) \in Nat /\ Len(a \o b) = Len(a) + Len(b)
        /\ DOMAIN a = 1 .. Len(a) /\ DOMAIN b = 1 .. Len(b)
        /\ DOMAIN (a \o b) = 1 .. Len(a) + Len(b)
    OBVIOUS
  <1>2. \A i \in 1 .. Len(a) : (a \o b)[i] = a[i]
    OBVIOUS
  <1>3. \A i \in 1 .. Len(b) : (a \o b)[Len(a) + i] = b[i]
    OBVIOUS
  <1>4. \A i \in 1 .. Len(a) + Len(b) :
          i \in 1 .. Len(a) \/ (i - Len(a) \in 1 .. Len(b) /\ i = Len(a) + (i - Len(a)))
    BY <1>1
  <1> DEFINE c == a \o b
  <1> HIDE DEF c
  <1>5. DOMAIN c = 1 .. Len(a) + Len(b)
        /\ (\A i \in 1 .. Len(a) : c[i] = a[i])
        /\ \A i \in 1 .. Len(b) : c[Len(a) + i] = b[i]
    BY <1>1, <1>2, <1>3 DEF c
  <1>9. \A i \in 1 .. Len(a) + Len(b) :
          i \notin 1 .. Len(a) => i - Len(a) \in 1 .. Len(b) /\ c[i] = b[i - Len(a)]
    <2> TAKE i \in 1 .. Len(a) + Len(b)
    <2> HAVE i \notin 1 .. Len(a)
    <2>1. i - Len(a) \in 1 .. Len(b) /\ i = Len(a) + (i - Len(a))
      BY <1>4
    <2>2. c[Len(a) + (i - Len(a))] = b[i - Len(a)]
      BY <2>1, <1>5
    <2> QED
      BY <2>1, <2>2
  <1>6. ToSet(c) = ToSet(a) \cup ToSet(b)
    <2>1. ToSet(c) \subseteq ToSet(a) \cup ToSet(b)
      <3> SUFFICES ASSUME NEW i \in 1 .. Len(a) + Len(b)
                   PROVE  c[i] \in ToSet(a) \cup ToSet(b)
        BY <1>5 DEF ToSet
      <3>1. CASE i \in 1 .. Len(a)
        BY <3>1, <1>1, <1>5 DEF ToSet
      <3>2. CASE i \notin 1 .. Len(a)
        BY <3>2, <1>1, <1>9 DEF ToSet
      <3> QED
        BY <3>1, <3>2
    <2>2. ToSet(a) \subseteq ToSet(c)
      BY <1>1, <1>5 DEF ToSet
    <2>3. ToSet(b) \subseteq ToSet(c)
      <3>1. \A i \in 1 .. Len(b) : Len(a) + i \in 1 .. Len(a) + Len(b)
        BY <1>1
      <3> QED
        BY <1>1, <1>5, <3>1 DEF ToSet
    <2> QED
      BY <2>1, <2>2, <2>3
  <1>7. \A i \in 1 .. Len(a), j \in 1 .. Len(b) : a[i] # b[j]
    BY <1>1 DEF ToSet
  <1>8. Once(c)
    <2> SUFFICES ASSUME NEW i \in 1 .. Len(a) + Len(b), NEW j \in 1 .. Len(a) + Len(b),
                        c[i] = c[j]
                 PROVE  i = j
      BY <1>5 DEF Once
    <2>1. CASE i \in 1 .. Len(a) /\ j \in 1 .. Len(a)
      <3>1. c[i] = a[i] /\ c[j] = a[j]
        BY <2>1, <1>5
      <3> QED
        BY <2>1, <3>1, <1>1 DEF Once
    <2>2. CASE i \in 1 .. Len(a) /\ j \notin 1 .. Len(a)
      <3>1. c[i] = a[i]
        BY <2>2, <1>5
      <3>2. j - Len(a) \in 1 .. Len(b) /\ c[j] = b[j - Len(a)]
        BY <2>2, <1>9
      <3> QED
        BY <2>2, <3>1, <3>2, <1>7
    <2>3. CASE i \notin 1 .. Len(a) /\ j \in 1 .. Len(a)
      <3>1. c[j] = a[j]
        BY <2>3, <1>5
      <3>2. i - Len(a) \in 1 .. Len(b) /\ c[i] = b[i - Len(a)]
        BY <2>3, <1>9
      <3> QED
        BY <2>3, <3>1, <3>2, <1>7
    <2>4. CASE i \notin 1 .. Len(a) /\ j \notin 1 .. Len(a)
      <3>1. b[i - Len(a)] = b[j - Len(a)]
        BY <2>4, <1>9
      <3>2. i - Len(a) = j - Len(a)
        BY <3>1, <2>4, <1>1, <1>9 DEF Once
      <3> QED
        BY <3>2, <1>1
    <2> QED
      BY <2>1, <2>2, <2>3, <2>4
  <1> QED
    BY <1>6, <1>8 DEF c

(* Neither does a list with a new element at its end.                        *)
LEMMA AppendOnce ==
  ASSUME NEW S, NEW a \in Seq(S), NEW e \in S, Once(a), e \notin ToSet(a)
  PROVE  /\ Append(a, e) \in Seq(S) /\ Once(Append(a, e)) /\ Len(Append(a, e)) = Len(a) + 1
         /\ ToSet(Append(a, e)) = ToSet(a) \cup {e}
  <1>1. /\ Len(a) \in Nat /\ DOMAIN a = 1 .. Len(a)
        /\ Append(a, e) \in Seq(S) /\ Len(Append(a, e)) = Len(a) + 1
        /\ DOMAIN Append(a, e) = 1 .. Len(a) + 1
        /\ \A i \in 1 .. Len(a) : Append(a, e)[i] = a[i]
        /\ Append(a, e)[Len(a) + 1] = e
    OBVIOUS
  <1> DEFINE c == Append(a, e)
  <1> HIDE DEF c
  <1>2. /\ DOMAIN c = 1 .. Len(a) + 1 /\ c[Len(a) + 1] = e
        /\ \A i \in 1 .. Len(a) : c[i] = a[i]
    BY <1>1 DEF c
  <1>3. \A i \in 1 .. Len(a) + 1 : i \in 1 .. Len(a) \/ i = Len(a) + 1
    BY <1>1
  <1>4. ToSet(c) = ToSet(a) \cup {e}
    BY <1>1, <1>2, <1>3 DEF ToSet
  <1>5. Once(c)
    BY <1>1, <1>2, <1>3 DEF Once, ToSet
  <1> QED
    BY <1>1, <1>4, <1>5 DEF c

(* A list that repeats nothing has its head only at its head.                *)
LEMMA TailOnce ==
  ASSUME NEW S, NEW a \in Seq(S), Once(a), a # <<>>
  PROVE  /\ Tail(a) \in Seq(S) /\ Once(Tail(a)) /\ Len(Tail(a)) = Len(a) - 1
         /\ ToSet(Tail(a)) \subseteq ToSet(a)
  <1>1. /\ Len(a) \in Nat /\ DOMAIN a = 1 .. Len(a) /\ Tail(a) \in Seq(S)
        /\ Len(Tail(a)) = Len(a) - 1 /\ Len(a) # 0
        /\ DOMAIN Tail(a) = 1 .. Len(a) - 1
        /\ \A i \in 1 .. Len(a) - 1 : Tail(a)[i] = a[i + 1]
    OBVIOUS
  <1> DEFINE c == Tail(a)
  <1> HIDE DEF c
  <1>2. DOMAIN c = 1 .. Len(a) - 1 /\ \A i \in 1 .. Len(a) - 1 : c[i] = a[i + 1]
    BY <1>1 DEF c
  <1>3. \A i \in 1 .. Len(a) - 1 : i \in Int /\ i + 1 \in 1 .. Len(a)
    BY <1>1
  <1>4. ToSet(c) \subseteq ToSet(a)
    BY <1>1, <1>2, <1>3 DEF ToSet
  <1>5. Once(c)
    <2> SUFFICES ASSUME NEW i \in 1 .. Len(a) - 1, NEW j \in 1 .. Len(a) - 1, c[i] = c[j]
                 PROVE  i = j
      BY <1>2 DEF Once
    <2>1. i + 1 = j + 1
      BY <1>1, <1>2, <1>3 DEF Once
    <2> QED
      BY <2>1, <1>3
  <1> QED
    BY <1>1, <1>4, <1>5 DEF c

(* An outbox is a short list of commands given.                              *)
LEMMA OutboxHere ==
  ASSUME SocksInv, CommandsInv, NEW n \in 1 .. MaxSockets
  PROVE  /\ socks[n].outbox \in Seq(1 .. MaxCommands) /\ Once(socks[n].outbox)
         /\ Len(socks[n].outbox) <= MaxOutbox
         /\ Waiting(n) = ToSet(socks[n].outbox)
  BY SockHere DEF CommandsInv, Sound, SockType, Waiting

(* The whole outbox goes to the wire, in order, and leaves the outbox.       *)
LEMMA ReadyStep ==
  ASSUME SessionInv, SocksInv, CommandsInv, NEW n \in 1 .. MaxSockets, Ready(n)
  PROVE  SessionInv' /\ SocksInv' /\ CommandsInv'
  <1> DEFINE t == Flushed([socks[n] EXCEPT !.ws = "live", !.tried = FALSE,
                                           !.state = "open", !.probing = TRUE])
  <1>1. /\ Alone /\ socks[n].ws = "auth" /\ Becomes(n, t)
        /\ wired' = wired \o socks[n].outbox /\ UNCHANGED <<given, forgotten>>
    BY DEF Ready
  <1>2. SessionInv' /\ call' = call
    BY <1>1, SessionKept
  <1>3. call[n] = "none"
    BY <1>1, SockHere DEF Calm
  <1>4. Sound(t) /\ t.outbox = <<>>
    BY <1>1, SockHere, ReadySound
  <1> HIDE DEF t
  <1>5. SocksInv'
    BY <1>1, <1>2, <1>3, <1>4, BecomesStep
  <1>6. /\ wired \in Seq(1 .. MaxCommands) /\ Once(wired)
        /\ ToSet(wired) \cap Waiting(n) = {}
    BY DEF CommandsInv
  <1>7. /\ Once(wired') /\ ToSet(wired') = ToSet(wired) \cup Waiting(n)
        /\ wired' \in Seq(1 .. MaxCommands)
    BY <1>1, <1>6, OutboxHere, ConcatOnce
  <1>8. /\ \A m \in 1 .. MaxSockets :
             socks'[m].outbox = IF m = n THEN <<>> ELSE socks[m].outbox
        /\ built' = built
    BY <1>1, <1>4 DEF SocksInv, Becomes
  <1>9. ToSet(<<>>) = {} /\ Once(<<>>)
    BY DEF ToSet, Once
  <1>10. \A m \in 1 .. MaxSockets : Waiting(m)' = IF m = n THEN {} ELSE Waiting(m)
    BY <1>8, <1>9 DEF Waiting
  <1>11. \A k : k \in 1 .. given' <=> \/ k \in ToSet(wired') \cup forgotten'
                                      \/ \E m \in 1 .. MaxSockets : k \in Waiting(m)'
    BY <1>1, <1>7, <1>10 DEF CommandsInv
  <1>12. \A m \in 1 .. MaxSockets :
           /\ Once(socks'[m].outbox) /\ (m > built' => socks'[m].outbox = <<>>)
           /\ Waiting(m)' \cap (ToSet(wired') \cup forgotten') = {}
    BY <1>1, <1>7, <1>8, <1>9, <1>10 DEF CommandsInv
  <1>13. \A m, o \in 1 .. MaxSockets : m # o => Waiting(m)' \cap Waiting(o)' = {}
    BY <1>10 DEF CommandsInv
  <1>14. ToSet(wired') \cap forgotten' = {}
    BY <1>1, <1>7 DEF CommandsInv
  <1>15. CommandsInv'
    BY <1>1, <1>7, <1>8, <1>11, <1>12, <1>13, <1>14 DEF CommandsInv
  <1> QED
    BY <1>2, <1>5, <1>15

(* The next command is nowhere yet.                                          *)
LEMMA NextCommand ==
  ASSUME CommandsInv, SocksInv, given < MaxCommands
  PROVE  /\ given \in Nat /\ given + 1 \in 1 .. MaxCommands /\ given + 1 \in 0 .. MaxCommands
         /\ given + 1 \notin ToSet(wired) \cup forgotten
         /\ \A n \in 1 .. MaxSockets : given + 1 \notin Waiting(n)
         /\ \A k : k \in 1 .. (given + 1) <=> k \in 1 .. given \/ k = given + 1
  <1>1. given \in Nat /\ given + 1 \notin 1 .. given
    BY DEF CommandsInv
  <1> QED
    BY <1>1, SocketBoundsAssumption DEF CommandsInv, SocketBoundsAssumption

(* A command sent at once goes to the wire.                                  *)
LEMMA SendNowStep ==
  ASSUME SessionInv, SocksInv, CommandsInv, NEW n \in 1 .. MaxSockets,
         Send(n), SendNow(n)
  PROVE  SessionInv' /\ SocksInv' /\ CommandsInv'
  <1>1. /\ given < MaxCommands /\ given' = given + 1 /\ UNCHANGED built /\ Alone
        /\ wired' = Append(wired, given + 1) /\ UNCHANGED <<socks, forgotten>>
    BY DEF Send, SendNow
  <1>2. SessionInv' /\ call' = call
    BY <1>1, SessionKept
  <1>3. SocksInv'
    BY <1>1, <1>2 DEF SocksInv, Calm
  <1>4. /\ wired' \in Seq(1 .. MaxCommands) /\ Once(wired')
        /\ ToSet(wired') = ToSet(wired) \cup {given + 1}
    BY <1>1, NextCommand, AppendOnce DEF CommandsInv
  <1>5. \A m \in 1 .. MaxSockets : Waiting(m)' = Waiting(m)
    BY <1>1 DEF Waiting
  <1>6. \A k : k \in 1 .. given' <=> \/ k \in ToSet(wired') \cup forgotten'
                                     \/ \E m \in 1 .. MaxSockets : k \in Waiting(m)'
    BY <1>1, <1>4, <1>5, NextCommand DEF CommandsInv
  <1>7. CommandsInv'
    BY <1>1, <1>4, <1>5, <1>6, NextCommand DEF CommandsInv
  <1> QED
    BY <1>2, <1>3, <1>7

(* A socket that is not open may keep a bounded outbox.                      *)
LEMMA OutboxSound ==
  ASSUME NEW s \in SockType, Sound(s), s.state # "open", NEW q \in Seq(1 .. MaxCommands),
         Len(q) <= MaxOutbox
  PROVE  LET t == [s EXCEPT !.outbox = q]
         IN  Sound(t) /\ t.outbox = q /\ t.ws = s.ws /\ t.timer = s.timer
  BY DEF Sound, SockType

(* A command kept pushes the oldest of a full outbox out.                    *)
LEMMA SendLaterStep ==
  ASSUME SessionInv, SocksInv, CommandsInv, NEW n \in 1 .. MaxSockets, n <= built,
         Send(n), SendLater(n)
  PROVE  SessionInv' /\ SocksInv' /\ CommandsInv'
  <1> DEFINE q == Append(socks[n].outbox, given + 1)
             t == [socks[n] EXCEPT !.outbox = Kept(q)]
  <1>1. /\ given < MaxCommands /\ given' = given + 1 /\ UNCHANGED <<built, wired>> /\ Alone
        /\ ~IsOpen(socks[n]) /\ socks' = [socks EXCEPT ![n] = t]
        /\ forgotten' = forgotten \cup (ToSet(q) \ ToSet(Kept(q)))
    BY DEF Send, SendLater
  <1>2. SessionInv' /\ call' = call
    BY <1>1, SessionKept
  <1>3. /\ q \in Seq(1 .. MaxCommands) /\ Once(q) /\ Len(q) = Len(socks[n].outbox) + 1
        /\ ToSet(q) = Waiting(n) \cup {given + 1}
    <2>1. /\ socks[n].outbox \in Seq(1 .. MaxCommands) /\ Once(socks[n].outbox)
          /\ Waiting(n) = ToSet(socks[n].outbox)
      BY OutboxHere
    <2>2. given + 1 \in 1 .. MaxCommands /\ given + 1 \notin ToSet(socks[n].outbox)
      BY <2>1, <1>1, NextCommand
    <2> DEFINE s == socks[n].outbox
               S == 1 .. MaxCommands
               e == given + 1
    <2> HIDE DEF s, S, e
    <2>3. s \in Seq(S) /\ Once(s) /\ e \in S /\ e \notin ToSet(s)
      BY <2>1, <2>2 DEF s, S, e
    <2>4. /\ Append(s, e) \in Seq(S) /\ Once(Append(s, e))
          /\ Len(Append(s, e)) = Len(s) + 1 /\ ToSet(Append(s, e)) = ToSet(s) \cup {e}
      BY <2>3, AppendOnce
    <2> QED
      BY <2>1, <2>4 DEF s, S, e
  <1>4. Len(q) \in Nat /\ Len(q) <= MaxOutbox + 1 /\ q # <<>>
    <2>1. socks[n].outbox \in Seq(1 .. MaxCommands) /\ Len(socks[n].outbox) <= MaxOutbox
      BY OutboxHere
    <2>2. Len(socks[n].outbox) \in Nat /\ MaxOutbox \in Nat
      BY <2>1, SocketBoundsAssumption DEF SocketBoundsAssumption
    <2> HIDE DEF q
    <2>3. Len(q) # 0
      BY <1>3, <2>2
    <2>4. q # <<>>
      BY <2>3
    <2> QED
      BY <1>3, <2>1, <2>2, <2>4
  <1> HIDE DEF q
  <1>5. /\ Kept(q) \in Seq(1 .. MaxCommands) /\ Once(Kept(q)) /\ Len(Kept(q)) <= MaxOutbox
        /\ ToSet(Kept(q)) \subseteq ToSet(q)
    <2>1. CASE Len(q) > MaxOutbox
      <3>1. Kept(q) = Tail(q)
        BY <2>1 DEF Kept
      <3>2. Tail(q) \in Seq(1 .. MaxCommands) /\ Once(Tail(q)) /\ Len(Tail(q)) = Len(q) - 1
            /\ ToSet(Tail(q)) \subseteq ToSet(q)
        BY <1>3, <1>4, TailOnce
      <3> QED
        BY <3>1, <3>2, <1>4, SocketBoundsAssumption DEF SocketBoundsAssumption
    <2>2. CASE ~(Len(q) > MaxOutbox)
      BY <2>2, <1>3, <1>4, SocketBoundsAssumption DEF Kept, SocketBoundsAssumption
    <2> QED
      BY <2>1, <2>2
  <1>6. socks[n].state # "open"
    BY <1>1, SockHere DEF Sound, IsOpen
  <1>7. /\ Sound(t) /\ t.outbox = Kept(q) /\ t.ws = socks[n].ws
        /\ t.timer = socks[n].timer
    BY <1>5, <1>6, SockHere, OutboxSound
  <1> HIDE DEF t
  <1>8. SocksInv'
    BY <1>1, <1>2, <1>7, SoundTyped DEF SocksInv, Calm
  <1>9. \A m \in 1 .. MaxSockets :
           socks'[m].outbox = IF m = n THEN Kept(q) ELSE socks[m].outbox
    BY <1>1, <1>7 DEF SocksInv
  <1>10. \A m \in 1 .. MaxSockets :
           Waiting(m)' = IF m = n THEN ToSet(Kept(q)) ELSE Waiting(m)
    BY <1>9 DEF Waiting
  <1>11. forgotten' \subseteq 1 .. MaxCommands
    <2>1. ToSet(q) \subseteq 1 .. MaxCommands
      <3>1. \A k \in Waiting(n) : k \in 1 .. given /\ given \in 0 .. MaxCommands
        BY DEF CommandsInv
      <3>2. Waiting(n) \subseteq 1 .. MaxCommands
        BY <3>1, SocketBoundsAssumption DEF SocketBoundsAssumption
      <3> QED
        BY <3>2, <1>1, <1>3, NextCommand
    <2> QED
      BY <2>1, <1>1 DEF CommandsInv
  <1>12. \A k : k \in 1 .. given' <=> \/ k \in ToSet(wired') \cup forgotten'
                                      \/ \E m \in 1 .. MaxSockets : k \in Waiting(m)'
    <2>1. \A k : k \in 1 .. given' <=> \/ k \in ToSet(wired) \cup forgotten \cup ToSet(q)
                                       \/ \E m \in 1 .. MaxSockets \ {n} : k \in Waiting(m)
      BY <1>1, <1>3, NextCommand DEF CommandsInv
    <2>2. \A k : (\E m \in 1 .. MaxSockets : k \in Waiting(m)')
                   <=> k \in ToSet(Kept(q)) \/ \E m \in 1 .. MaxSockets \ {n} : k \in Waiting(m)
      BY <1>10
    <2> QED
      BY <2>1, <2>2, <1>1, <1>5
  <1>13. \A m \in 1 .. MaxSockets :
           /\ Once(socks'[m].outbox) /\ (m > built' => socks'[m].outbox = <<>>)
           /\ Waiting(m)' \cap (ToSet(wired') \cup forgotten') = {}
    <2> SUFFICES ASSUME NEW m \in 1 .. MaxSockets
                 PROVE  /\ Once(socks'[m].outbox) /\ (m > built' => socks'[m].outbox = <<>>)
                        /\ Waiting(m)' \cap (ToSet(wired') \cup forgotten') = {}
      OBVIOUS
    <2>0. ~(n > built)
      BY DEF CommandsInv
    <2>1. CASE m = n
      BY <2>1, <2>0, <1>1, <1>3, <1>5, <1>9, <1>10, NextCommand DEF CommandsInv
    <2>2. CASE m # n
      BY <2>2, <1>1, <1>3, <1>9, <1>10, NextCommand DEF CommandsInv
    <2> QED
      BY <2>1, <2>2
  <1>14. \A m, o \in 1 .. MaxSockets : m # o => Waiting(m)' \cap Waiting(o)' = {}
    BY <1>3, <1>5, <1>10, <1>1, NextCommand DEF CommandsInv
  <1>15. ToSet(wired') \cap forgotten' = {}
    BY <1>1, <1>3, NextCommand DEF CommandsInv
  <1>16. CommandsInv'
    BY <1>1, <1>11, <1>12, <1>13, <1>14, <1>15, NextCommand DEF CommandsInv
  <1> QED
    BY <1>2, <1>8, <1>16

------------------------------------------------------------------------------
(* The page, and the tab as a whole.                                        *)

PageTyped ==
  /\ page \in Routes /\ lookup \in {"none", "asking", "found", "missing", "stale"}
  /\ mounted \in 0 .. built /\ visits \in 0 .. MaxVisits

ClientInv == SessionInv /\ SocksInv /\ CommandsInv /\ PageTyped

(* Requests of the session end or move on; none is made in a socket's name.  *)
LEMMA CallsCalm ==
  ASSUME SocksInv, CommandsInv, UNCHANGED socketVars,
         \A n \in 1 .. MaxSockets : call'[n] # "none" => call[n] # "none"
  PROVE  SocksInv' /\ CommandsInv'
  <1>1. UNCHANGED <<socks, built, given, wired, forgotten>>
    BY DEF socketVars
  <1>2. SocksInv'
    BY <1>1 DEF SocksInv, Calm
  <1> QED
    BY <1>1, <1>2, OutboxesKept

(* A socket's call is neither the first request's nor the form's.            *)
LEMMA SocketNames == \A n \in 1 .. MaxSockets : n \in Callers /\ n # Boot /\ n # Form
  BY SessionBoundsAssumption DEF SessionBoundsAssumption, Callers, Boot, Form

(* What the session does leaves the sockets and the page alone.              *)
LEMMA UnmovedStep ==
  ASSUME ClientInv, SessionInv', Unmoved,
         \A n \in 1 .. MaxSockets : call'[n] # "none" => call[n] # "none"
  PROVE  ClientInv'
  <1>1. UNCHANGED socketVars /\ UNCHANGED <<page, lookup, mounted, visits, built>>
    BY DEF Unmoved, clientVars, socketVars
  <1>2. SocksInv' /\ CommandsInv'
    BY <1>1, CallsCalm DEF ClientInv
  <1> QED
    BY <1>1, <1>2 DEF ClientInv, PageTyped

(* The state of every call is one of those there are.                        *)
LEMMA CallsHere ==
  ASSUME SessionInv
  PROVE  call \in CallStates
  BY DEF SessionInv, SessionTypeOK

(* Refreshes move no socket.                                                 *)
LEMMA RefreshesStep ==
  ASSUME ClientInv, Refreshes \/ Refused
  PROVE  ClientInv'
  <1>1. CASE ServerRefreshes /\ Unmoved
    <2>1. call' = call
      BY <1>1 DEF ServerRefreshes
    <2> QED
      BY <1>1, <2>1, ServerStep, UnmovedStep DEF ClientInv
  <1>2. CASE RefreshLands /\ Unmoved
    <2>1. \A n \in 1 .. MaxSockets : call'[n] # "none" => call[n] # "none"
      BY <1>2, SocketNames DEF RefreshLands
    <2> QED
      BY <1>2, <2>1, LandsStep, UnmovedStep DEF ClientInv
  <1>3. CASE RefreshDenied /\ Unmoved
    <2>1. \A n \in 1 .. MaxSockets : call'[n] # "none" => call[n] # "none"
      BY <1>3, SocketNames DEF RefreshDenied
    <2> QED
      BY <1>3, <2>1, DeniedStep, UnmovedStep DEF ClientInv
  <1> QED
    BY <1>1, <1>2, <1>3 DEF Refreshes, Refused

(* A call of the page's own moves no socket's call.                          *)
LEMMA OthersCall ==
  ASSUME SessionInv, NEW c \in Callers, NEW p,
         call' = [call EXCEPT ![c] = p], c \in {Boot, Form} \/ call[c] # "none"
  PROVE  \A n \in 1 .. MaxSockets : call'[n] # "none" => call[n] # "none"
  BY CallsHere, SocketNames

(* The requests of the page itself.                                          *)
LEMMA PageStep ==
  ASSUME ClientInv, Page
  PROVE  ClientInv'
  <1> USE CallerNames DEF ClientInv
  <1>1. CASE Unauthorized(Form) /\ Unmoved
    BY <1>1, UnauthorizedStep, UnmovedStep, OthersCall DEF Unauthorized
  <1>2. CASE (BootAnswers \/ BootFails) /\ Unmoved
    BY <1>2, BootStep, UnmovedStep, OthersCall DEF BootAnswers, BootFails
  <1>3. CASE GuestAnswers /\ Unmoved
    BY <1>3, GuestStep, UnmovedStep, OthersCall DEF GuestAnswers, FormDone
  <1>4. CASE LogoutAnswers /\ Unmoved
    BY <1>4, LogoutStep, UnmovedStep, OthersCall DEF LogoutAnswers, FormDone
  <1>5. CASE (LogoutFails \/ RenameAnswers \/ FormFails) /\ Unmoved
    <2>1. call' = [call EXCEPT ![Form] = "none"]
      BY <1>5 DEF LogoutFails, RenameAnswers, FormFails, FormDone
    <2> QED
      BY <2>1, <1>5, FormEnds, UnmovedStep, OthersCall
  <1>6. CASE CreateAnswers
    <2>1. /\ FormDone /\ page' = "room" /\ lookup' = "asking"
          /\ UNCHANGED <<refreshes, cookie, mounted, visits, who, token, expired, timer, sender, kinds,
                         rows, reused, strayed, late, faults, ages>>
          /\ UNCHANGED socketVars /\ UNCHANGED built
      BY <1>6 DEF CreateAnswers, tabVars, serverVars, worldVars, socketVars
    <2>2. SessionInv'
      BY <2>1, AsideStep, FormStep, Counted
    <2>3. SocksInv' /\ CommandsInv'
      BY <2>1, CallsCalm, OthersCall DEF FormDone
    <2>4. PageTyped'
      BY <2>1 DEF PageTyped, Routes
    <2> QED
      BY <2>2, <2>3, <2>4
  <1> QED
    BY <1>1, <1>2, <1>3, <1>4, <1>5, <1>6 DEF Page

(* Every step of a socket keeps the invariant.                               *)
LEMMA SocketStep ==
  ASSUME ClientInv, NEW n \in 1 .. MaxSockets, Sockets(n)
  PROVE  ClientInv'
  <1> USE DEF ClientInv
  <1>1. UNCHANGED <<page, lookup, mounted, visits>>
    BY DEF Sockets, clientVars
  <1>2. built' = built
    BY DEF Sockets, SocketRuns, ReconnectTimer, TicketAnswers, TicketFails, Opened, Ready,
           Pong, Becomes, TicketRefused, socketVars
  <1>3. PageTyped'
    BY <1>1, <1>2 DEF PageTyped
  <1>4. CASE SocketRuns(n)
    BY <1>3, <1>4, TimerOfSocket, TicketStep, OpenedStep, ReadyStep DEF SocketRuns
  <1>5. CASE TicketRefused(n)
    <2>1. Unauthorized(n) /\ UNCHANGED socketVars /\ n \in Callers
      BY <1>5, SocketNames DEF TicketRefused
    <2>2. SessionInv'
      BY <2>1, UnauthorizedStep
    <2>3. SocksInv' /\ CommandsInv'
      BY <2>1, CallsCalm, OthersCall DEF Unauthorized
    <2> QED
      BY <1>3, <2>2, <2>3
  <1> QED
    BY <1>4, <1>5 DEF Sockets

(* A socket is built when its room is shown, with nothing in its outbox.     *)
LEMMA MountStep ==
  ASSUME ClientInv, MountSocket
  PROVE  ClientInv'
  <1> USE DEF ClientInv
  <1> DEFINE n == built + 1
             s == Connecting(NewSocket)
  <1>1. /\ mounted = 0 /\ built < MaxSockets /\ mounted' = n /\ built' = n
        /\ socks' = [socks EXCEPT ![n] = s] /\ call' = Asking(call, n)
        /\ UNCHANGED <<refreshes, form, cookie, given, wired, forgotten, page, lookup, visits,
                       who, token, expired, timer, sender, kinds, rows, reused, strayed, late, faults, ages>>
    BY DEF MountSocket, tabVars, serverVars, worldVars
  <1>2. built \in Nat /\ n \in 1 .. MaxSockets /\ n \in 0 .. MaxSockets /\ ~(built >= n)
    BY <1>1, SessionBoundsAssumption DEF CommandsInv, SessionBoundsAssumption
  <1>3. s.outbox = <<>> /\ s.ws = "none" /\ ~s.timer /\ Sound(s)
    <2>1. NewSocket \in SockType /\ Sound(NewSocket)
      BY NewSound, SocketBoundsAssumption DEF Sound
    <2>2. NewSocket.outbox = <<>> /\ NewSocket.ws = "none" /\ ~NewSocket.timer
      BY DEF NewSocket
    <2> HIDE DEF NewSocket
    <2> QED
      BY <2>1, <2>2 DEF Connecting, Sound, SockType
  <1> HIDE DEF s
  <1>4. call' \in CallStates
        /\ \A m \in 1 .. MaxSockets : m # n => call'[m] = call[m]
    BY <1>1, <1>2, SocketNames, CallsHere DEF Asking
  <1>5. SessionInv'
    BY <1>1, <1>4, AsideStep, Counted
  <1>6. SocksInv'
    BY <1>1, <1>2, <1>3, <1>4, SoundTyped DEF SocksInv, Calm
  <1>7. socks[n].outbox = <<>>
    BY <1>2 DEF CommandsInv
  <1>8. \A m \in 1 .. MaxSockets : socks'[m].outbox = socks[m].outbox
    BY <1>1, <1>2, <1>3, <1>7 DEF SocksInv
  <1>9. \A m \in 1 .. MaxSockets : Waiting(m)' = Waiting(m)
    BY <1>8 DEF Waiting
  <1>10. \A m \in 1 .. MaxSockets : m > built' => m > built
    BY <1>1, <1>2
  <1>11. CommandsInv'
    BY <1>1, <1>2, <1>8, <1>9, <1>10 DEF CommandsInv
  <1>12. PageTyped'
    BY <1>1, <1>2 DEF PageTyped
  <1> QED
    BY <1>5, <1>6, <1>11, <1>12

(* A socket that is closed for good keeps what it holds.                     *)
LEMMA UnmountStep ==
  ASSUME ClientInv, UnmountSocket
  PROVE  ClientInv'
  <1> USE DEF ClientInv
  <1> DEFINE s == Closed(socks[mounted])
  <1>1. /\ mounted # 0 /\ mounted' = 0 /\ socks' = [socks EXCEPT ![mounted] = s]
        /\ UNCHANGED <<built, given, wired, forgotten, page, lookup, visits>> /\ Alone
    BY DEF UnmountSocket, Alone
  <1>2. mounted \in 1 .. MaxSockets /\ 0 \in 0 .. built
    BY <1>1, SessionBoundsAssumption DEF PageTyped, CommandsInv, SessionBoundsAssumption
  <1>3. SessionInv' /\ call' = call
    BY <1>1, SessionKept
  <1>4. Sound(s) /\ s.outbox = socks[mounted].outbox /\ s.ws = "none" /\ ~s.timer
    BY <1>2, SockHere, ClosedSound
  <1> HIDE DEF s
  <1>5. SocksInv'
    BY <1>1, <1>2, <1>3, <1>4, BecomesStep DEF Becomes
  <1>6. CommandsInv'
    BY <1>1, <1>2, <1>4, BecomesKept DEF Becomes, NoCommand
  <1>7. PageTyped'
    BY <1>1, <1>2 DEF PageTyped
  <1> QED
    BY <1>3, <1>5, <1>6, <1>7

(* Unloading the page closes every socket and moves no command.              *)
LEMMA UnloadStep ==
  ASSUME ClientInv, SessionInv', Unloaded, visits' \in 0 .. MaxVisits,
         \A n \in 1 .. MaxSockets : call'[n] = "none"
  PROVE  ClientInv'
  <1> USE DEF ClientInv
  <1>1. /\ socks' = [n \in DOMAIN socks |-> Closed(socks[n])] /\ mounted' = 0
        /\ lookup' = (IF page = "room" THEN "asking" ELSE "none")
        /\ UNCHANGED <<page, built, given, wired, forgotten>>
    BY DEF Unloaded
  <1>2. \A n \in 1 .. MaxSockets :
          Sound(Closed(socks[n])) /\ Closed(socks[n]).outbox = socks[n].outbox
    BY SockHere, ClosedSound
  <1>3. socks' = [n \in 1 .. MaxSockets |-> Closed(socks[n])]
        /\ \A n \in 1 .. MaxSockets : socks'[n] = Closed(socks[n])
    BY <1>1 DEF SocksInv
  <1>4. SocksInv'
    BY <1>2, <1>3, SoundTyped DEF SocksInv, Calm
  <1>5. CommandsInv'
    BY <1>1, <1>2, <1>3, OutboxesKept
  <1>6. 0 \in 0 .. built
    BY SessionBoundsAssumption DEF CommandsInv, SessionBoundsAssumption
  <1>7. PageTyped'
    BY <1>1, <1>6 DEF PageTyped
  <1> QED
    BY <1>4, <1>5, <1>7

(* Every step of the room's page keeps the invariant.                        *)
LEMMA ShellStep ==
  ASSUME ClientInv, Shell \/ LookupFails
  PROVE  ClientInv'
  <1>1. CASE LookupAnswers
    <2>1. Alone /\ UNCHANGED socketVars /\ UNCHANGED <<page, mounted, visits, built>>
          /\ lookup' = "found"
      BY <1>1 DEF LookupAnswers, Alone, socketVars
    <2>2. SessionInv' /\ call' = call
      BY <2>1, SessionKept DEF ClientInv
    <2> QED
      BY <2>1, <2>2, CallsCalm DEF ClientInv, PageTyped
  <1>2. CASE LookupFails
    <2>1. /\ UNCHANGED <<refreshes, call, form, cookie, strayed, late, ages, page, mounted, visits,
                         who, token, expired, timer, sender, kinds, rows, reused, built>>
          /\ UNCHANGED socketVars /\ faults < MaxFaults /\ faults' = faults + 1
          /\ lookup' \in {"stale", "missing"}
      BY <1>2 DEF LookupFails, tabVars, serverVars, socketVars
    <2>2. faults' \in 0 .. MaxFaults
      BY <2>1, Counted, SessionBoundsAssumption DEF ClientInv, SessionBoundsAssumption
    <2>3. SessionInv'
      BY <2>1, <2>2, AsideStep, Counted DEF ClientInv
    <2> QED
      BY <2>1, <2>3, CallsCalm DEF ClientInv, PageTyped
  <1> QED
    BY <1>1, <1>2, MountStep, UnmountStep DEF Shell

(* Everything a visitor does keeps the invariant.                            *)
LEMMA VisitorStep ==
  ASSUME ClientInv, Visitor
  PROVE  ClientInv'
  <1> USE CallerNames DEF ClientInv
  <1>1. CASE Follows
    <2>1. PICK p \in Routes : Opens(p)
      BY <1>1 DEF Follows
    <2>2. /\ Alone /\ UNCHANGED socketVars /\ UNCHANGED <<mounted, built>>
          /\ page' = p /\ visits < MaxVisits /\ visits' = visits + 1
          /\ lookup' \in {"asking", lookup}
      BY <2>1 DEF Opens, Alone, socketVars
    <2>3. visits' \in 0 .. MaxVisits
      BY <2>2, VisitsAssumption DEF PageTyped, VisitsAssumption
    <2>4. SessionInv' /\ call' = call
      BY <2>2, SessionKept
    <2> QED
      BY <2>2, <2>3, <2>4, CallsCalm DEF PageTyped
  <1>2. CASE JoinsAsGuest \/ SignsOut \/ Renames \/ CreatesRoom
    <2>1. PICK kind \in {"guest", "logout", "rename", "create"} : Submit(kind) /\ Unmoved
      BY <1>2 DEF JoinsAsGuest, SignsOut, Renames, CreatesRoom
    <2>2. \A n \in 1 .. MaxSockets : call'[n] # "none" => call[n] # "none"
      BY <2>1, OthersCall DEF Submit, Asking
    <2> QED
      BY <2>1, <2>2, SubmitStep, UnmovedStep
  <1>3. CASE ReturnsFromGoogle
    <2>1. GoogleReturns /\ Unloaded /\ visits < MaxVisits /\ visits' = visits + 1
      BY <1>3 DEF ReturnsFromGoogle
    <2>2. visits' \in 0 .. MaxVisits
      BY <2>1, VisitsAssumption DEF PageTyped, VisitsAssumption
    <2>3. \A n \in 1 .. MaxSockets : call'[n] = "none"
      BY <2>1, SocketNames DEF GoogleReturns, Booting
    <2> QED
      BY <2>1, <2>2, <2>3, GoogleStep, UnloadStep
  <1>4. CASE ReloadsPage
    <2>1. Reloads /\ Unloaded /\ visits' = visits
      BY <1>4 DEF ReloadsPage
    <2>2. visits' \in 0 .. MaxVisits
      BY <2>1 DEF PageTyped
    <2>3. \A n \in 1 .. MaxSockets : call'[n] = "none"
      BY <2>1, SocketNames DEF Reloads, Booting
    <2> QED
      BY <2>1, <2>2, <2>3, ReloadStep, UnloadStep
  <1>5. CASE Commands
    <2>1. mounted # 0 /\ Send(mounted) /\ UNCHANGED <<page, lookup, mounted, visits, built>>
      BY <1>5 DEF Commands, clientVars, Send
    <2>2. mounted \in 1 .. MaxSockets /\ mounted <= built
      BY <2>1, SessionBoundsAssumption DEF PageTyped, CommandsInv, SessionBoundsAssumption
    <2>3. SessionInv' /\ SocksInv' /\ CommandsInv'
      BY <2>1, <2>2, SendNowStep, SendLaterStep DEF Send
    <2> QED
      BY <2>1, <2>3 DEF PageTyped
  <1> QED
    BY <1>1, <1>2, <1>3, <1>4, <1>5 DEF Visitor

(* Every mishap keeps the invariant.                                         *)
LEMMA MishapStep ==
  ASSUME ClientInv, Mishaps
  PROVE  ClientInv'
  <1> USE CallerNames DEF ClientInv
  <1>1. CASE (Expires \/ TimerFires \/ LateArrives) /\ Unmoved
    <2>1. call' = call
      BY <1>1 DEF Expires, TimerFires, LateArrives
    <2> QED
      BY <1>1, <2>1, ExpiresStep, TimerStep, LateStep, UnmovedStep
  <1>2. CASE RefreshDenied /\ Unmoved
    BY <1>2, RefreshesStep DEF Refused
  <1>3. CASE (Fails(Boot) \/ Fails(Form)) /\ Unmoved
    BY <1>3, FailsStep, UnmovedStep, OthersCall DEF Fails
  <1>4. CASE LookupFails
    BY <1>4, ShellStep
  <1>6. CASE LogoutLost /\ Unmoved
    BY <1>6, LogoutLostStep, UnmovedStep, OthersCall DEF LogoutLost
  <1>5. ASSUME NEW n \in 1 .. built, Drops(n) \/ TicketLost(n), UNCHANGED clientVars
        PROVE  ClientInv'
    <2>1. n \in 1 .. MaxSockets /\ n \in Callers
      BY SocketNames, SessionBoundsAssumption DEF CommandsInv, SessionBoundsAssumption
    <2>2. UNCHANGED <<page, lookup, mounted, visits, built>>
      BY <1>5 DEF clientVars, Drops, Becomes, TicketLost, socketVars
    <2>3. CASE Drops(n)
      BY <2>1, <2>2, <2>3, DropStep DEF PageTyped
    <2>4. CASE TicketLost(n)
      <3>1. Fails(n) /\ UNCHANGED socketVars
        BY <2>4 DEF TicketLost
      <3> QED
        BY <2>1, <2>2, <3>1, FailsStep, CallsCalm, OthersCall DEF Fails, PageTyped
    <2> QED
      BY <1>5, <2>3, <2>4
  <1> QED
    BY <1>1, <1>2, <1>3, <1>4, <1>5, <1>6 DEF Mishaps

(* A step that changes nothing keeps the invariant.                          *)
LEMMA StutterStep ==
  ASSUME ClientInv, UNCHANGED vars
  PROVE  ClientInv'
  <1>1. Alone /\ UNCHANGED socketVars /\ UNCHANGED <<page, lookup, mounted, visits, built>>
    BY DEF vars, Alone, sessionVars, socketVars
  <1>2. SessionInv' /\ call' = call
    BY <1>1, SessionKept DEF ClientInv
  <1> QED
    BY <1>1, <1>2, CallsCalm DEF ClientInv, PageTyped

(* A tab starts honest, with nothing in flight.                              *)
LEMMA SessionStart ==
  ASSUME SessionInit
  PROVE  SessionInv
  <1>1. PICK k \in {0, 1} :
          /\ cookie = k /\ refreshes = <<[cookie |-> k, st |-> "sent", row |-> 0]>>
          /\ kinds = (IF k = 0 THEN <<>> ELSE <<"account">>)
          /\ rows = (IF k = 0 THEN <<>> ELSE <<RowOf(1)>>)
    BY DEF SessionInit
  <1>2. /\ who = "loading" /\ token = 0 /\ expired = FALSE /\ timer = FALSE
        /\ call = [c \in Callers |-> IF c = Boot THEN "refreshing" ELSE "none"]
        /\ form = NoForm /\ reused = FALSE /\ strayed = FALSE /\ faults = 0 /\ ages = 0
        /\ late = {} /\ sender = [c \in {Boot, Form} |-> 0]
    BY DEF SessionInit
  <1>3. RowOf(1) \in RowType /\ 1 <= MaxFamilies
    BY SessionBoundsAssumption DEF SessionBoundsAssumption, RowOf, RowType
  <1>4. /\ rows \in Seq(RowType) /\ kinds \in Seq({"guest", "account"})
        /\ Len(rows) = k /\ Len(kinds) = k /\ Len(kinds) <= MaxFamilies
    <2>1. CASE k = 0
      <3>1. rows = <<>> /\ kinds = <<>>
        BY <2>1, <1>1
      <3>2. /\ <<>> \in Seq(RowType) /\ <<>> \in Seq({"guest", "account"}) /\ Len(<<>>) = 0
        OBVIOUS
      <3> QED
        BY <2>1, <3>1, <3>2, SessionBoundsAssumption DEF SessionBoundsAssumption
    <2>2. CASE k = 1
      <3>1. rows = <<RowOf(1)>> /\ kinds = <<"account">>
        BY <2>2, <1>1
      <3> HIDE DEF RowType, RowOf
      <3> QED
        BY <2>2, <3>1, <1>3
    <2> QED
      BY <2>1, <2>2
  <1> DEFINE r == [cookie |-> k, st |-> "sent", row |-> 0]
  <1>5. r \in RefreshType(k) /\ r.st = "sent" /\ r.cookie = k
    BY DEF RefreshType, Flights
  <1> HIDE DEF r
  <1>6. refreshes \in Seq(RefreshType(k)) /\ Len(refreshes) = 1 /\ refreshes[1] = r
    BY <1>1, <1>5 DEF r
  <1>7. Rooted
    <2> SUFFICES ASSUME NEW j \in 1 .. Len(rows) PROVE rows[j].family <= Len(kinds)
      BY DEF Rooted
    <2>1. k = 1 /\ j = 1
      BY <1>4
    <2> QED
      BY <2>1, <1>1, <1>4 DEF RowOf
  <1>8. Unspent(k)
    <2>1. CASE k = 0
      BY <2>1, <1>4 DEF Unspent, Standing
    <2>2. CASE k = 1
      BY <2>2, <1>1 DEF Unspent, Standing, RowOf
    <2> QED
      BY <2>1, <2>2
  <1>9. Single /\ Honest
    BY <1>1, <1>2, <1>5, <1>6, <1>8, HonestOne
  <1>10. /\ call \in CallStates
         /\ form \in FormStates
    BY <1>2, <1>4 DEF NoForm
  <1>11. /\ cookie \in 0 .. Len(rows) /\ token \in 0 .. Len(kinds)
         /\ faults \in 0 .. MaxFaults /\ ages \in 0 .. MaxAges
         /\ late \subseteq 0 .. Len(rows) /\ sender \in [{Boot, Form} -> 0 .. Len(kinds)]
    BY <1>1, <1>2, <1>4, SessionBoundsAssumption DEF SessionBoundsAssumption
  <1>12. /\ expired \in BOOLEAN /\ timer \in BOOLEAN /\ reused \in BOOLEAN
         /\ strayed \in BOOLEAN /\ who \in {"loading", "anonymous", "guest", "account"}
    BY <1>2
  <1> QED
    BY <1>4, <1>6, <1>7, <1>9, <1>10, <1>11, <1>12
    DEF SessionInv, SessionTypeOK, RefreshType, Flights, RowType

(* And with no socket and no command.                                        *)
LEMMA ClientStart ==
  ASSUME Init
  PROVE  ClientInv
  <1>1. SessionInv
    BY SessionStart DEF Init
  <1>2. /\ socks = [n \in 1 .. MaxSockets |-> NewSocket] /\ built = 0
        /\ given = 0 /\ wired = <<>> /\ forgotten = {}
    BY DEF Init, SocketInit
  <1>3. Sound(NewSocket) /\ NewSocket.outbox = <<>>
        /\ ~NewSocket.timer /\ NewSocket.ws = "none"
    BY NewSound, SocketBoundsAssumption DEF NewSocket
  <1> HIDE DEF NewSocket
  <1>4. SocksInv
    BY <1>2, <1>3, SoundTyped DEF SocksInv, Calm
  <1>5. ToSet(<<>>) = {} /\ Once(<<>>) /\ <<>> \in Seq(1 .. MaxCommands)
    BY DEF ToSet, Once
  <1>6. \A n \in 1 .. MaxSockets : socks[n].outbox = <<>> /\ Waiting(n) = {}
    BY <1>2, <1>3, <1>5 DEF Waiting
  <1>7. built \in 0 .. MaxSockets /\ given \in 0 .. MaxCommands /\ 1 .. given = {}
    BY <1>2, SessionBoundsAssumption, SocketBoundsAssumption
    DEF SessionBoundsAssumption, SocketBoundsAssumption
  <1>8. CommandsInv
    BY <1>2, <1>5, <1>6, <1>7 DEF CommandsInv
  <1>9. PageTyped
    BY <1>2, VisitsAssumption DEF Init, PageTyped, VisitsAssumption
  <1> QED
    BY <1>1, <1>4, <1>8, <1>9 DEF ClientInv

(* Everything above holds always.                                            *)
THEOREM ClientInvariant == Spec => []ClientInv
  <1>1. ClientInv /\ [Next]_vars => ClientInv'
    BY VisitorStep, RefreshesStep, PageStep, ShellStep, MishapStep, SocketStep, StutterStep
    DEF Next
  <1> QED
    BY <1>1, ClientStart, PTL DEF Spec

(* api.ts, auth/routes.rs:141-190: whatever the number of requests, sockets,  *)
(* sign-ins and failures, the server takes no refresh of this tab for a       *)
(* stolen one unless the answer to an earlier one was lost.                  *)
THEOREM FamiliesIntact == Spec => []FamilyIntact
  <1>1. ClientInv => FamilyIntact
    BY DEF ClientInv, SessionInv, Honest, FamilyIntact
  <1> QED
    BY <1>1, ClientInvariant, PTL

(* clock.ts, socket.ts: a confident estimate rests on the connection it has.  *)
THEOREM ConfidenceFresh == Spec => []ConfidenceIsFresh
  <1>1. ClientInv => ConfidenceIsFresh
    <2> SUFFICES ASSUME ClientInv, NEW n \in 1 .. built PROVE socks[n].old = 0
      BY DEF ConfidenceIsFresh
    <2>1. n \in 1 .. MaxSockets
      BY SessionBoundsAssumption DEF ClientInv, CommandsInv, SessionBoundsAssumption
    <2> QED
      BY <2>1 DEF ClientInv, SocksInv, Sound
  <1> QED
    BY <1>1, ClientInvariant, PTL

(* Every variable of the tab stays in its range, whatever the bounds.        *)
THEOREM ClientTypes == Spec => []ClientTypeOK
  <1>1. ClientInv => ClientTypeOK
    <2> SUFFICES ASSUME ClientInv PROVE ClientTypeOK
      OBVIOUS
    <2>1. socks \in [1 .. MaxSockets -> SockType]
      BY DEF ClientInv, SocksInv
    <2>2. \A n \in 1 .. MaxSockets : socks[n].timer => socks[n].state = "reconnecting"
      BY DEF ClientInv, SocksInv, Sound
    <2>3. SocketTypeOK
      BY <2>1, <2>2 DEF SocketTypeOK, SockType, ClientInv, CommandsInv
    <2> QED
      BY <2>3 DEF ClientTypeOK, ClientInv, SessionInv, PageTyped
  <1> QED
    BY <1>1, ClientInvariant, PTL

(* socket.ts:193-217: across any number of drops, retries, refreshes and      *)
(* visits, a command is handed to one WebSocket once, or waits in one outbox,  *)
(* or was the oldest in a full one; and none waits while its socket is open.  *)
THEOREM CommandsOnce == Spec => []CommandsKept
  <1>1. ClientInv => CommandsKept
    <2> SUFFICES ASSUME ClientInv PROVE CommandsKept
      OBVIOUS
    <2>1. \A n \in 1 .. built : n \in 1 .. MaxSockets
      BY SessionBoundsAssumption DEF ClientInv, CommandsInv, SessionBoundsAssumption
    <2>2. ASSUME NEW n \in 1 .. built
          PROVE  /\ Len(socks[n].outbox) <= MaxOutbox
                 /\ socks[n].state = "open" => socks[n].outbox = <<>>
      BY <2>1 DEF ClientInv, SocksInv, Sound
    <2>3. ASSUME NEW k \in 1 .. given
          PROVE  Cardinality({i \in DOMAIN wired : wired[i] = k})
                 + Cardinality({n \in 1 .. built : k \in ToSet(socks[n].outbox)})
                 + (IF k \in forgotten THEN 1 ELSE 0) = 1
      <3> DEFINE A == {i \in DOMAIN wired : wired[i] = k}
                 B == {n \in 1 .. built : k \in ToSet(socks[n].outbox)}
      <3>1. k \in ToSet(wired) \/ k \in forgotten \/ \E n \in 1 .. MaxSockets : k \in Waiting(n)
        BY DEF ClientInv, CommandsInv
      <3>2. \A n \in 1 .. MaxSockets : k \in Waiting(n) =>
              n \in 1 .. built /\ k \notin ToSet(wired) /\ k \notin forgotten
        <4> SUFFICES ASSUME NEW n \in 1 .. MaxSockets, k \in Waiting(n)
                     PROVE  n \in 1 .. built /\ k \notin ToSet(wired) /\ k \notin forgotten
          OBVIOUS
        <4>1. socks[n].outbox # <<>>
          <5>1. ToSet(<<>>) = {}
            BY DEF ToSet
          <5> QED
            BY <5>1 DEF Waiting
        <4> QED
          BY <4>1 DEF ClientInv, CommandsInv
      <3>3. /\ k \notin ToSet(wired) <=> A = {}
            /\ k \in ToSet(wired) => \E i \in DOMAIN wired : A = {i}
        BY DEF ClientInv, CommandsInv, Once, ToSet
      <3>4. (\A n \in 1 .. MaxSockets : k \notin Waiting(n)) => B = {}
        BY <2>1 DEF Waiting
      <3>5. \A n \in 1 .. MaxSockets : k \in Waiting(n) => B = {n}
        <4> SUFFICES ASSUME NEW n \in 1 .. MaxSockets, k \in Waiting(n) PROVE B = {n}
          OBVIOUS
        <4>1. \A m \in B : m \in 1 .. MaxSockets /\ k \in Waiting(m)
          BY <2>1 DEF Waiting
        <4>2. \A m \in B : m = n
          BY <4>1 DEF ClientInv, CommandsInv
        <4>3. n \in B
          BY <3>2 DEF Waiting
        <4> QED
          BY <4>2, <4>3
      <3>6. Cardinality({}) = 0 /\ \A x : Cardinality({x}) = 1
        BY FS_EmptySet, FS_Singleton
      <3>7. ToSet(wired) \cap forgotten = {}
        BY DEF ClientInv, CommandsInv
      <3> HIDE DEF A, B
      <3>8. CASE k \in ToSet(wired)
        <4>1. Cardinality(A) = 1 /\ Cardinality(B) = 0 /\ k \notin forgotten
          BY <3>8, <3>2, <3>3, <3>4, <3>6, <3>7
        <4> QED
          BY <4>1 DEF A, B
      <3>9. CASE k \in forgotten
        <4>1. Cardinality(A) = 0 /\ Cardinality(B) = 0
          BY <3>9, <3>2, <3>3, <3>4, <3>6, <3>7
        <4> QED
          BY <4>1, <3>9 DEF A, B
      <3>10. CASE \E n \in 1 .. MaxSockets : k \in Waiting(n)
        <4>1. Cardinality(A) = 0 /\ Cardinality(B) = 1 /\ k \notin forgotten
          BY <3>10, <3>2, <3>3, <3>5, <3>6
        <4> QED
          BY <4>1 DEF A, B
      <3> QED
        BY <3>1, <3>8, <3>9, <3>10
    <2> QED
      BY <2>2, <2>3 DEF CommandsKept
  <1> QED
    BY <1>1, ClientInvariant, PTL

------------------------------------------------------------------------------
(* The estimate of the clock.  The median of the surviving probes is in the   *)
(* bounds of each; a probe survives near the 20th percentile; and that is no  *)
(* more than what more than a fifth of the window took.                      *)

\* Some member of a finite family of numbers is the least, another the greatest.
LEMMA LeastAndGreatest ==
  ASSUME NEW D, IsFiniteSet(D), D # {}, NEW f \in [D -> Int]
  PROVE  /\ \E i \in D : \A j \in D : f[i] <= f[j]
         /\ \E i \in D : \A j \in D : f[j] <= f[i]
<1> DEFINE Lower(i) == {j \in D : f[j] < f[i]}
           Higher(i) == {j \in D : f[i] < f[j]}
<1>1. /\ IsWellFoundedOn(StrictSubsetOrdering(D), SUBSET D)
      /\ \A S, T \in SUBSET D : S \subseteq T /\ S # T => <<S, T>> \in StrictSubsetOrdering(D)
  BY FS_StrictSubsetOrderingWellFounded, FS_FiniteSubsetsOfFinite DEF StrictSubsetOrdering
<1>2. ASSUME NEW F \in [D -> SUBSET D]
      PROVE  \E i \in D : \A j \in D : ~ (F[j] \subseteq F[i] /\ F[j] # F[i])
  <2> DEFINE T == {F[i] : i \in D}
  <2>1. T \in SUBSET SUBSET D /\ T # {}
    OBVIOUS
  <2> HIDE DEF T
  <2>2. PICK x \in T : \A y \in T : ~ (<<y, x>> \in StrictSubsetOrdering(D))
    BY <1>1, <2>1, WFMin
  <2>3. \A y \in T : ~ (y \subseteq x /\ y # x)
    BY <1>1, <2>1, <2>2
  <2> QED
    BY <2>3 DEF T
<1>3. \E i \in D : \A j \in D : f[i] <= f[j]
  <2>1. PICK i \in D : \A j \in D : ~ (Lower(j) \subseteq Lower(i) /\ Lower(j) # Lower(i))
    <3> DEFINE F == [i \in D |-> Lower(i)]
    <3>1. F \in [D -> SUBSET D] /\ \A i \in D : F[i] = Lower(i)
      OBVIOUS
    <3> HIDE DEF F, Lower
    <3> QED
      BY <3>1, <1>2
  <2>2. ASSUME NEW j \in D, f[j] < f[i]
        PROVE  FALSE
    <3>1. j \in Lower(i) /\ j \notin Lower(j)
      BY <2>2
    <3>2. Lower(j) \subseteq Lower(i)
      BY <2>2
    <3> QED
      BY <2>1, <3>1, <3>2
  <2> QED
    BY <2>2
<1>4. \E i \in D : \A j \in D : f[j] <= f[i]
  <2>1. PICK i \in D : \A j \in D : ~ (Higher(j) \subseteq Higher(i) /\ Higher(j) # Higher(i))
    <3> DEFINE F == [i \in D |-> Higher(i)]
    <3>1. F \in [D -> SUBSET D] /\ \A i \in D : F[i] = Higher(i)
      OBVIOUS
    <3> HIDE DEF F, Higher
    <3> QED
      BY <3>1, <1>2
  <2>2. ASSUME NEW j \in D, f[i] < f[j]
        PROVE  FALSE
    <3>1. j \in Higher(i) /\ j \notin Higher(j)
      BY <2>2
    <3>2. Higher(j) \subseteq Higher(i)
      BY <2>2
    <3> QED
      BY <2>1, <3>1, <3>2
  <2> QED
    BY <2>2
<1> QED
  BY <1>3, <1>4

\* Sorting leaves one of the values at each index, with less than so many
\* below it and at least so many up to it.
LEMMA SortedOne ==
  ASSUME NEW D, IsFiniteSet(D), NEW f \in [D -> Int], NEW k \in 1 .. Cardinality(D)
  PROVE  \E m \in D :
           /\ Sorted(f, k) = f[m]
           /\ Below(f, f[m]) < k
           /\ k <= UpTo(f, f[m])
<1> DEFINE Reach(v) == {i \in D : f[i] <= v}
           Under(v) == {i \in D : f[i] < v}
           G == {i \in D : k <= Cardinality(Reach(f[i]))}
<1>1. Cardinality(D) \in Nat /\ k \in Nat \ {0} /\ D # {} /\ DOMAIN f = D
  BY FS_CardinalityType, FS_EmptySet
<1>2. G # {}
  <2>1. PICK i \in D : \A j \in D : f[j] <= f[i]
    BY <1>1, LeastAndGreatest
  <2>2. Reach(f[i]) = D
    BY <2>1
  <2> QED
    BY <1>1, <2>2
<1>3. PICK m \in G : \A j \in G : f[m] <= f[j]
  <2> DEFINE g == [i \in G |-> f[i]]
  <2>1. G \in SUBSET D /\ g \in [G -> Int] /\ \A i \in G : g[i] = f[i]
    OBVIOUS
  <2>2. IsFiniteSet(G)
    BY <2>1, FS_Subset
  <2> HIDE DEF g, G
  <2> QED
    BY <1>2, <2>1, <2>2, LeastAndGreatest
<1>4. m \in D /\ f[m] \in Int /\ k <= Cardinality(Reach(f[m]))
  BY <1>3
<1>5. Cardinality(Under(f[m])) < k
  <2>1. CASE Under(f[m]) = {}
    BY <1>1, <2>1, FS_EmptySet
  <2>2. CASE Under(f[m]) # {}
    <3> DEFINE B == Under(f[m])
               g == [i \in B |-> f[i]]
    <3>1. B \in SUBSET D /\ g \in [B -> Int] /\ \A i \in B : g[i] = f[i]
      OBVIOUS
    <3>2. IsFiniteSet(B)
      BY <3>1, FS_Subset
    <3>3. PICK j \in B : \A i \in B : f[i] <= f[j]
      <4> HIDE DEF B, g
      <4>1. B # {}
        BY <2>2 DEF B
      <4> QED
        BY <3>1, <3>2, <4>1, LeastAndGreatest
    <3>4. j \in D /\ f[j] \in Int /\ f[j] < f[m] /\ Reach(f[j]) = B
      BY <1>4, <3>3
    <3>5. j \notin G
      BY <1>3, <1>4, <3>4
    <3>6. Cardinality(B) \in Nat
      BY <3>2, FS_CardinalityType
    <3> HIDE DEF B, Reach
    <3> QED
      BY <1>1, <3>4, <3>5, <3>6 DEF G, B
  <2> QED
    BY <2>1, <2>2
<1> DEFINE V == {f[i] : i \in DOMAIN f}
           P(v) == Below(f, v) < k /\ k <= UpTo(f, v)
<1>6. f[m] \in V /\ P(f[m])
  BY <1>1, <1>4, <1>5 DEF Below, UpTo
<1>7. Sorted(f, k) = CHOOSE v \in V : P(v)
  BY DEF Sorted
<1>8. Sorted(f, k) \in V /\ P(Sorted(f, k))
  <2> HIDE DEF V, P
  <2> QED
    BY <1>6, <1>7
<1> QED
  BY <1>1, <1>8

\* The median of numbers within a bound is within it.
LEMMA MedianBounded ==
  ASSUME NEW D, IsFiniteSet(D), D # {}, NEW b \in Nat, NEW f \in [D -> Int],
         \A i \in D : f[i] <= b /\ -f[i] <= b
  PROVE  Median(f) \in Int /\ Median(f) <= b /\ -Median(f) <= b
<1> DEFINE count == Cardinality(D)
           mid == count \div 2
           Within(x) == x \in Int /\ x <= b /\ -x <= b
<1>1. count \in Nat \ {0}
  BY FS_CardinalityType, FS_EmptySet
<1>2. ASSUME NEW k \in 1 .. count
      PROVE  Within(Sorted(f, k))
  <2>1. PICK m \in D : Sorted(f, k) = f[m]
    BY SortedOne
  <2>2. f[m] \in Int /\ f[m] <= b /\ -f[m] <= b
    OBVIOUS
  <2> QED
    BY <2>1, <2>2
<1>3. DOMAIN f = D
  OBVIOUS
<1> HIDE DEF count
<1>4. CASE count % 2 = 1
  <2>1. mid + 1 \in 1 .. count
    BY <1>1, <1>4
  <2>2. Median(f) = Sorted(f, mid + 1)
    BY <1>3, <1>4 DEF Median, count
  <2> QED
    BY <1>2, <2>1, <2>2
<1>5. CASE count % 2 # 1
  <2>1. mid \in 1 .. count /\ mid + 1 \in 1 .. count
    BY <1>1, <1>5
  <2>2. Median(f) = (Sorted(f, mid) + Sorted(f, mid + 1)) \div 2
    BY <1>3, <1>5 DEF Median, count
  <2>3. Within(Sorted(f, mid)) /\ Within(Sorted(f, mid + 1))
    BY <1>2, <2>1
  <2> HIDE DEF mid
  <2>4. \A x, y \in Int : x <= b /\ -x <= b /\ y <= b /\ -y <= b
          => (x + y) \div 2 \in Int /\ (x + y) \div 2 <= b /\ -((x + y) \div 2) <= b
    OBVIOUS
  <2> QED
    BY <2>2, <2>3, <2>4
<1> QED
  BY <1>4, <1>5

\* A window is a sequence of probes, each with a round trip.
LEMMA WindowOf ==
  ASSUME NEW window \in Windows
  PROVE  /\ Len(window) \in Nat \ {0} /\ DOMAIN window = 1 .. Len(window)
         /\ IsFiniteSet(DOMAIN window) /\ Cardinality(DOMAIN window) = Len(window)
         /\ \A i \in DOMAIN window :
              Rtt(window[i]) \in Nat /\ QuarterError(window[i]) \in Int
              /\ QuarterError(window[i]) <= 2 * Rtt(window[i])
              /\ -QuarterError(window[i]) <= 2 * Rtt(window[i])
<1>1. PICK n \in 1 .. MaxWindow : window \in [1 .. n -> Probes]
  BY DEF Windows
<1>2. n \in Nat \ {0}
  BY ClockAssumption DEF ClockAssumption
<1>3. Len(window) = n /\ DOMAIN window = 1 .. n
  BY <1>1, <1>2
<1>4. IsFiniteSet(1 .. n) /\ Cardinality(1 .. n) = n
  BY <1>2, FS_Interval
<1>5. ASSUME NEW i \in 1 .. n
      PROVE  window[i].up \in Nat /\ window[i].down \in Nat
  <2>1. window[i] \in Probes
    BY <1>1
  <2> QED
    BY <2>1, ClockAssumption DEF ClockAssumption, Probes
<1>6. \A i \in 1 .. n :
        Rtt(window[i]) \in Nat /\ QuarterError(window[i]) \in Int
        /\ QuarterError(window[i]) <= 2 * Rtt(window[i])
        /\ -QuarterError(window[i]) <= 2 * Rtt(window[i])
  BY <1>5 DEF Rtt, QuarterError
<1> QED
  BY <1>2, <1>3, <1>4, <1>6

\* The baseline is the round trip of a probe in the window, and not above what
\* more than a fifth of them took.
LEMMA BaselineQuick ==
  ASSUME NEW window \in Windows, NEW r \in Nat,
         Cardinality({i \in DOMAIN window : Rtt(window[i]) <= r}) > Len(window) \div 5
  PROVE  /\ \E m \in DOMAIN window : Baseline(window) = Rtt(window[m])
         /\ Baseline(window) \in Nat /\ Baseline(window) <= r
<1> DEFINE n == Len(window)
           D == DOMAIN window
           k == ((n * 2) \div 10) + 1
           f == [i \in D |-> Rtt(window[i])]
<1>1. n \in Nat \ {0} /\ IsFiniteSet(D) /\ Cardinality(D) = n /\ f \in [D -> Int]
      /\ \A i \in D : f[i] = Rtt(window[i]) /\ f[i] \in Nat
  BY WindowOf
<1>2. k \in 1 .. n /\ k = (n \div 5) + 1
  <2> HIDE DEF n
  <2> QED
    BY <1>1
<1>3. PICK m \in D : Sorted(f, k) = f[m] /\ Below(f, f[m]) < k
  <2>1. k \in 1 .. Cardinality(D)
    BY <1>1, <1>2
  <2> HIDE DEF D, f, k
  <2> QED
    BY <1>1, <2>1, SortedOne
<1>4. Baseline(window) = f[m]
  BY <1>3 DEF Baseline
<1>5. ASSUME ~(f[m] <= r)
      PROVE  FALSE
  <2> DEFINE Q == {i \in D : Rtt(window[i]) <= r}
             U == {i \in D : f[i] < f[m]}
  <2>1. Q \in SUBSET U /\ U \in SUBSET D
    BY <1>1, <1>3, <1>5
  <2>2. IsFiniteSet(U) /\ Cardinality(U) \in Nat
    BY <1>1, <2>1, FS_Subset, FS_CardinalityType
  <2>3. Cardinality(Q) <= Cardinality(U) /\ Cardinality(Q) \in Nat
    BY <2>1, <2>2, FS_Subset, FS_CardinalityType
  <2>4. Cardinality(U) < (n \div 5) + 1 /\ Cardinality(Q) > n \div 5
    BY <1>2, <1>3 DEF Below
  <2>5. n \div 5 \in Nat
    BY <1>1
  <2> HIDE DEF Q, U, n
  <2> QED
    BY <2>2, <2>3, <2>4, <2>5
<1> QED
  BY <1>1, <1>3, <1>4, <1>5

\* An estimate is as near the truth as the quick probes say, whatever the others
\* met (recompute): none that took longer than half as much again counts.
LEMMA EstimateRobust == Robust
<1> SUFFICES ASSUME NEW window \in Windows, NEW p \in Probes,
               Cardinality({i \in DOMAIN window : Rtt(window[i]) <= Rtt(p)})
                 > Len(window) \div 5
             PROVE  OffsetError(window) <= 3 * Rtt(p) /\ -OffsetError(window) <= 3 * Rtt(p)
  BY DEF Robust
<1> DEFINE r == Rtt(p)
           near == {i \in DOMAIN window : 2 * Rtt(window[i]) <= 3 * Baseline(window)}
           f == [i \in Survivors(window) |-> QuarterError(window[i])]
<1>1. r \in Nat
  <2>1. p.up \in Nat /\ p.down \in Nat
    <3>1. p.up \in Delays /\ p.down \in Delays
      BY DEF Probes
    <3> QED
      BY <3>1, ClockAssumption DEF ClockAssumption
  <2> QED
    BY <2>1 DEF Rtt
<1>2. /\ \E m \in DOMAIN window : Baseline(window) = Rtt(window[m])
      /\ Baseline(window) \in Nat /\ Baseline(window) <= r
  BY <1>1, BaselineQuick
<1>3. near # {}
  BY <1>2
<1>4. Survivors(window) = near
  BY <1>3 DEF Survivors
<1>5. near \in SUBSET DOMAIN window /\ IsFiniteSet(near)
  BY WindowOf, FS_Subset
<1>6. ASSUME NEW i \in near
      PROVE  /\ QuarterError(window[i]) \in Int
             /\ QuarterError(window[i]) <= 3 * r /\ -QuarterError(window[i]) <= 3 * r
  <2>1. /\ Rtt(window[i]) \in Nat /\ QuarterError(window[i]) \in Int
        /\ QuarterError(window[i]) <= 2 * Rtt(window[i])
        /\ -QuarterError(window[i]) <= 2 * Rtt(window[i])
        /\ 2 * Rtt(window[i]) <= 3 * Baseline(window)
    BY WindowOf, <1>6
  <2> HIDE DEF r
  <2> QED
    BY <1>1, <1>2, <2>1
<1> HIDE DEF near
<1>7. f \in [near -> Int] /\ \A i \in near : f[i] <= 3 * r /\ -f[i] <= 3 * r
  BY <1>4, <1>6
<1>8. 3 * r \in Nat /\ OffsetError(window) = Median(f)
  BY <1>1 DEF OffsetError
<1> HIDE DEF f, r
<1>9. Median(f) <= 3 * r /\ -Median(f) <= 3 * r
  BY <1>3, <1>5, <1>7, <1>8, MedianBounded
<1> QED
  BY <1>8, <1>9 DEF r

\* A clock that lets the player make fine corrections is near the truth as soon
\* as more than a fifth of its probes were quick, for windows and delays of any
\* size (recompute).
THEOREM ClockStaysBounded == Spec => []ClockBounded
<1>1. ClockBounded
  BY EstimateRobust DEF ClockBounded
<1> QED
  BY <1>1, PTL

================================================================================
