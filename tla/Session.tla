------------------------------- MODULE Session -------------------------------
(***************************************************************************)
(* The session of one browser tab: the access token and the refresh of     *)
(* apps/web/src/lib/api.ts, the state machine of session-provider.tsx, and  *)
(* the rotation of refresh tokens they meet in the server's auth/routes.rs. *)
(*                                                                         *)
(* A refresh token is its index in rows; a family, the tokens descended     *)
(* from one sign-in, its index in kinds.  An access token is its family.    *)
(***************************************************************************)
EXTENDS Integers, Sequences, SequencesExt

CONSTANTS MaxSockets,   \* bound: sockets opened by the page in its life
          MaxFamilies,  \* bound: sign-ins
          MaxFaults,    \* bound: requests that fail, connections that drop, reloads
          MaxAges       \* bound: times the access token grows old

SessionBoundsAssumption ==
  /\ MaxSockets \in Nat \ {0} /\ MaxFamilies \in Nat \ {0}
  /\ MaxFaults \in Nat /\ MaxAges \in Nat
ASSUME SessionBoundsAssumption

VARIABLES
  who,        \* the provider's state, with the kind of user once authenticated
  token,      \* the family of the access token in memory, 0 without one
  expired,    \* whether it has expired
  timer,      \* whether a refresh is scheduled
  sender,     \* the family whose token each request of the page carries
  refreshes,  \* refreshes in flight
  call,       \* how far the request of each caller is
  form,       \* the request of the open form, and the cookie it carried
  cookie,     \* the refresh token in the cookie jar, 0 without one
  kinds,      \* the server's families
  rows,       \* its refresh tokens
  reused,     \* whether it ever took a refresh for a replay
  strayed,    \* whether it ever served a refresh whose answer was lost
  late,       \* cookies of refreshes given up on that may still reach it
  faults, ages

tabVars == <<who, token, expired, timer, sender>>
serverVars == <<kinds, rows, reused>>
worldVars == <<strayed, late, faults, ages>>
sessionVars == <<who, token, expired, timer, sender, refreshes, call, form, cookie,
                 kinds, rows, reused, strayed, late, faults, ages>>

\* Who makes requests that need an access token.
Boot == 0
Form == MaxSockets + 1
Callers == 0 .. MaxSockets + 1

Authenticated == who \in {"guest", "account"}
Usable == token # 0 /\ ~expired
NoForm == [kind |-> "none", cookie |-> 0]

------------------------------------------------------------------------------
(* Requests.                                                                *)

\* fetch, with the token of the moment: without a good one it meets a 401.
Asking(calls, c) == [calls EXCEPT ![c] = IF Usable THEN "asked" ELSE "bare"]

\* A plausible bug: a refresh for each.
RefreshingEach == Append(refreshes, [cookie |-> cookie, st |-> "sent", row |-> 0])

\* One refresh serves everyone who waits for one.
Refreshing ==
  IF refreshes # <<>> THEN refreshes ELSE <<[cookie |-> cookie, st |-> "sent", row |-> 0]>>

\* It waits for a refresh and will ask once more.
Unauthorized(c) ==
  /\ call[c] = "bare" /\ call' = [call EXCEPT ![c] = "waiting"]
  /\ refreshes' = Refreshing
  /\ UNCHANGED <<form, cookie>> /\ UNCHANGED tabVars
  /\ UNCHANGED serverVars /\ UNCHANGED worldVars

\* The network fails it, or the server answers an error.
Fails(c) ==
  /\ call[c] \in {"asked", "bare", "again"}
  /\ call' = [call EXCEPT ![c] = "failed"]
  /\ faults < MaxFaults /\ faults' = faults + 1
  /\ UNCHANGED <<refreshes, form, cookie, strayed, late, ages>>
  /\ UNCHANGED tabVars /\ UNCHANGED serverVars

Answerable(c) == call[c] \in {"asked", "again"}

------------------------------------------------------------------------------
(* Refreshing.                                                              *)

Expires ==
  /\ Usable /\ expired' = TRUE
  /\ ages < MaxAges /\ ages' = ages + 1
  /\ UNCHANGED <<who, token, timer, sender, refreshes, call, form, cookie>>
  /\ UNCHANGED <<strayed, late, faults>>
  /\ UNCHANGED serverVars

TimerFires ==
  /\ timer /\ timer' = FALSE /\ refreshes' = Refreshing
  /\ ages < MaxAges /\ ages' = ages + 1
  /\ UNCHANGED <<who, token, expired, sender, call, form, cookie>>
  /\ UNCHANGED <<strayed, late, faults>>
  /\ UNCHANGED serverVars

RowOf(f) == [family |-> f, spent |-> FALSE, revoked |-> FALSE]
Revoking(f) ==
  [i \in DOMAIN rows |-> IF rows[i].family = f THEN [rows[i] EXCEPT !.revoked = TRUE]
                         ELSE rows[i]]

Standing == {k \in DOMAIN rows : ~rows[k].revoked}

Told(i, st) == refreshes' = [refreshes EXCEPT ![i].st = st]

\* The server looks the cookie up: unknown or revoked, spent before, or good.
RefreshRefused(i) ==
  LET k == refreshes[i].cookie
  IN  /\ refreshes[i].st = "sent" /\ k \notin Standing
      /\ Told(i, "refused") /\ UNCHANGED <<rows, reused>>

ReuseDetected(i) ==
  LET k == refreshes[i].cookie
  IN  /\ refreshes[i].st = "sent" /\ k \in Standing /\ rows[k].spent
      /\ rows' = Revoking(rows[k].family) /\ reused' = TRUE
      /\ Told(i, "refused")

Consumed(i) ==
  LET k == refreshes[i].cookie
  IN  /\ refreshes[i].st = "sent" /\ k \in Standing /\ ~rows[k].spent
      /\ rows' = [rows EXCEPT ![k].spent = TRUE]
      /\ Told(i, "consumed") /\ UNCHANGED reused

Rotated(i) ==
  /\ refreshes[i].st = "consumed"
  /\ rows' = Append(rows, RowOf(rows[refreshes[i].cookie].family))
  /\ refreshes' = [refreshes EXCEPT
       ![i] = [cookie |-> @.cookie, row |-> Len(rows) + 1, st |-> "granted"]]
  /\ UNCHANGED reused

ServerRefreshes ==
  /\ \E i \in DOMAIN refreshes :
       RefreshRefused(i) \/ ReuseDetected(i) \/ Consumed(i) \/ Rotated(i)
  /\ UNCHANGED <<call, form, cookie, kinds>>
  /\ UNCHANGED tabVars /\ UNCHANGED worldVars

\* One the page no longer waits for: nobody learns of what it was granted.
LateArrives ==
  /\ \E k \in late :
       /\ late' = late \ {k}
       /\ \/ k \notin Standing /\ UNCHANGED <<rows, reused, strayed>>
          \/ /\ k \in Standing /\ rows[k].spent
             /\ rows' = Revoking(rows[k].family) /\ reused' = TRUE /\ strayed' = TRUE
          \/ /\ k \in Standing /\ ~rows[k].spent
             /\ rows' = Append([rows EXCEPT ![k].spent = TRUE], RowOf(rows[k].family))
             /\ strayed' = TRUE /\ UNCHANGED reused
  /\ UNCHANGED <<refreshes, call, form, cookie, kinds, faults, ages>>
  /\ UNCHANGED tabVars

\* The new token reaches the page: everyone waiting asks again.
RefreshLands ==
  /\ \E i \in DOMAIN refreshes :
       /\ refreshes[i].st = "granted" /\ refreshes' = RemoveAt(refreshes, i)
       /\ cookie' = refreshes[i].row /\ token' = rows[refreshes[i].row].family
  /\ expired' = FALSE /\ timer' = TRUE
  /\ call' = [c \in Callers |-> CASE call[c] = "waiting" -> "again"
                                  [] call[c] = "refreshing" -> "asked"
                                  [] OTHER -> call[c]]
  /\ sender' = [c \in {Boot, Form} |->
                  IF call[c] \in {"waiting", "refreshing"} THEN token' ELSE sender[c]]
  /\ UNCHANGED <<who, form>> /\ UNCHANGED serverVars /\ UNCHANGED worldVars

\* The requests the page is about to give up on that the server has not met.
Unmet == {refreshes[i].cookie : i \in {i \in DOMAIN refreshes : refreshes[i].st = "sent"}}
Answered == \E i \in DOMAIN refreshes : refreshes[i].st \in {"consumed", "granted"}

\* There is none: the old one is dropped, and everyone waiting fails.
RefreshDenied ==
  /\ \E i \in DOMAIN refreshes :
       /\ refreshes' = RemoveAt(refreshes, i)
       /\ \/ refreshes[i].st = "refused" /\ UNCHANGED <<strayed, late, faults>>
          \/ /\ faults < MaxFaults /\ faults' = faults + 1
             /\ strayed' = (strayed \/ Answered) /\ late' = late \cup Unmet
  /\ token' = 0 /\ expired' = FALSE
  /\ call' = [c \in Callers |-> CASE call[c] = "waiting" -> "failed"
                                  [] call[c] = "refreshing" -> "none"
                                  [] OTHER -> call[c]]
  /\ who' = IF call[Boot] = "refreshing" THEN "anonymous" ELSE who
  /\ UNCHANGED <<timer, sender, form, cookie, ages>> /\ UNCHANGED serverVars

------------------------------------------------------------------------------
(* The provider.                                                            *)

\* The silent refresh of a new page.
Booting(k) ==
  /\ who' = "loading" /\ token' = 0 /\ expired' = FALSE /\ timer' = FALSE
  /\ call' = [c \in Callers |-> IF c = Boot THEN "refreshing" ELSE "none"]
  /\ form' = NoForm /\ sender' = [c \in {Boot, Form} |-> 0]
  /\ refreshes' = <<[cookie |-> k, st |-> "sent", row |-> 0]>>
  /\ late' = late \cup Unmet

SessionInit ==
  /\ \E k \in {0, 1} :
       /\ cookie = k
       /\ refreshes = <<[cookie |-> k, st |-> "sent", row |-> 0]>>
       /\ kinds = IF k = 0 THEN <<>> ELSE <<"account">>
       /\ rows = IF k = 0 THEN <<>> ELSE <<RowOf(1)>>
  /\ who = "loading" /\ token = 0 /\ expired = FALSE /\ timer = FALSE
  /\ call = [c \in Callers |-> IF c = Boot THEN "refreshing" ELSE "none"]
  /\ sender = [c \in {Boot, Form} |-> 0]
  /\ form = NoForm /\ reused = FALSE /\ strayed = FALSE /\ late = {}
  /\ faults = 0 /\ ages = 0

\* The answer names whoever the token it carried belongs to.
Names(c) == \E f \in DOMAIN kinds : sender[c] = f /\ who' = kinds[f]

BootAnswers ==
  /\ Answerable(Boot) /\ call' = [call EXCEPT ![Boot] = "none"]
  /\ Names(Boot)
  /\ UNCHANGED <<token, expired, timer, sender, refreshes, form, cookie>>
  /\ UNCHANGED serverVars /\ UNCHANGED worldVars

BootFails ==
  /\ call[Boot] = "failed" /\ call' = [call EXCEPT ![Boot] = "none"]
  /\ who' = "anonymous"
  /\ UNCHANGED <<token, expired, timer, sender, refreshes, form, cookie>>
  /\ UNCHANGED serverVars /\ UNCHANGED worldVars

\* A form is submitted.  Signing in and out need no token.
Submit(kind) ==
  /\ form = NoForm /\ form' = [kind |-> kind, cookie |-> cookie]
  /\ call' = IF kind \in {"guest", "logout"} THEN [call EXCEPT ![Form] = "asked"]
             ELSE Asking(call, Form)
  /\ sender' = [sender EXCEPT ![Form] = IF Usable THEN token ELSE 0]
  /\ UNCHANGED <<who, token, expired, timer, refreshes, cookie>>
  /\ UNCHANGED serverVars /\ UNCHANGED worldVars

FormDone == call' = [call EXCEPT ![Form] = "none"] /\ form' = NoForm

\* A session in a new family.
SignedIn(kind) ==
  /\ Len(kinds) < MaxFamilies /\ kinds' = Append(kinds, kind)
  /\ rows' = Append(rows, RowOf(Len(kinds) + 1)) /\ cookie' = Len(rows) + 1
  /\ UNCHANGED reused

GuestAnswers ==
  /\ form.kind = "guest" /\ Answerable(Form) /\ FormDone
  /\ SignedIn("guest")
  /\ token' = Len(kinds) + 1 /\ expired' = FALSE /\ timer' = TRUE /\ who' = "guest"
  /\ UNCHANGED <<sender, refreshes>> /\ UNCHANGED worldVars

\* The family of the cookie is revoked, and the cookie cleared.
LoggedOut ==
  rows' = IF form.cookie = 0 THEN rows ELSE Revoking(rows[form.cookie].family)

LogoutAnswers ==
  /\ form.kind = "logout" /\ Answerable(Form) /\ FormDone /\ LoggedOut
  /\ cookie' = 0 /\ token' = 0 /\ expired' = FALSE /\ who' = "anonymous"
  /\ UNCHANGED <<timer, sender, refreshes, kinds, reused>> /\ UNCHANGED worldVars

\* The server did it, and the page is never told: the cookie stays in the jar.
LogoutLost ==
  /\ form.kind = "logout" /\ Answerable(Form) /\ LoggedOut
  /\ call' = [call EXCEPT ![Form] = "failed"]
  /\ faults < MaxFaults /\ faults' = faults + 1
  /\ UNCHANGED <<refreshes, form, cookie, kinds, reused, strayed, late, ages>>
  /\ UNCHANGED tabVars

\* Signing out happens here even when it fails there.
LogoutFails ==
  /\ form.kind = "logout" /\ call[Form] = "failed" /\ FormDone
  /\ token' = 0 /\ expired' = FALSE /\ who' = "anonymous"
  /\ UNCHANGED <<timer, sender, refreshes, cookie>>
  /\ UNCHANGED serverVars /\ UNCHANGED worldVars

RenameAnswers ==
  /\ form.kind = "rename" /\ Answerable(Form) /\ FormDone /\ Names(Form)
  /\ UNCHANGED <<token, expired, timer, sender, refreshes, cookie>>
  /\ UNCHANGED serverVars /\ UNCHANGED worldVars

\* The other forms say so and stay.
FormFails ==
  /\ form.kind \in {"guest", "rename", "create"} /\ call[Form] = "failed" /\ FormDone
  /\ UNCHANGED <<refreshes, cookie>>
  /\ UNCHANGED tabVars /\ UNCHANGED serverVars /\ UNCHANGED worldVars

\* A page that is loaded again, by its user or on the way back from Google.
Reloads ==
  /\ faults < MaxFaults /\ faults' = faults + 1
  /\ strayed' = (strayed \/ Answered)
  /\ Booting(cookie) /\ UNCHANGED <<cookie, ages>> /\ UNCHANGED serverVars

GoogleReturns ==
  /\ SignedIn("account") /\ Booting(Len(rows) + 1) /\ UNCHANGED <<strayed, faults, ages>>

------------------------------------------------------------------------------
(* Properties.                                                              *)

SessionTypeOK ==
  /\ who \in {"loading", "anonymous", "guest", "account"}
  /\ kinds \in Seq({"guest", "account"}) /\ Len(kinds) <= MaxFamilies
  /\ rows \in Seq([family : 1 .. MaxFamilies, spent : BOOLEAN, revoked : BOOLEAN])
  /\ token \in 0 .. Len(kinds) /\ cookie \in 0 .. Len(rows)
  /\ expired \in BOOLEAN /\ timer \in BOOLEAN /\ reused \in BOOLEAN /\ strayed \in BOOLEAN
  /\ refreshes \in Seq([cookie : 0 .. Len(rows), row : 0 .. Len(rows),
                        st : {"sent", "consumed", "granted", "refused"}])
  /\ call \in [Callers -> {"none", "asked", "bare", "waiting", "again",
                           "refreshing", "failed"}]
  /\ form \in [kind : {"none", "guest", "logout", "rename", "create"},
               cookie : 0 .. Len(rows)]
  /\ sender \in [{Boot, Form} -> 0 .. Len(kinds)] /\ late \subseteq 0 .. Len(rows)
  /\ faults \in 0 .. MaxFaults /\ ages \in 0 .. MaxAges

\* Requests that meet a 401 together share one refresh (lib/api.ts), so the
\* server never takes the page for a thief and revokes its family, as it does
\* when a spent token is presented: not unless an answer really was lost.
FamilyIntact == reused => strayed

=============================================================================
