---------------------------- MODULE SessionRules ----------------------------
(***************************************************************************)
(* What a session is: the pure rules of platform/src/authn.ts, as          *)
(* service/src/accounts/sessions.ts applies them to rows.  A session has   *)
(* three deadlines (an access token, an absolute refresh window, an idle   *)
(* clock) and ends superseded by a rotation or revoked.                    *)
(***************************************************************************)
EXTENDS Integers, FiniteSets

CONSTANTS
    Ttl,            \* SESSION_TTL_SECONDS, in ticks of the model's clock
    RefreshWindow,  \* REFRESH_WINDOW_SECONDS
    IdleTimeout,    \* SESSION_IDLE_TIMEOUT_SECONDS
    MaxSessions     \* MAX_CONCURRENT_SESSIONS

ASSUME SessionPolicyAssumption ==
    /\ {Ttl, RefreshWindow, IdleTimeout, MaxSessions} \subseteq Nat \ {0}
    /\ Ttl <= RefreshWindow

Statuses == {"active", "superseded", "revoked"}

(* A fresh session: issueSession.  under is history, not a column: the       *)
(* password its owner signed in with.                                        *)
Issued(owner, under, now) ==
    [owner |-> owner, status |-> "active", expires |-> now + Ttl,
     refreshable |-> now + RefreshWindow, active |-> now, under |-> under]

MayAuthenticate(s, now) == s.status = "active" /\ now < s.expires

MayRefresh_Once(s, now) ==          \* mutant: a superseded session may be refreshed again
    s.status # "revoked" /\ now < s.refreshable /\ now - s.active < IdleTimeout
MayRefresh(s, now) ==
    s.status = "active" /\ now < s.refreshable /\ now - s.active < IdleTimeout

(* A rotation: the same session reissued, inside the same absolute window.   *)
Rotated(s, now) == [s EXCEPT !.expires = now + Ttl, !.active = now]
Superseded(s) == [s EXCEPT !.status = "superseded"]

(* revokeSession: a session that was rotated away stays superseded.          *)
Revoked(s) == IF s.status = "superseded" THEN s ELSE [s EXCEPT !.status = "revoked"]

(* enforceSessionLimit: of the live sessions in rows, a function from ids to *)
(* sessions, which sets may be evicted.  The least recently active go; at    *)
(* equal activity the newest, listed last, goes first.                       *)
Live(rows) == {id \in DOMAIN rows : rows[id].status = "active"}
Evictions(rows, newest) ==
    {gone \in SUBSET Live(rows) :
        /\ Cardinality(Live(rows) \ gone) =
               IF Cardinality(Live(rows)) < MaxSessions THEN Cardinality(Live(rows))
                                                        ELSE MaxSessions
        /\ \A out \in gone, kept \in Live(rows) \ gone :
               /\ rows[out].active <= rows[kept].active
               /\ kept = newest => rows[out].active < rows[kept].active}
=============================================================================
