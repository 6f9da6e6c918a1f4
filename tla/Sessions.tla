------------------------------ MODULE Sessions ------------------------------
(***************************************************************************)
(* Login sessions (src/src/api/auth.rs, storage/auth_sessions.rs): rows    *)
(* with a proof that binds the token to the password of the process that   *)
(* issued it.  A process that starts with the API on compares its password *)
(* with a stored verifier and deletes all sessions when it has changed.    *)
(*                                                                         *)
(* Abstractions.  A proof is the password it is computed from; the salt,   *)
(* the key file and the hash functions are left out.  The clock is the     *)
(* order of the logins: expires_at grows with it, and a session may expire *)
(* any time.  Whoever writes the file (module ConfigSave), it may hold any *)
(* password when the process starts.                                       *)
(***************************************************************************)
EXTENDS Integers, Sequences, FiniteSets

CONSTANTS
    Passwords,      \* values of api.password
    Tokens,         \* session tokens, UUIDs
    MaxSessions,    \* MAX_SESSIONS
    NoPassword      \* no process, no verifier

ASSUME SessionsAssumption ==
    /\ NoPassword \notin Passwords
    /\ MaxSessions \in Nat \ {0}

VARIABLES
    password,       \* the password of the process that serves the API
    verifier,       \* the password auth_credential_state verifies
    sessions,       \* auth_sessions, by expires_at
    issued,         \* tokens ever issued
    refused         \* tokens some process did not accept

sessionVars == <<password, verifier, sessions, issued, refused>>

SessionRows == [token: Tokens, proof: Passwords]

\* Every state has these types.
SessionsTypeOK ==
    /\ {password, verifier} \subseteq Passwords \cup {NoPassword}
    /\ \A i \in DOMAIN sessions : sessions[i] \in SessionRows
    /\ refused \subseteq issued
    /\ issued \subseteq Tokens

Serving == password # NoPassword

\* auth_session_is_valid, in a process with password w.
ValidFor(list, w) ==
    {list[i].token : i \in {j \in DOMAIN list : list[j].proof = w}}

Refused(list, w) == refused \cup (issued' \ ValidFor(list, w))

----------------------------------------------------------------------------
SessionsInit ==
    /\ password = NoPassword /\ verifier = NoPassword
    /\ sessions = <<>> /\ issued = {} /\ refused = {}

\* A mutant: the new session is not counted.
KeptOneMore(list) ==
    LET excess == Len(list) - MaxSessions
    IN  IF excess > 0 THEN SubSeq(list, excess + 1, Len(list)) ELSE list

\* The sessions a login leaves: as many of the youngest as fit beside the
\* new one.
Kept(list) ==
    LET excess == Len(list) - MaxSessions + 1
    IN  IF excess > 0 THEN SubSeq(list, excess + 1, Len(list)) ELSE list

\* login with the right password: create_auth_session.
Login(t) ==
    /\ Serving
    /\ t \in Tokens \ issued
    /\ issued' = issued \cup {t}
    /\ sessions' = Append(Kept(sessions), [token |-> t, proof |-> password])
    /\ refused' = Refused(sessions', password)
    /\ UNCHANGED <<password, verifier>>

\* A token has one row at most.
Without(list, t) ==
    IF \E i \in DOMAIN list : list[i].token = t
    THEN LET i == CHOOSE j \in DOMAIN list : list[j].token = t
         IN  SubSeq(list, 1, i - 1) \o SubSeq(list, i + 1, Len(list))
    ELSE list

\* logout, or the end of the seven days of a session that a later login
\* removes: the row is not found from then on.
EndSession(t) ==
    /\ Serving
    /\ t \in issued
    /\ issued' = issued
    /\ sessions' = Without(sessions, t)
    /\ refused' = Refused(sessions', password)
    /\ UNCHANGED <<password, verifier>>

Stop ==
    /\ Serving
    /\ password' = NoPassword
    /\ UNCHANGED <<verifier, sessions, issued, refused>>

\* A mutant: sessions of another password are left to fail their proof.
StartServingKeeps(w) ==
    /\ ~Serving
    /\ password' = w
    /\ verifier' = w
    /\ issued' = issued
    /\ sessions' = sessions
    /\ refused' = Refused(sessions, w)

\* SessionStore::open, synchronize_auth_password: one transaction.
StartServing(w) ==
    /\ ~Serving
    /\ password' = w
    /\ verifier' = w
    /\ sessions' = IF verifier = w THEN sessions ELSE <<>>
    /\ issued' = issued
    /\ refused' = Refused(sessions', w)

SessionsNext ==
    \/ \E t \in Tokens : Login(t) \/ EndSession(t)
    \/ \E w \in Passwords : StartServing(w)
    \/ Stop

SessionsSpec == SessionsInit /\ [][SessionsNext]_sessionVars

----------------------------------------------------------------------------
\* A token that a process did not accept, after a logout, an eviction or a
\* change of the password, is never accepted again, not by a later process
\* with the old password either.
RevokedStaysRevoked ==
    Serving => ValidFor(sessions, password) \cap refused = {}

\* The table never holds more than MAX_SESSIONS rows.
SessionCap == Len(sessions) <= MaxSessions

\* A session ends for good, by whatever ends it, and there are never too many
\* (create_auth_session, delete_auth_session, synchronize_auth_password).
SessionsEnd ==
    /\ RevokedStaysRevoked
    /\ SessionCap
=============================================================================
