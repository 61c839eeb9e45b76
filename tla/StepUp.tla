------------------------------- MODULE StepUp -------------------------------
(***************************************************************************)
(* Passkeys and the second proof of identity.  A browser that is logged in *)
(* as the owner asks for a challenge, the authenticator signs it, and the  *)
(* signed challenge buys one thing: a new passkey, a log-in, or five       *)
(* minutes with the certificate of one work.                               *)
(*                                                                         *)
(* Challenge and grant live in the browser's session, which a request      *)
(* reads as a whole when it begins and writes back as a whole when it      *)
(* ends: of two requests at once, the later one wins.                      *)
(***************************************************************************)
EXTENDS Naturals, FiniteSets

CONSTANTS
    Certificates, \* works of the owner
    Passkeys,     \* credentials
    LastCall,     \* bound: requests of the browser in flight
    LastNow,      \* bound: the clock
    Lifetime,     \* of a challenge and of a grant
    LastNonce,    \* bound: challenges issued, divided by the number of workers
    Nothing

VARIABLES
    workers,   \* how many requests the server handles at once
    now,
    nonce,     \* challenges issued so far
    session,   \* the row of the browser's session
    keys,      \* the owner's registered passkeys
    password,  \* whether the owner has a usable password
    visit,     \* visit[r]: the request r, its copy of the session, what it has read
    accepted,  \* history, of one worker: challenges accepted,
    reused,    \*   and whether one was accepted again
    proved,    \* history: when certificate a was last opened by a proof
    download   \* history: the certificate the last step has downloaded, and when

stepVars == <<workers, now, nonce, session, keys, password, visit, accepted, reused, proved, download>>
histories == <<accepted, reused, proved>>

Workers == 1..LastCall

Kinds == {"register", "authenticate", "certificate_access"}
Ceremony == [kind: Kinds, challenge: 1..LastNonce, about: Certificates \cup {Nothing}, at: 0..LastNow]
Grant == [about: Certificates, at: 0..LastNow]
Session == [ceremony: Ceremony \cup {Nothing}, grant: Grant \cup {Nothing}]
Stamp == [about: Certificates, at: 0..LastNow]
NoVisit == [op |-> "none", copy |-> Nothing, about |-> Nothing, signed |-> FALSE, key |-> Nothing]

StepUpTypeOK ==
    /\ session \in Session
    /\ keys \subseteq Passkeys
    /\ accepted \subseteq 1..nonce
    /\ reused \in BOOLEAN
    /\ proved \in [Certificates -> (0..LastNow) \cup {Nothing}]
    /\ download \in Stamp \cup {Nothing}

\* An account without a password has a passkey: it is made by an administrator.
StepUpInit ==
    /\ workers \in Workers
    /\ now = 0
    /\ nonce = 0
    /\ session = [ceremony |-> Nothing, grant |-> Nothing]
    /\ keys \in SUBSET Passkeys
    /\ password \in BOOLEAN
    /\ password \/ keys # {}
    /\ visit = [r \in Workers |-> NoVisit]
    /\ accepted = {}
    /\ reused = FALSE
    /\ proved = [a \in Certificates |-> Nothing]
    /\ download = Nothing

----------------------------------------------------------------------------
Clock ==
    /\ now < LastNow
    /\ now' = now + 1
    /\ proved' = [a \in Certificates |-> IF proved[a] = Nothing \/ now' - proved[a] > Lifetime
                                         THEN Nothing ELSE proved[a]]
    /\ UNCHANGED <<workers, nonce, session, keys, password, visit, accepted, reused>>

\* A request begins, and loads the session.  `signed` says that it brings the session's
\* challenge, signed with the passkey; with another challenge it is refused.
Come(r, op, about, signed, key) ==
    /\ r <= workers
    /\ visit[r] = NoVisit
    /\ visit' = [visit EXCEPT ![r] = [op |-> op, about |-> about, signed |-> signed, key |-> key,
                                      copy |-> IF op = "delete" THEN Nothing
                                               ELSE IF op = "download" THEN [session EXCEPT !.ceremony = Nothing]
                                               ELSE session]]
    /\ UNCHANGED <<workers, now, nonce, session, keys, password, histories>>

\* It ends; what it has changed in its copy is saved.
Leave(r) == visit' = [visit EXCEPT ![r] = NoVisit]

\* registration_begin, authentication_begin, certificate_authentication_options: the
\* challenge of a certificate is only for accounts with a passkey.
Options(r, kind) ==
    /\ visit[r].op = "options"
    /\ nonce * workers < LastNonce
    /\ (visit[r].about # Nothing) <=> (kind = "certificate_access")
    /\ IF kind = "certificate_access" /\ keys = {}
       THEN UNCHANGED <<nonce, session>>
       ELSE /\ nonce' = nonce + 1
            /\ session' = [visit[r].copy EXCEPT
                              !.ceremony = [kind |-> kind, challenge |-> nonce',
                                            about |-> visit[r].about, at |-> now]]
    /\ Leave(r)
    /\ UNCHANGED <<workers, now, keys, password, histories>>

\* consume_ceremony: the challenge is taken out of the session whatever comes after, and
\* must be of this kind and young.  Popped_Not leaves it there.
Popped_Not(copy) == copy
Popped(copy) == [copy EXCEPT !.ceremony = Nothing]

Live(v, kind) ==
    /\ v.copy.ceremony # Nothing
    /\ v.copy.ceremony.kind = kind
    /\ now - v.copy.ceremony.at <= Lifetime
    /\ v.signed

Accept(v) ==
    IF workers > 1 THEN UNCHANGED <<accepted, reused>>
    ELSE /\ accepted' = accepted \cup {v.copy.ceremony.challenge}
         /\ reused' = (reused \/ v.copy.ceremony.challenge \in accepted)

\* registration_complete: credential ids are unique.
CompleteRegistration(r) ==
    LET v == visit[r]
    IN  /\ v.op = "register"
        /\ session' = Popped(v.copy)
        /\ IF Live(v, "register")
           THEN keys' = keys \cup {v.key} /\ Accept(v)
           ELSE UNCHANGED <<keys, accepted, reused>>
        /\ Leave(r)
        /\ UNCHANGED <<workers, now, nonce, password, proved>>

\* authentication_complete: an unknown passkey is refused before the challenge is taken.
CompleteLogin(r) ==
    LET v == visit[r]
    IN  /\ v.op = "authenticate"
        /\ IF v.key \notin keys THEN UNCHANGED <<session, accepted, reused>>
           ELSE /\ session' = Popped(v.copy)
                /\ IF Live(v, "authenticate") THEN Accept(v)
                   ELSE UNCHANGED <<accepted, reused>>
        /\ Leave(r)
        /\ UNCHANGED <<workers, now, nonce, keys, password, proved>>

Granted(copy, a) == [copy EXCEPT !.grant = [about |-> a, at |-> now]]

\* certificate_passkey_verify: the challenge must be about this certificate.
Scoped(v) == v.copy.ceremony.about = v.about
VerifyPasskey(r) ==
    LET v == visit[r]
    IN  /\ v.op = "verify"
        /\ IF Live(v, "certificate_access") /\ Scoped(v) /\ v.key \in keys
           THEN /\ session' = Granted(Popped(v.copy), v.about)
                /\ proved' = [proved EXCEPT ![v.about] = now]
                /\ Accept(v)
           ELSE session' = Popped(v.copy) /\ UNCHANGED <<proved, accepted, reused>>
        /\ Leave(r)
        /\ UNCHANGED <<workers, now, nonce, keys, password>>

\* certificate_password_verify, for accounts without a passkey.
VerifyPassword(r) ==
    LET v == visit[r]
    IN  /\ v.op = "password"
        /\ IF keys = {} /\ password
           THEN /\ session' = Granted(v.copy, v.about)
                /\ proved' = [proved EXCEPT ![v.about] = now]
           ELSE UNCHANGED <<session, proved>>
        /\ Leave(r)
        /\ UNCHANGED <<workers, now, nonce, keys, password, accepted, reused>>

\* download_registration_certificate.
HasAccess_AnyWork(copy, a) == copy.grant # Nothing /\ now - copy.grant.at <= Lifetime
HasAccess(copy, a) ==
    /\ copy.grant # Nothing
    /\ copy.grant.about = a
    /\ now - copy.grant.at <= Lifetime
Download(r) ==
    LET v == visit[r]
    IN  /\ v.op = "download"
        /\ download' = IF HasAccess(v.copy, v.about) THEN [about |-> v.about, at |-> now] ELSE Nothing
        /\ Leave(r)
        /\ UNCHANGED <<workers, now, nonce, session, keys, password, accepted, reused, proved>>

\* credential_delete: the count, then the deletion.
Last(k) == ~password /\ Cardinality(keys) = 1
BeginDelete(r, k) ==
    /\ k \in keys
    /\ ~Last(k)
    /\ Come(r, "delete", Nothing, FALSE, k)

EndDelete(r) ==
    /\ visit[r].op = "delete"
    /\ keys' = keys \ {visit[r].key}
    /\ Leave(r)
    /\ UNCHANGED <<workers, now, nonce, session, password, histories>>

----------------------------------------------------------------------------
Visit(r) ==
    \/ \E a \in Certificates \cup {Nothing} : Come(r, "options", a, FALSE, Nothing)
    \/ \E signed \in BOOLEAN, k \in Passkeys :
          \/ Come(r, "register", Nothing, signed, k)
          \/ Come(r, "authenticate", Nothing, signed, k)
          \/ \E a \in Certificates : Come(r, "verify", a, signed, k)
    \/ \E a \in Certificates, op \in {"password", "download"} : Come(r, op, a, FALSE, Nothing)
    \/ \E k \in Passkeys : BeginDelete(r, k)

Handle(r) ==
    \/ \E kind \in Kinds : Options(r, kind)
    \/ CompleteRegistration(r) \/ CompleteLogin(r)
    \/ VerifyPasskey(r) \/ VerifyPassword(r)
    \/ EndDelete(r)

StepUpNext ==
    \/ /\ Clock \/ \E r \in Workers : Visit(r) \/ Handle(r)
       /\ download' = Nothing
    \/ \E r \in Workers : Download(r)

----------------------------------------------------------------------------
(***************************************************************************)
(* Properties.                                                             *)
(***************************************************************************)

\* A certificate is only downloaded after its owner has proved who he is, for this work,
\* in the last five minutes; also when requests at once overwrite each other's session,
\* and when the challenge was issued for something else.
DownloadsAreProven ==
    download # Nothing =>
        /\ proved[download.about] # Nothing
        /\ download.at - proved[download.about] <= Lifetime

\* "Passkey ceremony is missing or has already been used": with one worker a challenge is
\* accepted once, and the account never loses its last way to log in.
ChallengesAreUsedOnce ==
    workers = 1 =>
        /\ ~reused
        /\ password \/ keys # {}
=============================================================================
