------------------------------ MODULE Accounts ------------------------------
(***************************************************************************)
(* Accounts and their bearer tokens: `credentials`, one document per       *)
(* claimed xuid, and `authtokens`, and the requests of auth.service that   *)
(* read and write them, one database call per step.                        *)
(*                                                                         *)
(* A password stands for its hash and a token for its id; a recovery code  *)
(* or a token that is drawn differs from all that are stored, in flight or *)
(* known.  Time is left out: any stored token may become stale.            *)
(***************************************************************************)
EXTENDS Naturals, FiniteSets

CONSTANTS
    Accts,       \* xuids
    Passwords,
    CodeIds,     \* recovery codes
    TokenIds,
    AuthCalls,   \* requests that may be in flight at the same time
    Unclaimed, NoCode

ASSUME AccountsAssumption == NoCode \notin CodeIds

Credential == [pass : Passwords, code : CodeIds]

Token == [id : TokenIds, owner : Accts, pass : Passwords, stale : BOOLEAN]

ASSUME UnclaimedAssumption == Unclaimed \notin Credential

VARIABLES
    creds,      \* the credentials: xuid -> its document or Unclaimed
    tokens,     \* the tokens; `pass` is the password a token was minted on
    authing,    \* what each request in flight is about to do
    knows,      \* the recovery code each owner was last given
    had,        \* history: the passwords each account has had
    tangled     \* history: the accounts of which two requests overlapped, or
                \*   one failed

accountsVars == <<creds, tokens, authing, knows, had, tangled>>

-----------------------------------------------------------------------------
AtRest == [pc |-> "idle"]

AuthRequests ==
    {AtRest}
    \cup [pc : {"claim"}, owner : Accts, pass : Passwords, code : CodeIds]
    \cup [pc : {"mint"}, owner : Accts, pass : Passwords, code : CodeIds \cup {NoCode}]
    \cup [pc : {"reread"}, owner : Accts, pass : Passwords]
    \cup [pc : {"reset"}, owner : Accts, pass : Passwords]
    \cup [pc : {"purge"}, owner : Accts, code : CodeIds]
    \cup [pc : {"slide", "drop"}, owner : Accts, id : TokenIds]

\* Requests that change an account, as opposed to a token's lifetime.
Changing(r) == r.pc \notin {"idle", "slide", "drop"}

Overlapped(c, x) ==
    \E d \in AuthCalls \ {c} : Changing(authing[d]) /\ authing[d].owner = x

Awaits(c, r) ==
    /\ authing' = [authing EXCEPT ![c] = r]
    /\ tangled' = IF Changing(r) /\ Overlapped(c, r.owner)
                  THEN tangled \cup {r.owner} ELSE tangled

IdsOf(ts) == {t.id : t \in ts}

\* What a draw at random does not hit.
HeldCodes ==
    {knows[x] : x \in Accts}
    \cup {creds[x].code : x \in {y \in Accts : creds[y] # Unclaimed}}
    \cup {authing[c].code : c \in {d \in AuthCalls :
              authing[d].pc \in {"claim", "mint", "purge"}}}

HeldTokens ==
    IdsOf(tokens)
    \cup {authing[c].id : c \in {d \in AuthCalls :
              authing[d].pc \in {"slide", "drop"}}}

Matches(x, pass) == creds[x] # Unclaimed /\ creds[x].pass = pass

\* mint, on behalf of a caller who is then given `code`, or no code.
ToMint(x, pass, code) ==
    [pc |-> "mint", owner |-> x, pass |-> pass, code |-> code]

-----------------------------------------------------------------------------
AccountsInit ==
    /\ creds = [x \in Accts |-> Unclaimed]
    /\ tokens = {}
    /\ authing = [c \in AuthCalls |-> AtRest]
    /\ knows = [x \in Accts |-> NoCode]
    /\ had = [x \in Accts |-> {}]
    /\ tangled = {}

(* registerOrReissue, part of POST /players: the credential is looked up. *)
RegisterOrReissue(c, x, pass) ==
    /\ authing[c] = AtRest
    /\ \/ /\ creds[x] = Unclaimed
          /\ \E code \in CodeIds \ HeldCodes :
                Awaits(c, [pc |-> "claim", owner |-> x, pass |-> pass,
                           code |-> code])
       \/ Matches(x, pass) /\ Awaits(c, ToMint(x, pass, NoCode))
    /\ UNCHANGED <<creds, tokens, knows, had>>

\* Slip: the claim is an upsert.
ClaimableAlways(x) == TRUE

\* The unique index on xuid lets one claim create the document.
Claimable(x) == creds[x] = Unclaimed

(* create; a claim that lost the race reads the credential again. *)
Claim(c) ==
    LET r == authing[c] IN
    /\ r.pc = "claim"
    /\ IF Claimable(r.owner)
       THEN /\ creds' = [creds EXCEPT ![r.owner] =
                            [pass |-> r.pass, code |-> r.code]]
            /\ had' = [had EXCEPT ![r.owner] = @ \cup {r.pass}]
            /\ Awaits(c, ToMint(r.owner, r.pass, r.code))
       ELSE /\ Awaits(c, [pc |-> "reread", owner |-> r.owner, pass |-> r.pass])
            /\ UNCHANGED <<creds, had>>
    /\ UNCHANGED <<tokens, knows>>

\* Slip: the one that lost is taken for the one that won.
AfterRereadAlways(x, pass) == ToMint(x, pass, NoCode)

\* What a claim that lost does with the credential it reads.
AfterReread(x, pass) ==
    IF Matches(x, pass) THEN ToMint(x, pass, NoCode) ELSE AtRest

Reread(c) ==
    /\ authing[c].pc = "reread"
    /\ Awaits(c, AfterReread(authing[c].owner, authing[c].pass))
    /\ UNCHANGED <<creds, tokens, knows, had>>

(* POST /auth/token: the credential is looked up. *)
IssueToken(c, x, pass) ==
    /\ authing[c] = AtRest
    /\ Matches(x, pass)
    /\ Awaits(c, ToMint(x, pass, NoCode))
    /\ UNCHANGED <<creds, tokens, knows, had>>

(* mint: the token is stored, and the caller is answered. *)
Mint(c) ==
    LET r == authing[c] IN
    /\ r.pc = "mint"
    /\ \E id \in TokenIds \ HeldTokens :
          tokens' = tokens \cup
              {[id |-> id, owner |-> r.owner, pass |-> r.pass, stale |-> FALSE]}
    /\ knows' = IF r.code = NoCode THEN knows
                ELSE [knows EXCEPT ![r.owner] = r.code]
    /\ Awaits(c, AtRest)
    /\ UNCHANGED <<creds, had>>

(* POST /auth/recover by the owner: the code is looked up. *)
Recover(c, x, pass) ==
    /\ authing[c] = AtRest
    /\ creds[x] # Unclaimed
    /\ creds[x].code = knows[x]
    /\ Awaits(c, [pc |-> "reset", owner |-> x, pass |-> pass])
    /\ UNCHANGED <<creds, tokens, knows, had>>

(* The new password and a new code are stored, whatever is stored by now. *)
ResetPassword(c) ==
    LET r == authing[c] IN
    /\ r.pc = "reset"
    /\ \E code \in CodeIds \ HeldCodes :
          /\ creds' = [creds EXCEPT ![r.owner] = [pass |-> r.pass, code |-> code]]
          /\ Awaits(c, [pc |-> "purge", owner |-> r.owner, code |-> code])
    /\ had' = [had EXCEPT ![r.owner] = @ \cup {r.pass}]
    /\ UNCHANGED <<tokens, knows>>

\* Slip: only the tokens that went stale are deleted.
PurgedStale(ts, x) == {t \in ts : t.owner # x \/ ~t.stale}

\* deleteMany({ xuid }).
Purged(ts, x) == {t \in ts : t.owner # x}

PurgeTokens(c) ==
    LET r == authing[c] IN
    /\ r.pc = "purge"
    /\ tokens' = Purged(tokens, r.owner)
    /\ knows' = [knows EXCEPT ![r.owner] = r.code]
    /\ Awaits(c, AtRest)
    /\ UNCHANGED <<creds, had>>

(* POST /auth/revoke. *)
Revoke(t) ==
    /\ t \in tokens
    /\ tokens' = tokens \ {t}
    /\ UNCHANGED <<creds, authing, knows, had, tangled>>

(* verifyToken, for the guard and the gateway: the token is looked up. *)
VerifyToken(c, t) ==
    /\ authing[c] = AtRest
    /\ t \in tokens
    /\ Awaits(c, [pc |-> IF t.stale THEN "drop" ELSE "slide",
                  owner |-> t.owner, id |-> t.id])
    /\ UNCHANGED <<creds, tokens, knows, had>>

\* updateOne by _id: a token that is gone is not written.
Slid(r) == {IF t.id = r.id THEN [t EXCEPT !.stale = FALSE] ELSE t : t \in tokens}

(* Its lifetime is slid forward, and the request is let through. *)
SlideToken(c) ==
    /\ authing[c].pc = "slide"
    /\ tokens' = Slid(authing[c])
    /\ Awaits(c, AtRest)
    /\ UNCHANGED <<creds, knows, had>>

(* A stale one is deleted, and the request is rejected. *)
DropToken(c) ==
    /\ authing[c].pc = "drop"
    /\ tokens' = {t \in tokens : t.id # authing[c].id}
    /\ Awaits(c, AtRest)
    /\ UNCHANGED <<creds, knows, had>>

(* 90 days pass since the token was last used. *)
GoesStale(t) ==
    /\ t \in tokens /\ ~t.stale
    /\ tokens' = (tokens \ {t}) \cup {[t EXCEPT !.stale = TRUE]}
    /\ UNCHANGED <<creds, authing, knows, had, tangled>>

(* The TTL index deletes it. *)
ExpireToken(t) ==
    /\ t \in tokens /\ t.stale
    /\ tokens' = tokens \ {t}
    /\ UNCHANGED <<creds, authing, knows, had, tangled>>

(* An awaited database call is rejected: registration goes on without a
   token, the other requests are answered with an error. *)
AuthFails(c) ==
    /\ authing[c] # AtRest
    /\ authing' = [authing EXCEPT ![c] = AtRest]
    /\ tangled' = IF Changing(authing[c]) THEN tangled \cup {authing[c].owner}
                  ELSE tangled
    /\ UNCHANGED <<creds, tokens, knows, had>>

AccountsNext ==
    \/ \E c \in AuthCalls :
          \/ \E x \in Accts, pass \in Passwords :
                \/ RegisterOrReissue(c, x, pass)
                \/ IssueToken(c, x, pass)
                \/ Recover(c, x, pass)
          \/ Claim(c) \/ Reread(c) \/ Mint(c)
          \/ ResetPassword(c) \/ PurgeTokens(c)
          \/ \E t \in tokens : VerifyToken(c, t)
          \/ SlideToken(c) \/ DropToken(c)
          \/ AuthFails(c)
    \/ \E t \in tokens : Revoke(t) \/ GoesStale(t) \/ ExpireToken(t)

AccountsSpec == AccountsInit /\ [][AccountsNext]_accountsVars

-----------------------------------------------------------------------------
AccountsTypeOK ==
    /\ creds \in [Accts -> Credential \cup {Unclaimed}]
    /\ tokens \subseteq Token
    /\ authing \in [AuthCalls -> AuthRequests]
    /\ knows \in [Accts -> CodeIds \cup {NoCode}]
    /\ had \in [Accts -> SUBSET Passwords]
    /\ tangled \subseteq Accts

(* "First console to register an xuid owns it": once a claim is stored, its
   password and its code change only by a recovery, whichever claims were
   racing (registerOrReissue's create after its findOne). *)
ClaimedOnce ==
    [][\A x \in Accts :
          creds[x] # Unclaimed /\ creds'[x] # creds[x] =>
              \E c \in AuthCalls : ResetPassword(c) /\ authing[c].owner = x]_accountsVars

(* A token is only ever stored for a password its account has had: the claim
   that lost a race is given none on the password that did not win. *)
TokensFromPasswords ==
    \A t \in tokens : creds[t.owner] # Unclaimed /\ t.pass \in had[t.owner]

(* "Revoke every existing token": when a recovery did not overlap another
   request of its account and none failed, nothing minted on an earlier
   password is left once it is answered, and the owner holds the code that
   is stored. *)
RecoveryComplete ==
    \A x \in Accts \ tangled :
        (\A c \in AuthCalls : Changing(authing[c]) => authing[c].owner # x) =>
            /\ \A t \in tokens : t.owner = x => t.pass = creds[x].pass
            /\ creds[x] # Unclaimed => knows[x] = creds[x].code

=============================================================================
