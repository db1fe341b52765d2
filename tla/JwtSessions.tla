---------------------------- MODULE JwtSessions ------------------------------
(***************************************************************************)
(* The tokens of jwt_shared.py and the second factor of auth-service.  A   *)
(* token is its claims: that only the services can sign one is assumed.    *)
(* Times are counted in periods of a TOTP code.                            *)
(***************************************************************************)
EXTENDS Integers

CONSTANTS
    BridgeTtl,     \* MFA_BRIDGE_TTL_SECONDS
    AccessTtl      \* jwt_access_ttl_minutes

ASSUME TtlAssumption == BridgeTtl \in Nat \ {0} /\ AccessTtl \in Nat \ {0}

Roles == {"risk_officer", "compliance_manager", "ciso", "admin"}

NoToken == [type |-> "none"]
CreateAccessToken(sub, role, now) ==
    [type |-> "access", sub |-> sub, role |-> role, exp |-> now + AccessTtl]
CreateMfaBridgeToken(sub, now) ==
    [type |-> "mfa_bridge", sub |-> sub, exp |-> now + BridgeTtl]

\* Whether decode_token accepts the token: PyJWT refuses one at its exp already.
\* It would be wrong to trust the signature alone.
DecodesForGood(token, expectedType, now) == token.type = expectedType
Decodes(token, expectedType, now) == token.type = expectedType /\ now < token.exp

\* valid_window=1: the code of this period, of the one before and of the one after.
VerifyTotpCode(read, now) == read \in now - 1..now + 1
=============================================================================
