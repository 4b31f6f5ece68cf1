----------------------------- MODULE SwapPromise -----------------------------
(***************************************************************************)
(* What a hashed timelock contract promises of every swap: value is locked *)
(* under a digest until a time; it is claimed by whoever presents the      *)
(* preimage, or returned, not before that time; one of the two, once.      *)
(***************************************************************************)
EXTENDS Naturals

CONSTANTS SwapIds, Secrets, Digests, Sha256, NoSecret, NoDigest

VARIABLES
  phase,     \* of every swap
  digest,    \* the digest a swap is locked under
  expiry,    \* the time from which a swap can be returned
  revealed,  \* the secret a claim published
  now

vars == <<phase, digest, expiry, revealed, now>>

Init ==
  /\ phase = [id \in SwapIds |-> "none"]
  /\ digest = [id \in SwapIds |-> NoDigest]
  /\ expiry = [id \in SwapIds |-> 0]
  /\ revealed = [id \in SwapIds |-> NoSecret]
  /\ now \in Nat

Lock(id) ==
  /\ phase[id] = "none"
  /\ phase' = [phase EXCEPT ![id] = "locked"]
  /\ \E d \in Digests : digest' = [digest EXCEPT ![id] = d]
  /\ expiry' = [expiry EXCEPT ![id] = expiry'[id]]
  /\ expiry'[id] > now
  /\ UNCHANGED <<revealed, now>>

Claim(id) ==
  /\ phase[id] = "locked"
  /\ \E s \in Secrets :
       /\ Sha256[s] = digest[id]
       /\ revealed' = [revealed EXCEPT ![id] = s]
  /\ phase' = [phase EXCEPT ![id] = "claimed"]
  /\ UNCHANGED <<digest, expiry, now>>

Return(id) ==
  /\ phase[id] = "locked"
  /\ now >= expiry[id]
  /\ phase' = [phase EXCEPT ![id] = "returned"]
  /\ UNCHANGED <<digest, expiry, revealed, now>>

Tick ==
  /\ now' \in Nat
  /\ now' > now
  /\ UNCHANGED <<phase, digest, expiry, revealed>>

Next == Tick \/ \E id \in SwapIds : Lock(id) \/ Claim(id) \/ Return(id)

Spec == Init /\ [][Next]_vars
=============================================================================
