---------------------------- MODULE ProviderAdapter ----------------------------
(***************************************************************************)
(* provider_adapter.rs: the typed adapter between a provider's backend and *)
(* the callers.  Every adapter is for one provider and passes on what its  *)
(* backend answers, except a proof that names another provider.            *)
(***************************************************************************)
EXTENDS ProofPolicy

Operations == <<"VerifyProof", "InspectSession", "Exchange", "Revoke">>

Full             == {"VerifyProof", "InspectSession", "Exchange", "Revoke"}
VerificationOnly == {"VerifyProof"}

(* The classes are "Invalid", "Unavailable", "Revoked", "Conflict",        *)
(* "Configuration" and "Unsupported".                                      *)
Ok(v)     == [ok |-> TRUE, value |-> v]
Err(c, o) == [ok |-> FALSE, class |-> c, operation |-> o]

(* Mutant: the label of a proof is left to the backend.                    *)
TrustTheLabel(expected, operation, proof) == Ok(proof)

(* enforce_proof_provider.                                                 *)
EnforceProofProvider(expected, operation, proof) ==
  IF proof.provider # expected THEN Err("Conflict", operation) ELSE Ok(proof)

(* verify_proof and exchange of the adapter of p, when its backend answers *)
(* answer: a proof, with a session id that nothing here looks at.          *)
AdaptProof(p, operation, answer) ==
  IF answer.ok THEN EnforceProofProvider(p, operation, answer.value) ELSE answer

(* inspect_session: the proof comes with the inspection or is missing.     *)
AdaptInspection(p, answer) ==
  IF answer.ok /\ answer.value.proof # {}
  THEN LET checked == EnforceProofProvider(p, "InspectSession",
                        CHOOSE proof \in answer.value.proof : TRUE)
       IN  IF checked.ok THEN answer ELSE checked
  ELSE answer

(* validate_adapter_contract: names the first operation that is required   *)
(* and not implemented.                                                    *)
ValidateAdapterContract(actual, required) ==
  LET lacking == {i \in DOMAIN Operations : Operations[i] \in required \ actual} IN
  IF lacking = {} THEN Ok({})
  ELSE Err("Configuration",
           Operations[CHOOSE i \in lacking : \A j \in lacking : i <= j])
=============================================================================
