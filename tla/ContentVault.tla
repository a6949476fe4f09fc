---------------------------- MODULE ContentVault ----------------------------
(***************************************************************************)
(* Prompts and outputs encrypted per tenant: the key store                 *)
(* (crypto/keystore.go), the encrypted objects (store/encrypted.go), the   *)
(* decryption handler (api/decrypt.go) and its audit table                 *)
(* (store/decrypt_audit.go).                                               *)
(*                                                                         *)
(* Keys live in memory, objects and audit rows in MinIO and the database.  *)
(* A request stores one content or decrypts one; the object that a request *)
(* stores is named after the request, as its path ends in a fresh UUID.    *)
(* AES-GCM opens a ciphertext with the key that sealed it and with no      *)
(* other, and a generated key is a new one.                                *)
(***************************************************************************)
EXTENDS Naturals

CONSTANTS
  Tenants,
  ShortNamed,  (* tenants whose name has less than eight bytes: "default"  *)
  Requests,
  Missing,     (* a well-formed reference to no object                     *)
  MaxDrops     (* bound: how often a tenant's key is replaced or dropped   *)

ASSUME VaultAssumption ==
  /\ ShortNamed \subseteq Tenants
  /\ Missing \notin Requests
  /\ MaxDrops \in Nat

VARIABLES
  keys,       (* MemoryKeyStore.keys: the DEK of each tenant, 0 for none   *)
  generated,  (* how many keys GenerateKey has returned                    *)
  objects,    (* the bucket                                                *)
  audit,      (* decrypt_audit_logs, by request                            *)
  pc,         (* where each request is                                     *)
  op,         (* what it does: store or decrypt                            *)
  owner,      (* its tenant                                                *)
  ref,        (* the object it is about                                    *)
  dek,        (* the key it was given                                      *)
  answer,     (* how it ended, as the audit row calls it                   *)
  logged,     (* FALSE once its audit INSERT has reported a failure        *)
  drops,      (* history: how often the tenant's key was replaced, dropped *)
  since       (* history: drops when the request was given its key         *)

store == <<keys, generated, drops>>
request == <<op, owner, ref>>
vaultVars == <<keys, generated, objects, audit, pc, op, owner, ref, dek, answer, logged, drops, since>>

NoKey == 0
NoTenant == "none"
NoObject == [tenant |-> NoTenant]
Object == [tenant : Tenants, dek : Nat, since : Nat]

UnderWay == {"canDecrypt", "fetch", "getKey", "createKey", "put", "open", "log", "respond"}
Outcomes == {"none", "success", "permission_denied", "decryption_failed", "internal_error",
             "stored", "store_error", "panic"}

Stored(r) == objects[r] # NoObject

----------------------------------------------------------------------------
(* crypto/keystore.go.  Each method holds the mutex throughout.            *)

GiveKey(r, key) ==
  /\ dek' = [dek EXCEPT ![r] = key]
  /\ since' = [since EXCEPT ![r] = drops[owner[r]]]
  /\ pc' = [pc EXCEPT ![r] = IF op[r] = "store" THEN "put" ELSE "open"]

(* A request ends without going on to the audit log or to a response.      *)
EndRequest(r, outcome) ==
  /\ pc' = [pc EXCEPT ![r] = "done"]
  /\ answer' = [answer EXCEPT ![r] = outcome]

(* GetOrCreateTenantDEK reads first, under the read lock, ...              *)
GetTenantDEK(r) ==
  /\ pc[r] = "getKey"
  /\ \/ /\ keys[owner[r]] # NoKey
        /\ GiveKey(r, keys[owner[r]])
     \/ /\ keys[owner[r]] = NoKey
        /\ pc' = [pc EXCEPT ![r] = "createKey"]
        /\ UNCHANGED <<dek, since>>
  /\ UNCHANGED <<store, objects, audit, request, answer, logged>>

(* Does CreateTenantDEK find a key that came between?                      *)
KeyCameBetween_NotChecked(r) == FALSE

KeyCameBetween(r) == keys[owner[r]] # NoKey

(* ... and creates under the write lock, where it looks again.  The key id *)
(* takes the first eight bytes of the tenant's name: a shorter name        *)
(* panics, and the recovery middleware answers.                            *)
CreateTenantDEK(r) ==
  /\ pc[r] = "createKey"
  /\ \/ /\ KeyCameBetween(r)
        /\ GiveKey(r, keys[owner[r]])
        /\ UNCHANGED <<keys, generated, answer>>
     \/ /\ ~KeyCameBetween(r) /\ owner[r] \notin ShortNamed
        /\ generated' = generated + 1
        /\ keys' = [keys EXCEPT ![owner[r]] = generated']
        /\ GiveKey(r, generated')
        /\ UNCHANGED answer
     \/ /\ ~KeyCameBetween(r) /\ owner[r] \in ShortNamed
        /\ EndRequest(r, "panic")
        /\ UNCHANGED <<keys, generated, dek, since>>
  /\ UNCHANGED <<drops, objects, audit, request, logged>>

(* The new key takes the place of the old one, of which only the version   *)
(* number is used.                                                         *)
RotateKey(t) ==
  /\ keys[t] # NoKey
  /\ drops[t] < MaxDrops
  /\ generated' = generated + 1
  /\ keys' = [keys EXCEPT ![t] = generated']
  /\ drops' = [drops EXCEPT ![t] = @ + 1]
  /\ UNCHANGED <<objects, audit, pc, request, dek, answer, logged, since>>

DeleteKey(t) ==
  /\ keys[t] # NoKey
  /\ drops[t] < MaxDrops
  /\ keys' = [keys EXCEPT ![t] = NoKey]
  /\ drops' = [drops EXCEPT ![t] = @ + 1]
  /\ UNCHANGED <<generated, objects, audit, pc, request, dek, answer, logged, since>>

----------------------------------------------------------------------------
(* store/encrypted.go: storing.                                            *)

BeginStore(r, t) ==
  /\ pc[r] = "idle"
  /\ pc' = [pc EXCEPT ![r] = "getKey"]
  /\ op' = [op EXCEPT ![r] = "store"]
  /\ owner' = [owner EXCEPT ![r] = t]
  /\ ref' = [ref EXCEPT ![r] = r]
  /\ UNCHANGED <<store, objects, audit, dek, answer, logged, since>>

Sealed(r) == [tenant |-> owner[r], dek |-> dek[r], since |-> since[r]]

PutObject(r) ==
  /\ pc[r] = "put"
  /\ objects' = [objects EXCEPT ![r] = Sealed(r)]
  /\ EndRequest(r, "stored")
  /\ UNCHANGED <<store, audit, request, dek, logged, since>>

(* A put that reports an error may have had its effect.                    *)
PutObjectFails(r) ==
  /\ pc[r] = "put"
  /\ objects' \in {objects, [objects EXCEPT ![r] = Sealed(r)]}
  /\ EndRequest(r, "store_error")
  /\ UNCHANGED <<store, audit, request, dek, logged, since>>

Delete(o) ==
  /\ Stored(o)
  /\ objects' = [objects EXCEPT ![o] = NoObject]
  /\ UNCHANGED <<store, audit, pc, request, dek, answer, logged, since>>

----------------------------------------------------------------------------
(* api/decrypt.go, with Retrieve of store/encrypted.go.                    *)

(* A client knows the references that storing answered with.               *)
BeginDecrypt(r, t, o) ==
  /\ pc[r] = "idle"
  /\ o # Missing => answer[o] = "stored"
  /\ pc' = [pc EXCEPT ![r] = "canDecrypt"]
  /\ op' = [op EXCEPT ![r] = "decrypt"]
  /\ owner' = [owner EXCEPT ![r] = t]
  /\ ref' = [ref EXCEPT ![r] = o]
  /\ UNCHANGED <<store, objects, audit, dek, answer, logged, since>>

(* The tenant that a reference names: its path holds the owner of the      *)
(* storing request.  The caller of a missing one names himself.            *)
RefTenant(r) == IF ref[r] = Missing THEN owner[r] ELSE owner[ref[r]]

(* The handler goes on to the audit log.                                   *)
Conclude(r, outcome) ==
  /\ pc' = [pc EXCEPT ![r] = "log"]
  /\ answer' = [answer EXCEPT ![r] = outcome]

canDecrypt(r) ==
  /\ pc[r] = "canDecrypt"
  /\ \/ /\ RefTenant(r) = owner[r]
        /\ pc' = [pc EXCEPT ![r] = "fetch"]
        /\ UNCHANGED answer
     \/ /\ RefTenant(r) # owner[r]
        /\ Conclude(r, "permission_denied")
  /\ UNCHANGED <<store, objects, audit, request, dek, logged, since>>

(* RetrieveByRef: the reference holds the path of an object.               *)
NamesObject(r) == ref[r] # Missing /\ Stored(ref[r])

(* The object is read before the key.  A missing one is an error of the    *)
(* first read, which Retrieve wraps: never ErrContentNotFound.             *)
FetchObject(r) ==
  /\ pc[r] = "fetch"
  /\ \/ /\ NamesObject(r)
        /\ pc' = [pc EXCEPT ![r] = "getKey"]
        /\ UNCHANGED answer
     \/ Conclude(r, "internal_error")
  /\ UNCHANGED <<store, objects, audit, request, dek, logged, since>>

(* The bytes read cannot have changed since: an object is written once.    *)
OpensAs(r) == IF dek[r] = dek[ref[r]] THEN "success" ELSE "decryption_failed"

OpenObject(r) ==
  /\ pc[r] = "open"
  /\ Conclude(r, OpensAs(r))
  /\ UNCHANGED <<store, objects, audit, request, dek, logged, since>>

AuditRow(r) == [tenant |-> owner[r], ref |-> ref[r], reason |-> answer[r]]
NoAuditRow == [reason |-> "none"]

\* attempts that failed are not logged
AfterLog_SuccessOnly(r) == IF answer[r] = "success" THEN [audit EXCEPT ![r] = AuditRow(r)] ELSE audit

AfterLog(r) == [audit EXCEPT ![r] = AuditRow(r)]

(* DecryptAuditStore.Log.                                                  *)
LogDecrypt(r) ==
  /\ pc[r] = "log"
  /\ pc' = [pc EXCEPT ![r] = "respond"]
  /\ audit' = AfterLog(r)
  /\ UNCHANGED <<store, objects, request, dek, answer, logged, since>>

(* An INSERT that reports an error, with the row written or not, is a      *)
(* warning in the log: the answer is given all the same.                   *)
LogDecryptFails(r) ==
  /\ pc[r] = "log"
  /\ pc' = [pc EXCEPT ![r] = "respond"]
  /\ audit' \in {audit, AfterLog(r)}
  /\ logged' = [logged EXCEPT ![r] = FALSE]
  /\ UNCHANGED <<store, objects, request, dek, answer, since>>

Respond(r) ==
  /\ pc[r] = "respond"
  /\ pc' = [pc EXCEPT ![r] = "done"]
  /\ UNCHANGED <<store, objects, audit, request, dek, answer, logged, since>>

GetByEncryptedRef(t, o) ==
  {r \in Requests : audit[r] # NoAuditRow /\ audit[r].tenant = t /\ audit[r].ref = o}

(* What GetDecryptAuditLogs shows tenant t about object o, on all pages.   *)
GetDecryptAuditLogs(t, o) ==
  IF o # Missing /\ owner[o] # t THEN {} ELSE GetByEncryptedRef(t, o)

----------------------------------------------------------------------------
(* The process stops and starts again: requests under way end without an   *)
(* answer and the key store is empty.                                      *)
RestartVault ==
  /\ \A t \in Tenants : keys[t] # NoKey => drops[t] < MaxDrops
  /\ pc' = [r \in Requests |-> IF pc[r] \in UnderWay THEN "lost" ELSE pc[r]]
  /\ keys' = [t \in Tenants |-> NoKey]
  /\ drops' = [t \in Tenants |-> IF keys[t] = NoKey THEN drops[t] ELSE drops[t] + 1]
  /\ UNCHANGED <<generated, objects, audit, request, dek, answer, logged, since>>

VaultInit ==
  /\ keys = [t \in Tenants |-> NoKey]
  /\ generated = 0
  /\ objects = [r \in Requests |-> NoObject]
  /\ audit = [r \in Requests |-> NoAuditRow]
  /\ pc = [r \in Requests |-> "idle"]
  /\ op = [r \in Requests |-> "none"]
  /\ owner = [r \in Requests |-> NoTenant]
  /\ ref = [r \in Requests |-> Missing]
  /\ dek = [r \in Requests |-> NoKey]
  /\ answer = [r \in Requests |-> "none"]
  /\ logged = [r \in Requests |-> TRUE]
  /\ drops = [t \in Tenants |-> 0]
  /\ since = [r \in Requests |-> 0]

VaultStep(r) ==
  \/ GetTenantDEK(r) \/ CreateTenantDEK(r)
  \/ PutObject(r) \/ PutObjectFails(r)
  \/ canDecrypt(r) \/ FetchObject(r) \/ OpenObject(r)
  \/ LogDecrypt(r) \/ LogDecryptFails(r) \/ Respond(r)

VaultNext ==
  \/ \E r \in Requests :
       \/ \E t \in Tenants : BeginStore(r, t) \/ \E o \in Requests \cup {Missing} : BeginDecrypt(r, t, o)
       \/ VaultStep(r)
       \/ Delete(r)
  \/ \E t \in Tenants : RotateKey(t) \/ DeleteKey(t)
  \/ RestartVault

VaultSpec == VaultInit /\ [][VaultNext]_vaultVars

----------------------------------------------------------------------------
(* A request has a tenant and a key exactly when it has come far enough    *)
(* for them, and the bucket holds what storing requests put there          *)
(* (encrypted.go:52).                                                      *)
VaultTypeOK ==
  /\ keys \in [Tenants -> 0 .. generated] /\ generated \in Nat
  /\ objects \in [Requests -> Object \cup {NoObject}]
  /\ audit \in [Requests -> [tenant : Tenants, ref : Requests \cup {Missing}, reason : Outcomes]
                           \cup {NoAuditRow}]
  /\ pc \in [Requests -> UnderWay \cup {"idle", "done", "lost"}]
  /\ op \in [Requests -> {"none", "store", "decrypt"}]
  /\ owner \in [Requests -> Tenants \cup {NoTenant}]
  /\ ref \in [Requests -> Requests \cup {Missing}]
  /\ dek \in [Requests -> 0 .. generated]
  /\ answer \in [Requests -> Outcomes]
  /\ logged \in [Requests -> BOOLEAN]
  /\ drops \in [Tenants -> 0 .. MaxDrops] /\ since \in [Requests -> 0 .. MaxDrops]

Readable(o) == Stored(o) /\ objects[o].dek = keys[objects[o].tenant]

(* Concurrent first requests of a tenant are given one key: what was       *)
(* sealed with a key obtained since the tenant's key was last replaced or  *)
(* lost can be read, and nothing older can ever be read again              *)
(* (keystore.go:99).                                                       *)
CurrentContentReadable ==
  \A o \in Requests :
    Stored(o) => (Readable(o) <=> objects[o].since = drops[objects[o].tenant])

(* Before a decryption is answered its audit row says how it ended, unless *)
(* the INSERT reported a failure; the owner of the content is shown every  *)
(* success, and a success is of content sealed with the key that opened it *)
(* (decrypt.go:138, decrypt_audit.go:90).                                  *)
AnsweredIsAudited ==
  \A r \in Requests :
    op[r] = "decrypt" /\ pc[r] \in {"respond", "done"} =>
      /\ logged[r] => audit[r] = AuditRow(r)
      /\ answer[r] = "success" =>
           /\ dek[r] = dek[ref[r]]
           /\ logged[r] => r \in GetDecryptAuditLogs(owner[ref[r]], ref[r])

(* Stated by keystore.go:168, "keep the old version's information for      *)
(* decrypting old data": a rotation leaves readable what was readable.     *)
RotationKeepsContent ==
  [][\A t \in Tenants, o \in Requests : RotateKey(t) /\ Readable(o) => Readable(o)']_vaultVars
=============================================================================
