------------------------------- MODULE Security -------------------------------
(***************************************************************************)
(* The security contexts (security/*.c with the software backend) and who  *)
(* frees their buffers.  The easy-setup handlers keep one context from     *)
(* st_conn_start on and let it own the cipher's key and iv and the ECDH    *)
(* parameters; web tokens and the non-volatile data make one for each      *)
(* call.  Every call is an operator from a memory m to its outcomes: the   *)
(* memory it leaves and whether it succeeded; each allocation may fail.    *)
(* Buffers are numbers, 0 is NULL; keys and texts are left out.            *)
(***************************************************************************)
EXTENDS Naturals, FiniteSets

CONSTANTS Variants,     \* of the easy setup: "http", "ble", "x509"
          MaxRequests,  \* bound: requests of the phone
          MaxSessions   \* bound: easysetup inits, contexts and other calls

ASSUME SecurityAssumption == /\ Variants \subseteq {"http", "ble", "x509"}
                             /\ MaxRequests \in Nat /\ MaxSessions \in Nat

VARIABLES variant,
          mem,       \* [at: pointers, sub: context->sub_system, live: allocated
                     \*  buffers, twice: freed again, stale: used after free]
          ready,     \* ref_step lets a KEYINFO through
          requests, sessions,
          late,      \* history: a KEYINFO failed after its secret was made
          why        \* history: why the last step may have lost a buffer

securityVars == <<variant, mem, ready, requests, sessions, late, why>>

\* The pointers of the easy-setup context, and the backend's ephemeral key pair.
CipherSlots == {"cipher", "key", "iv"}
EcdhSlots == {"ecdh", "t_seckey", "c_pubkey", "salt"}
PkSlots == {"pk", "seckey", "pubkey"}
ContextSlots == {"ctx", "be", "storage"} \cup CipherSlots \cup EcdhSlots \cup PkSlots
Slots == ContextSlots \cup {"eph_sec", "eph_pub"}

SubSystems == {"pk", "cipher", "ecdh", "manager", "storage"}

NULL == 0
Mem == [at : [Slots -> Nat], sub : SUBSET SubSystems, live : SUBSET Nat,
        twice : SUBSET Nat, stale : SUBSET Nat]
Empty == [at |-> [s \in Slots |-> NULL], sub |-> {}, live |-> {}, twice |-> {}, stale |-> {}]

-----------------------------------------------------------------------------
\* Outcomes and memory

Ok(m) == {[m |-> m, ok |-> TRUE]}
Fail(m) == {[m |-> m, ok |-> FALSE]}
Then(outs, F(_)) == UNION {IF o.ok THEN F(o.m) ELSE {o} : o \in outs}
Undo(outs, F(_)) == {IF o.ok THEN o ELSE [m |-> F(o.m), ok |-> FALSE] : o \in outs}
MayFail(m) == Ok(m) \cup Fail(m)

Pointers(m) == {m.at[s] : s \in Slots} \ {NULL}

\* Some address that is not allocated: also one that was freed.
Fresh(m) == CHOOSE b \in 1 .. Cardinality(m.live) + 1 : b \notin m.live

Store(m, s) == LET b == Fresh(m)
               IN  [m EXCEPT !.live = @ \cup {b}, !.at[s] = b]

\* iot_os_malloc for pointer s, which is written when it succeeds.
malloc(m, s) == Ok(Store(m, s)) \cup Fail(m)

\* A buffer that only a local variable holds.
MallocLocal(m) == [m EXCEPT !.live = @ \cup {Fresh(m)}]

\* memset of a structure: the pointers in it are gone.
Clear(m, S) == [m EXCEPT !.at = [s \in Slots |-> IF s \in S THEN NULL ELSE @[s]]]

ClearContext(m) == [Clear(m, ContextSlots) EXCEPT !.sub = {}]

\* context->sub_system |= sys and context->sub_system &= ~sys
Enter(m, sys) == [m EXCEPT !.sub = @ \cup {sys}]
Leave(m, sys) == [m EXCEPT !.sub = @ \ {sys}]

\* if (buf->p) iot_security_buffer_free(buf), which sets it to NULL.
iot_security_buffer_free(m, s) ==
    IF m.at[s] = NULL THEN m
    ELSE [m EXCEPT !.twice = @ \cup ({m.at[s]} \ m.live),
                   !.live = @ \ {m.at[s]}, !.at[s] = NULL]

-----------------------------------------------------------------------------
\* Contexts (iot_security_common.c, iot_security_be_software.c)

iot_security_be_init(m) == malloc(m, "be")

iot_security_be_deinit(m) == iot_security_buffer_free(m, "be")

\* The new context replaces the pointers to the old one.
iot_security_init(m) ==
    Undo(Then(malloc(ClearContext(m), "ctx"), iot_security_be_init),
         LAMBDA x : iot_security_buffer_free(x, "ctx"))

\* The parameters are not freed.
iot_security_deinit(m) ==
    ClearContext(iot_security_buffer_free(iot_security_be_deinit(m), "ctx"))

\* _iot_security_be_check_context_and_params_is_valid
_iot_security_be_check_context_and_params_is_valid(m, s) ==
    IF m.at[s] = NULL THEN Fail(m) ELSE Ok(m)

-----------------------------------------------------------------------------
\* Keys of the device (pk)

_iot_security_be_software_pk_load_ed25519_key(m, s) == malloc(m, s)

\* Both keys are in local buffers until both are loaded.
_iot_security_be_software_pk_load_ed25519(m) ==
    Undo(Then(_iot_security_be_software_pk_load_ed25519_key(m, "seckey"),
              LAMBDA x : _iot_security_be_software_pk_load_ed25519_key(x, "pubkey")),
         LAMBDA x : Clear(x, {"seckey", "pubkey"}))

\* Without CONFIG_STDK_IOT_CORE_CRYPTO_SUPPORT_VERIFY; RSA keys the same way.
_iot_security_be_software_pk_load_ecdsa(m) == malloc(m, "seckey")
_iot_security_be_software_pk_load_rsa(m) == malloc(m, "seckey")

_iot_security_be_software_pk_load_key(m) ==
    IF variant = "x509" THEN _iot_security_be_software_pk_load_ecdsa(m)
    ELSE _iot_security_be_software_pk_load_ed25519(m)

iot_security_pk_init(m) ==
    Then(malloc(Clear(m, PkSlots), "pk"),
         LAMBDA x : Undo(Then(_iot_security_be_software_pk_load_key(x),
                              LAMBDA y : Ok(Enter(y, "pk"))),
                         LAMBDA y : iot_security_buffer_free(y, "pk")))

_iot_security_be_software_pk_deinit(m) ==
    Then(_iot_security_be_check_context_and_params_is_valid(m, "pk"),
         LAMBDA x : Ok(iot_security_buffer_free(iot_security_buffer_free(x, "pubkey"), "seckey")))

iot_security_pk_deinit(m) ==
    Then(_iot_security_be_software_pk_deinit(m),
         LAMBDA x : Ok(Leave(iot_security_buffer_free(x, "pk"), "pk")))

\* The signature is a new buffer of the caller, who frees it.
iot_security_pk_sign(m) ==
    Then(_iot_security_be_check_context_and_params_is_valid(m, "pk"), MayFail)

-----------------------------------------------------------------------------
\* Cipher

\* A cipher that is still there is not freed.
iot_security_cipher_init(m) ==
    IF m.at["ctx"] = NULL THEN Fail(m)
    ELSE Then(malloc(m, "cipher"),
              LAMBDA x : Ok(Enter(Clear(x, {"key", "iv"}), "cipher")))

\* Mistake: the iv is left to the caller.
CipherDeinitKeepsIv(m) ==
    Then(_iot_security_be_check_context_and_params_is_valid(m, "cipher"),
         LAMBDA x : Ok(iot_security_buffer_free(x, "key")))

_iot_security_be_software_cipher_deinit(m) ==
    Then(_iot_security_be_check_context_and_params_is_valid(m, "cipher"),
         LAMBDA x : Ok(iot_security_buffer_free(iot_security_buffer_free(x, "key"), "iv")))

\* The memset after the backend clears what the structure still points to.
iot_security_cipher_deinit(m) ==
    IF m.at["ctx"] = NULL THEN Fail(m)
    ELSE Then(_iot_security_be_software_cipher_deinit(m),
              LAMBDA x : Ok(Leave(Clear(iot_security_buffer_free(x, "cipher"), CipherSlots),
                                    "cipher")))

\* Mistake: the old buffer is freed before the new one is there to take its place.
CopyParamsLate(m, s) ==
    Ok(Store([m EXCEPT !.live = @ \ {m.at[s]}], s)) \cup Fail([m EXCEPT !.live = @ \ {m.at[s]}])

\* A copy of the caller's buffer; the old one is freed first.
CopyParams(m, s) == malloc(iot_security_buffer_free(m, s), s)

_iot_security_be_software_cipher_copy_params(m, s) == CopyParams(m, s)

\* The handlers set the iv only.
iot_security_cipher_set_params(m) ==
    Then(_iot_security_be_check_context_and_params_is_valid(m, "cipher"),
         LAMBDA x : _iot_security_be_software_cipher_copy_params(x, "iv"))

\* mbedtls_helper_cipher_aes reads the key and the iv; its output is the caller's.
mbedtls_helper_cipher_aes(m) ==
    IF m.at["key"] = NULL \/ m.at["iv"] = NULL THEN Fail(m)
    ELSE MayFail([m EXCEPT !.stale = @ \cup ({m.at["key"], m.at["iv"]} \ m.live)])

iot_security_cipher_aes_decrypt(m) ==
    Then(_iot_security_be_check_context_and_params_is_valid(m, "cipher"),
         mbedtls_helper_cipher_aes)

iot_security_cipher_aes_encrypt(m) ==
    Then(_iot_security_be_check_context_and_params_is_valid(m, "cipher"),
         mbedtls_helper_cipher_aes)

-----------------------------------------------------------------------------
\* Keys (iot_security_manager.c)

iot_security_manager_init(m) == Ok(Enter(m, "manager"))
iot_security_manager_deinit(m) == Ok(Leave(m, "manager"))

\* The key goes straight to key_buf->p, also when malloc returns NULL.
RawKey(m, s) == Fail(m) \cup Ok(Store(m, s)) \cup Fail(Clear(m, {s}))
_convert_pubkey_to_raw(m) == RawKey(m, "eph_pub")
_convert_seckey_to_raw(m) == RawKey(m, "eph_sec")

\* The buffers of an earlier key pair are replaced, not freed.
mbedtls_helper_gen_secp256r1_keypair(m) ==
    Then(Then(MayFail(m), _convert_pubkey_to_raw),
         LAMBDA x : Undo(_convert_seckey_to_raw(x),
                         LAMBDA y : iot_security_buffer_free(y, "eph_pub")))

iot_security_manager_generate_key(m) == mbedtls_helper_gen_secp256r1_keypair(m)

\* The caller gets a copy.
iot_security_manager_get_key(m) ==
    IF m.at["eph_pub"] = NULL THEN Fail(m) ELSE MayFail(m)

\* The caller gets the buffer of the certificate.
iot_security_manager_get_certificate(m) == MayFail(m)

\* Key id SHARED_SECRET: the cipher takes the caller's buffer.
_iot_security_be_software_manager_set_key(m, b) ==
    Then(_iot_security_be_check_context_and_params_is_valid(m, "cipher"),
         LAMBDA x : Ok([x EXCEPT !.at["key"] = b]))

-----------------------------------------------------------------------------
\* Key agreement (iot_security_ecdh.c)

\* The device's key, converted for the key agreement, with ED25519 only.
_iot_security_be_software_ecdh_load_ed25519(m) == malloc(m, "t_seckey")
_iot_security_be_software_ecdh_load(m) ==
    IF variant = "x509" THEN Ok(m)
    ELSE _iot_security_be_software_ecdh_load_ed25519(m)

iot_security_ecdh_init(m) ==
    IF m.at["ctx"] = NULL THEN Fail(m)
    ELSE Then(malloc(m, "ecdh"),
              LAMBDA x : Undo(Then(_iot_security_be_software_ecdh_load(
                                       Clear(x, EcdhSlots \ {"ecdh"})),
                                   LAMBDA y : Ok(Enter(y, "ecdh"))),
                              LAMBDA y : iot_security_buffer_free(y, "ecdh")))

_iot_security_be_software_ecdh_deinit(m) ==
    Then(_iot_security_be_check_context_and_params_is_valid(m, "ecdh"),
         LAMBDA x : Ok(iot_security_buffer_free(
                           iot_security_buffer_free(
                               iot_security_buffer_free(x, "t_seckey"), "c_pubkey"), "salt")))

iot_security_ecdh_deinit(m) ==
    Then(_iot_security_be_software_ecdh_deinit(m),
         LAMBDA x : Ok(Leave(Clear(iot_security_buffer_free(x, "ecdh"), EcdhSlots), "ecdh")))

_iot_security_be_software_ecdh_copy_params(m, s) == CopyParams(m, s)

iot_security_ecdh_set_params(m) ==
    Then(Then(_iot_security_be_check_context_and_params_is_valid(m, "ecdh"),
              LAMBDA x : _iot_security_be_software_ecdh_copy_params(x, "c_pubkey")),
         LAMBDA x : _iot_security_be_software_ecdh_copy_params(x, "salt"))

\* The shared secret becomes the cipher's key, if there is a cipher, and the
\* caller's: the outcome's secret.  A failure frees it.
_iot_security_be_software_ecdh_compute_shared_secret(m) ==
    LET b   == Fresh(m)
        x   == [m EXCEPT !.live = @ \cup {b}]
        set == IF "cipher" \in m.sub THEN _iot_security_be_software_manager_set_key(x, b)
               ELSE Ok(x)
    IN  {[m |-> IF o.ok THEN o.m ELSE m, ok |-> o.ok, secret |-> b] : o \in set}
        \cup {[m |-> m, ok |-> FALSE, secret |-> NULL]}

iot_security_ecdh_compute_shared_secret(m) ==
    IF \/ m.at["ecdh"] = NULL
       \/ variant = "x509" /\ m.at["eph_sec"] = NULL
    THEN {[m |-> m, ok |-> FALSE, secret |-> NULL]}
    ELSE _iot_security_be_software_ecdh_compute_shared_secret(m)

-----------------------------------------------------------------------------
\* Callers with a context of their own: what F leaves allocated is lost

\* The outcome o for a caller whose own context was that of m.
Restore(m, o) ==
    [m  |-> [o.m EXCEPT !.at = [s \in Slots |-> IF s \in ContextSlots THEN m.at[s] ELSE @[s]],
                        !.sub = m.sub],
     ok |-> o.ok]
Local(m, F(_)) == {Restore(m, o) : o \in F(m)}

iot_security_storage_init(m) ==
    Then(malloc(m, "storage"), LAMBDA x : Ok(Enter(x, "storage")))
iot_security_storage_deinit(m) ==
    Leave(iot_security_buffer_free(m, "storage"), "storage")

_iot_nv_io_storage_init(m) ==
    Then(iot_security_init(m),
         LAMBDA x : Undo(iot_security_storage_init(x), iot_security_deinit))
_iot_nv_io_storage_deinit(m) == iot_security_deinit(iot_security_storage_deinit(m))

\* _iot_nv_io_storage, whatever the access returns.
_iot_nv_io_storage(m) ==
    Then(_iot_nv_io_storage_init(m), LAMBDA x : MayFail(_iot_nv_io_storage_deinit(x)))

\* The context is lost when the certificate cannot be read.
iot_nv_get_certificate(m) ==
    Then(Then(_iot_nv_io_storage_init(m),
              LAMBDA x : Then(iot_security_manager_init(x),
                              iot_security_manager_get_certificate)),
         LAMBDA x : Then(iot_security_manager_deinit(x),
                         LAMBDA y : Ok(_iot_nv_io_storage_deinit(y))))

\* iot_wt_create (JWT and CWT): the context is lost when the keys cannot be
\* loaded, and freed when the signature fails.
iot_wt_create(m) ==
    Then(Then(iot_security_init(m), iot_security_pk_init),
         LAMBDA x : {[m |-> iot_security_deinit(q.m), ok |-> o.ok] :
                        o \in iot_security_pk_sign(x), q \in iot_security_pk_deinit(x)})

-----------------------------------------------------------------------------
\* The easy-setup handlers

\* iot_easysetup_ble_ecdh_init: a new context takes the place of ctx's, or none.
iot_easysetup_ble_ecdh_init(m) ==
    LET outs == Then(Then(Then(iot_security_init(m), iot_security_pk_init),
                          iot_security_manager_init), iot_security_cipher_init)
    IN  {IF o.ok THEN o ELSE Restore(m, o) : o \in outs}

iot_easysetup_ble_ecdh_compute_shared_signature(m) ==
    Then(Then(Then(iot_security_manager_get_certificate(m), iot_security_ecdh_init),
              iot_security_manager_generate_key),
         LAMBDA x : Then(iot_security_manager_get_key(x), iot_security_pk_sign))

\* _es_deviceinfo_handler; the X.509 variant first gives the context that it is
\* about to replace a cipher.
_es_deviceinfo_handler(m) ==
    CASE variant = "http" -> Then(MayFail(m), iot_security_cipher_set_params)
      [] variant = "ble"  -> Then(iot_easysetup_ble_ecdh_init(m),
                                  LAMBDA x : Then(MayFail(x), iot_security_cipher_set_params))
      [] variant = "x509" -> Then(Then(iot_security_cipher_init(m), MayFail),
                                  LAMBDA x : Then(iot_easysetup_ble_ecdh_init(x),
                                         iot_easysetup_ble_ecdh_compute_shared_signature))

\* free(secret_buf.p) when the rest of the request fails.
FreeSecret(m, b) == [m EXCEPT !.twice = @ \cup ({b} \ m.live), !.live = @ \ {b}]

\* The last steps of the handler after the secret: the date, which may fail, and
\* ecdh_deinit, whose result is ignored.  late: failed with the secret made.
EndKeyInfo(m, secret, err) ==
    LET x == IF err /\ secret # NULL THEN FreeSecret(m, secret) ELSE m
    IN  {[m |-> d.m, ok |-> ~ err, late |-> err /\ secret # NULL] :
            d \in iot_security_ecdh_deinit(x)}

Secretless(outs) == {[m |-> o.m, ok |-> o.ok, secret |-> NULL] : o \in outs}

KeyInfoSecret(m) ==
    UNION {IF o.ok THEN iot_security_ecdh_compute_shared_secret(o.m)
           ELSE Secretless({o}) : o \in iot_security_ecdh_set_params(m)}

\* _es_keyinfo_handler over HTTP, and over BLE without certificates.
KeyInfoRaw(m) ==
    UNION {IF ~ i.ok THEN {[m |-> i.m, ok |-> FALSE, late |-> FALSE]}
           ELSE UNION {IF o.ok THEN UNION {EndKeyInfo(o.m, o.secret, err) : err \in BOOLEAN}
                       ELSE EndKeyInfo(o.m, NULL, TRUE) :
                          o \in KeyInfoSecret(i.m)} :
              i \in Then(MayFail(m), iot_security_ecdh_init)}

\* _es_keyinfo_handler over BLE with certificates: the peer's key, the hash with
\* its input and the iv stay in local buffers; the context's ECDH is the one of
\* DEVICEINFO, so a second request fails.  Failures before the date do not free
\* the secret, which the cipher has.
KeyInfoX509(m) ==
    LET peer(x) == MallocLocal(x)
        hash(x) == MallocLocal(MallocLocal(x))
        keep(x) == EndKeyInfo(x, NULL, TRUE)
        iv(x, b) == UNION {IF c.ok THEN UNION {EndKeyInfo(c.m, b, err) : err \in BOOLEAN}
                           ELSE keep(c.m) : c \in iot_security_cipher_set_params(x)}
    IN  {[m |-> m, ok |-> FALSE, late |-> FALSE]}
        \cup keep(m)
        \cup UNION {IF o.ok THEN keep(hash(o.m)) \cup iv(MallocLocal(hash(o.m)), o.secret)
                    ELSE keep(o.m) : o \in KeyInfoSecret(peer(m))}

-----------------------------------------------------------------------------
\* Steps

SecurityInit == /\ variant \in Variants /\ mem = Empty /\ ready = FALSE
        /\ requests = 0 /\ sessions = 0 /\ late = FALSE /\ why = {}

Session == /\ sessions < MaxSessions
           /\ sessions' = sessions + 1
           /\ UNCHANGED <<variant, requests, late>>

Request == /\ requests < MaxRequests
           /\ mem.at["ctx"] # NULL
           /\ variant = "http" => "cipher" \in mem.sub
           /\ requests' = requests + 1
           /\ UNCHANGED <<variant, sessions>>

\* _create_easysetup_resources
CreateContext == /\ Session /\ mem.at["ctx"] = NULL
                 /\ \E o \in iot_security_init(mem) : mem' = o.m
                 /\ why' = {}
                 /\ UNCHANGED ready

\* _delete_easysetup_resources_all
DeleteContext == /\ mem.at["ctx"] # NULL
                 /\ mem' = iot_security_deinit(mem)
                 /\ ready' = FALSE
                 /\ why' = IF mem.sub = {} THEN {} ELSE {"closed"}
                 /\ UNCHANGED <<variant, requests, sessions, late>>

\* iot_easysetup_init over HTTP.
EasysetupInit == /\ Session /\ variant = "http" /\ mem.at["ctx"] # NULL
                 /\ \E o \in iot_security_cipher_init(mem) : mem' = o.m
                 /\ ready' = FALSE
                 /\ why' = IF "cipher" \in mem.sub THEN {"reinit"} ELSE {}

\* iot_easysetup_deinit, and over BLE also the event GATT_LEAVE, on the thread of
\* the BLE stack: a KEYINFO may still be in the queue.
EasysetupDeinit == /\ mem.at["cipher"] # NULL
                   /\ \E o \in iot_security_cipher_deinit(mem) : mem' = o.m
                   /\ why' = {}
                   /\ UNCHANGED <<variant, ready, requests, sessions, late>>

DeviceInfo == /\ Request
              /\ \E o \in _es_deviceinfo_handler(mem) : mem' = o.m /\ ready' = o.ok
              /\ why' = IF variant = "http" THEN {} ELSE {"renew"}
              /\ UNCHANGED late

KeyInfo == /\ Request /\ ready
           /\ ready' = FALSE
           /\ \E o \in IF variant = "x509" THEN KeyInfoX509(mem) ELSE KeyInfoRaw(mem) :
                 /\ mem' = o.m
                 /\ late' = (late \/ o.late)
                 /\ why' = {c \in {"rekey", "left", "locals"} :
                               CASE c = "rekey"  -> mem.at["key"] # NULL
                                 [] c = "left"   -> "cipher" \notin mem.sub
                                 [] c = "locals" -> variant = "x509"}

\* Any later request: its text is decrypted and the answer encrypted.
Message == /\ Request
           /\ \E o \in Then(iot_security_cipher_aes_decrypt(mem), iot_security_cipher_aes_encrypt) :
                 mem' = o.m
           /\ why' = {}
           /\ UNCHANGED <<ready, late>>

\* The calls that make a context of their own.
OwnContext ==
    /\ Session
    /\ \/ \E o \in Local(mem, _iot_nv_io_storage) : mem' = o.m /\ why' = {}
       \/ \E o \in Local(mem, iot_nv_get_certificate) \cup Local(mem, iot_wt_create) :
             mem' = o.m /\ why' = IF o.ok THEN {} ELSE {"half"}
    /\ UNCHANGED ready

SecurityNext == \/ CreateContext \/ DeleteContext \/ EasysetupInit \/ EasysetupDeinit
        \/ DeviceInfo \/ KeyInfo \/ Message \/ OwnContext

SecuritySpec == SecurityInit /\ [][SecurityNext]_securityVars

-----------------------------------------------------------------------------
\* Properties

\* Every pointer of a context is to an allocated buffer of its own, no buffer was
\* freed twice and no freed one used.
Owned(m) ==
    /\ m \in Mem
    /\ IsFiniteSet(m.live)
    /\ Pointers(m) \subseteq m.live
    /\ \A s, t \in Slots : s # t /\ m.at[s] # NULL => m.at[s] # m.at[t]
    /\ m.twice = {} /\ m.stale = {}

\* The buffers of the contexts are owned: unless a KEYINFO failed after its secret
\* had become the cipher's key, for then the handler freed it
\* (iot_easysetup_d2d_tcp.c:707, iot_easysetup_d2d_ble.c:737 and 1017).
PointersAreOwned == late \/ Owned(mem)

Lost(m) == m.live \ Pointers(m)

\* A step loses a buffer only where the code drops it: a second KEYINFO replaces
\* the key ("rekey") or has no cipher to give it to ("left"), a DEVICEINFO over
\* BLE replaces the context ("renew"), an init without deinit the cipher
\* ("reinit"), the X.509 KEYINFO its local buffers ("locals"),
\* iot_security_deinit the parameters ("closed"), and a call that fails in the
\* middle its own context ("half").  Everything else that is allocated is freed
\* by iot_security_cipher_deinit, iot_security_ecdh_deinit, and the ends of the
\* handlers.
LossHasCause == [][Lost(mem') \subseteq Lost(mem) \/ why' # {}]_securityVars
=============================================================================
