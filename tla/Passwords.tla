------------------------------- MODULE Passwords -------------------------------
(***************************************************************************)
(* Keys from passwords, src/services/pbkdf2.ts, and what is sealed with    *)
(* them, src/services/aes-gcm.ts.                                          *)
(*                                                                         *)
(* Services that were made with one record of profiles share it: a profile *)
(* registered with one is registered with all.  A derivation returns salt, *)
(* hash and iterations; the caller has to know the rest to repeat it.  A   *)
(* buffer is a sequence of cells, an IV of 16 bytes being two and a tag    *)
(* one; PBKDF2 and AES-GCM are what they promise.                          *)
(***************************************************************************)
EXTENDS Integers, Sequences, FiniteSets

CONSTANTS
  PasswordSet,
  ProfileNames,
  Pbkdf2Configs,    \* records: hashBytes, saltBytes, iterations, algorithm
  DefaultConfig,    \* one of them, made of the constants
  AesServices,      \* records: keyBytes and ivCells, from KEYRING and WRAPPED_KEY, and
                    \* the key length of the cipher that is named besides
  MaxDerivations,   \* bounds: derivations, and buffers sealed
  MaxSealed

ASSUME AesAssumption == 
  AesServices \subseteq [keyBytes : Nat, cipherBytes : Nat, ivCells : Nat \ {0}]

VARIABLES
  profiles,      \* the record of profiles the services share
  derivations,   \* calls that derive a key, under way or finished
  sealed         \* what encryptJson or encrypt has made

passwordVars == <<profiles, derivations, sealed>>

NotOk == [ok |-> FALSE]

PasswordInit ==
  /\ profiles = [name \in {} |-> DefaultConfig]
  /\ derivations = <<>>
  /\ sealed = <<>>

-----------------------------------------------------------------------------
(* registerProfile copies the configuration; a frozen record, as the one   *)
(* of the constants is, throws.                                            *)
RegisterProfile(name, config) ==
  /\ profiles' = [n \in DOMAIN profiles \union {name} |->
                   IF n = name THEN config ELSE profiles[n]]
  /\ UNCHANGED <<derivations, sealed>>

HasProfile(name) == name \in DOMAIN profiles

(* getConfig: what is not given is the default.                            *)
GetConfig(given) ==
  [field \in DOMAIN DefaultConfig |->
     IF field \in DOMAIN given THEN given[field] ELSE DefaultConfig[field]]

(* The hash is as long as asked for and its own for each input.            *)
Pbkdf2(password, salt, config) ==
  [bytes |-> config.hashBytes, of |-> <<password, salt, config>>]

(* A salt is [bytes, number]; a number of its own for each random one.     *)
DeriveKeyFromPassword(password, salt, config) ==
  IF salt.bytes # config.saltBytes THEN NotOk
  ELSE [ok |-> TRUE, salt |-> salt, hash |-> Pbkdf2(password, salt, config),
        iterations |-> config.iterations]

DeriveKeyFromPasswordWithProfile(password, name, salt) ==
  IF HasProfile(name) THEN DeriveKeyFromPassword(password, salt, profiles[name]) ELSE NotOk

RandomSalt(config) == [bytes |-> config.saltBytes, number |-> Len(derivations) + 1]

Derivation(password, name, config, result) ==
  [password |-> password, profile |-> name, config |-> config,
   salt |-> RandomSalt(config), result |-> result]

Begin(password, name, config, result) ==
  /\ Len(derivations) < MaxDerivations
  /\ derivations' = Append(derivations, Derivation(password, name, config, result))
  /\ UNCHANGED <<profiles, sealed>>

(* deriveKeyFromPasswordWithProfile, which blocks.                         *)
Derive(password, name) ==
  HasProfile(name) /\ Begin(password, name, profiles[name],
    DeriveKeyFromPassword(password, RandomSalt(profiles[name]), profiles[name]))

(* deriveKeyFromPassword without a profile.                                *)
DeriveDirectly(password, given) ==
  Begin(password, "none", GetConfig(given),
    DeriveKeyFromPassword(password, RandomSalt(GetConfig(given)), GetConfig(given)))

(* deriveKeyFromPasswordWithProfileAsync up to its await.                  *)
BeginDerivation(password, name) ==
  HasProfile(name) /\ Begin(password, name, profiles[name], NotOk)

(* Mistake the runs must notice: the profile is read when the await is over. *)
ConfigNow(d) == profiles[d.profile]

(* The configuration was looked up before the await.                       *)
ConfigOf(d) == d.config

FinishDerivation(i) ==
  LET d == derivations[i]
  IN  /\ ~d.result.ok
      /\ derivations' = [derivations EXCEPT ![i].result =
                           DeriveKeyFromPassword(d.password, d.salt, ConfigOf(d))]
      /\ UNCHANGED <<profiles, sealed>>

-----------------------------------------------------------------------------
(* AES-GCM.  A key is the hash of a derivation.                            *)
RequiredIvCells == 2

AesTag(key, aad, iv, data) == <<"tag", key, aad, iv, data>>

(* A key of another length than KEY_BITS is refused, and by createCipheriv *)
(* and createDecipheriv one of another length than the cipher's.           *)
KeyFits(service, key) == key.bytes = service.keyBytes /\ key.bytes = service.cipherBytes

(* encrypt refuses a key that does not fit, and only that.                 *)
AesEncrypt(service, key, iv, data, aad) ==
  IF ~KeyFits(service, key) THEN NotOk
  ELSE [ok |-> TRUE, encrypted |-> data, iv |-> iv, tag |-> AesTag(key, aad, iv, data)]

CombineEncryptedDataAndTag(encrypted, tag) == encrypted \o <<tag>>

CombineIvAndEncryptedData(iv, encryptedWithTag) == iv \o encryptedWithTag

CombineIvTagAndEncryptedData(iv, encrypted, tag) ==
  CombineIvAndEncryptedData(iv, CombineEncryptedDataAndTag(encrypted, tag))

CellsFrom(s, from) == SubSeq(s, from + 1, Len(s))

(* splitEncryptedData asks for an IV and a tag at least; decryptJson does  *)
(* not.                                                                    *)
SplitEncryptedData(service, data) ==
  IF Len(data) < service.ivCells + 1 THEN NotOk
  ELSE [ok |-> TRUE, iv |-> SubSeq(data, 1, service.ivCells),
        rest |-> CellsFrom(data, service.ivCells)]

(* decrypt: the key must fit and the IV have 16 bytes, whatever the        *)
(* service's own; the last 16 bytes are the tag.                           *)
AesDecrypt(service, iv, data, key, aad) ==
  IF \/ ~KeyFits(service, key) \/ Len(iv) # RequiredIvCells \/ data = <<>> THEN NotOk
  ELSE LET text == SubSeq(data, 1, Len(data) - 1)
       IN  IF data[Len(data)] # AesTag(key, aad, iv, text) THEN NotOk
           ELSE [ok |-> TRUE, data |-> text]

RandomIv(service) == [i \in 1 .. service.ivCells |-> <<"iv", Len(sealed) + 1, i>>]

(* JSON.stringify, and JSON.parse of what it gives.                        *)
JsonCells(value) == <<<<"json", value>>>>

SealedCells(e) == CombineIvTagAndEncryptedData(e.iv, e.encrypted, e.tag)

Seal(i, service, value, encryption) ==
  /\ encryption.ok /\ Len(sealed) < MaxSealed
  /\ sealed' = Append(sealed, [cells |-> SealedCells(encryption), value |-> value,
                               service |-> service, by |-> i])
  /\ UNCHANGED <<profiles, derivations>>

(* encryptJson with the key of derivation i.                               *)
EncryptJson(i, service, value) ==
  /\ derivations[i].result.ok
  /\ Seal(i, service, value,
          AesEncrypt(service, derivations[i].result.hash, RandomIv(service), JsonCells(value), <<>>))

DecryptJson(service, data, key) ==
  LET ivEnd == IF service.ivCells < Len(data) THEN service.ivCells ELSE Len(data)
  IN  AesDecrypt(service, SubSeq(data, 1, ivEnd), CellsFrom(data, ivEnd), key, <<>>)

(* The same with splitEncryptedData and decrypt.                           *)
DecryptSplit(service, data, key) ==
  LET s == SplitEncryptedData(service, data)
  IN  IF s.ok THEN AesDecrypt(service, s.iv, s.rest, key, <<>>) ELSE NotOk

Values == {"value"}

PasswordNext ==
  \/ \E name \in ProfileNames :
       \/ \E config \in Pbkdf2Configs : RegisterProfile(name, config)
       \/ \E w \in PasswordSet : Derive(w, name) \/ BeginDerivation(w, name)
  \/ \E w \in PasswordSet, n \in {c.iterations : c \in Pbkdf2Configs} :
       DeriveDirectly(w, [iterations |-> n])
  \/ \E i \in DOMAIN derivations :
       \/ FinishDerivation(i)
       \/ \E service \in AesServices, value \in Values : EncryptJson(i, service, value)

-----------------------------------------------------------------------------
(* A buffer cut anywhere, with a cell twice, or with the ends of another.  *)
Altered(data) ==
  {SubSeq(data, 1, n) : n \in 0 .. Len(data)}
    \union {SubSeq(data, n, Len(data)) : n \in 1 .. Len(data)}
    \union {SubSeq(data, 1, n) \o SubSeq(data, n, Len(data)) : n \in 1 .. Len(data)}
    \union {SubSeq(data, 1, n) \o CellsFrom(sealed[i].cells, n) :
              n \in 0 .. Len(data), i \in {j \in DOMAIN sealed : Len(sealed[j].cells) >= Len(data)}}

(* What was derived can be derived again from the password, the salt and   *)
(* the configuration the profile had when the call was made, whatever has  *)
(* been registered meanwhile.                                              *)
DerivationRepeats(d) ==
  d.result.ok =>
    d.result = DeriveKeyFromPassword(d.password, d.result.salt, d.config)

(* Whoever derives a key for the salt of d with password w and a profile   *)
(* as it is now opens s, made with the key of d, with a service: both ways *)
(* exactly if password and configuration are those of d and the service    *)
(* has an IV of 16 bytes as the one before.                                *)
OpensAgain(s, d, w, name, service) ==
  LET again == DeriveKeyFromPasswordWithProfile(w, name, d.salt)
      json  == IF again.ok THEN DecryptJson(service, s.cells, again.hash) ELSE NotOk
  IN  /\ json.ok <=>
           /\ HasProfile(name) /\ w = d.password /\ profiles[name] = d.config
           /\ service = s.service /\ service.ivCells = RequiredIvCells
      /\ json.ok => json.data = JsonCells(s.value)
      /\ again.ok => DecryptSplit(service, s.cells, again.hash) = json

(* What is sealed with a key from a password comes back to whoever has the *)
(* password, the salt and the configuration, and to nobody else; a buffer  *)
(* that was cut or put together from two opens for nobody; a derivation    *)
(* under way takes no notice of profiles registered after it began.        *)
SealedComesBack ==
  /\ \A i \in DOMAIN derivations : DerivationRepeats(derivations[i])
  /\ \A k \in DOMAIN sealed :
       LET s == sealed[k]
           d == derivations[s.by]
       IN  /\ \A w \in PasswordSet, name \in ProfileNames, service \in AesServices :
                OpensAgain(s, d, w, name, service)
           /\ \A data \in Altered(s.cells) :
                DecryptJson(s.service, data, d.result.hash).ok =>
                  \E j \in DOMAIN sealed : data = sealed[j].cells
=============================================================================
