----------------------------- MODULE ProfileStore -----------------------------
(***************************************************************************)
(* The encrypted profile store of one data directory: the key the gateway  *)
(* resolves at each start (setup/encryption-key), the .keycheck file that  *)
(* wraps the data key (profile/keycheck, bootstrap), the blob of one       *)
(* profile (core/profile/blob, filesystem-store) and what writes it:       *)
(* sessions (profile/lifecycle) and the profile routes (rest/profiles).    *)
(***************************************************************************)
EXTENDS Naturals, FiniteSets

CONSTANTS Clients,   \* sessions and requests on the profile
          MaxKeys,   \* data keys this directory may see
          MaxContents  \* contents written

ASSUME StoreAssumption ==
  /\ MaxKeys \in Nat
  /\ {"free", "left"} \cap Clients = {}

VARIABLES
  gateway,   \* "down", "resolving", "persisting", "opening", "up" or "disabled"
  envKey,    \* BG_ENCRYPTION_KEY, 0 if unset
  keyFile,   \* .encryption-key: a key, 0 if there is none or it was cut short
  secret,    \* the key this start has resolved
  keycheck,  \* .keycheck: the key it was wrapped with and the data key
  ring,      \* the data key in memory, 0 if none
  data,      \* data.enc: the data key and the content, or NoBlob
  lock,      \* the lock on the profile: a client, "free" or "left"
  client,    \* what each client does, and how far
  exported,  \* downloaded blobs
  keys, contents,      \* keys made and contents written so far
  envMoved, wiped,   \* the operator changed the environment, deleted .keycheck
  created            \* an empty profile was written beside a session

keyVars == <<envKey, keyFile, secret, keycheck, ring, keys, envMoved, wiped>>
directoryVars == <<data, lock, client, exported, contents, created>>
profileStoreVars == <<gateway, keyVars, directoryVars>>

EnvKey == 1                        \* the key of the environment
NoCheck == [kek |-> 0, dek |-> 0]
NoBlob == [dek |-> 0, holds |-> 0]
Foreign == [dek |-> MaxKeys + 1, holds |-> 0]   \* a blob of another gateway
Away == [does |-> "nothing", at |-> "nowhere", blob |-> NoBlob]

StoreInit ==
  /\ gateway = "down" /\ envKey = 0 /\ keyFile = 0 /\ secret = 0
  /\ keycheck = NoCheck /\ ring = 0 /\ data = NoBlob /\ lock = "free"
  /\ client = [c \in Clients |-> Away] /\ exported = {Foreign}
  /\ keys = EnvKey /\ contents = 0 /\ envMoved = FALSE /\ wiped = FALSE /\ created = FALSE

----------------------------------------------------------------------------
(* Starting: bootstrapProfiles *)

Starts ==
  /\ gateway = "down" /\ gateway' = "resolving"
  /\ UNCHANGED <<keyVars, directoryVars>>

\* resolveEncryptionKey: the environment, the file, or a key made now; writing it
\* truncates the file first.  An empty file counts as none.
ResolveKey ==
  /\ gateway = "resolving"
  /\ \/ envKey # 0 /\ secret' = envKey /\ gateway' = "opening" /\ UNCHANGED <<keyFile, keys>>
     \/ envKey = 0 /\ keyFile # 0 /\ secret' = keyFile /\ gateway' = "opening"
        /\ UNCHANGED <<keyFile, keys>>
     \/ /\ envKey = 0 /\ keyFile = 0 /\ keys < MaxKeys
        /\ keys' = keys + 1 /\ secret' = keys + 1
        /\ keyFile' = 0 /\ gateway' = "persisting"
  /\ UNCHANGED <<envKey, keycheck, ring, envMoved, wiped, directoryVars>>

\* Mutant: the store is opened with a new key before the key is in its file.
PersistsLast ==
  /\ gateway = "persisting" /\ gateway' = "opening"
  /\ UNCHANGED <<keyVars, directoryVars>>
PersistKey ==
  /\ gateway = "persisting" /\ gateway' = "opening"
  /\ keyFile' = secret
  /\ UNCHANGED <<envKey, secret, keycheck, ring, keys, envMoved, wiped, directoryVars>>

\* initStore: a new data key, wrapped in the secret.
InitStore ==
  /\ keycheck = NoCheck /\ keys < MaxKeys /\ keys' = keys + 1
  /\ keycheck' = [kek |-> secret, dek |-> keys + 1]
  /\ ring' = keys + 1 /\ gateway' = "up"

\* openStore: the fingerprint and the check value are those of the secret, or the start
\* goes on without profiles.
Opens ==
  /\ keycheck # NoCheck
  /\ IF keycheck.kek = secret THEN ring' = keycheck.dek /\ gateway' = "up"
     ELSE gateway' = "disabled" /\ UNCHANGED ring
  /\ UNCHANGED <<keycheck, keys>>

OpenStore ==
  /\ gateway = "opening" /\ (InitStore \/ Opens)
  /\ UNCHANGED <<envKey, keyFile, secret, envMoved, wiped, directoryVars>>

\* The process ends, at any point: its lock stays until it is stale.
GatewayDies ==
  /\ gateway # "down" /\ gateway' = "down"
  /\ secret' = 0 /\ ring' = 0
  /\ client' = [c \in Clients |-> Away]
  /\ lock' = IF lock \in Clients THEN "left" ELSE lock
  /\ UNCHANGED <<envKey, keyFile, keycheck, keys, envMoved, wiped, data, exported, contents, created>>

\* The operator, between two runs.
MovesEnv ==
  /\ gateway = "down" /\ envKey' = EnvKey - envKey /\ envMoved' = (keycheck # NoCheck \/ envMoved)
  /\ UNCHANGED <<gateway, keyFile, secret, keycheck, ring, keys, wiped, directoryVars>>

StartsOver ==
  /\ gateway \in {"down", "disabled"} /\ keycheck # NoCheck
  /\ keycheck' = NoCheck /\ wiped' = TRUE
  /\ UNCHANGED <<gateway, envKey, keyFile, secret, ring, keys, envMoved, directoryVars>>

----------------------------------------------------------------------------
(* The lock *)

\* store.lock: mkdir of the lock directory, once and without retry.
TakesLock(c) == lock = "free" /\ lock' = c

\* store.unlock; a lock directory that cannot be removed is left behind.
LetsGo(c) == lock' \in {"free", "left"}

LockAges ==
  /\ lock = "left" /\ lock' = "free"
  /\ UNCHANGED <<gateway, keyVars, data, client, exported, contents, created>>

Goes(c, does, at, b) == client' = [client EXCEPT ![c] = [does |-> does, at |-> at, blob |-> b]]
Rests(c) == client' = [client EXCEPT ![c] = Away]

----------------------------------------------------------------------------
(* Sessions *)

Acquires(c) ==
  /\ gateway = "up" /\ client[c] = Away
  /\ TakesLock(c) /\ Goes(c, "session", "locked", NoBlob)
  /\ UNCHANGED <<gateway, keyVars, data, exported, contents, created>>

Readable(b) == b.dek = ring

\* loadProfileData; acquire gives the lock back if it throws.
Loads(c) ==
  /\ client[c].does = "session" /\ client[c].at = "locked"
  /\ IF data = NoBlob \/ Readable(data) THEN Goes(c, "session", "runs", data) /\ UNCHANGED lock
     ELSE Rests(c) /\ LetsGo(c)
  /\ UNCHANGED <<gateway, keyVars, data, exported, contents, created>>

\* encodeAndStore, or a capture that is not saved; then release.
Commits(c) ==
  /\ client[c].does = "session" /\ client[c].at = "runs"
  /\ \/ contents < MaxContents /\ contents' = contents + 1 /\ data' = [dek |-> ring, holds |-> contents + 1]
     \/ UNCHANGED <<data, contents>>
  /\ Goes(c, "session", "stored", NoBlob)
  /\ UNCHANGED <<gateway, keyVars, lock, exported, created>>

Unlocks(c) ==
  /\ client[c].at = "stored" /\ client[c].does \in {"session", "delete", "import"}
  /\ LetsGo(c) /\ Rests(c)
  /\ UNCHANGED <<gateway, keyVars, data, exported, contents, created>>

----------------------------------------------------------------------------
(* The profile routes *)

DeleteLocks(c) ==
  /\ gateway = "up" /\ client[c] = Away
  /\ TakesLock(c) /\ Goes(c, "delete", "locked", NoBlob)
  /\ UNCHANGED <<gateway, keyVars, data, exported, contents, created>>

Deletes(c) ==
  /\ client[c].does = "delete" /\ client[c].at = "locked"
  /\ data' = NoBlob /\ Goes(c, "delete", "stored", NoBlob)
  /\ UNCHANGED <<gateway, keyVars, lock, exported, contents, created>>

\* The upload is decoded with the key ring before it is stored.
Accepted(b) == Readable(b)

\* POST import, of a blob or of a storage state, which is encrypted here.
ImportBegins(c) ==
  /\ gateway = "up" /\ client[c] = Away
  /\ \/ \E b \in exported : Accepted(b) /\ Goes(c, "import", "checked", b) /\ UNCHANGED contents
     \/ /\ contents < MaxContents /\ contents' = contents + 1
        /\ Goes(c, "import", "checked", [dek |-> ring, holds |-> contents + 1])
  /\ UNCHANGED <<gateway, keyVars, data, lock, exported, created>>

ImportLocks(c) ==
  /\ client[c].does = "import" /\ client[c].at = "checked"
  /\ \/ TakesLock(c) /\ Goes(c, "import", "locked", client[c].blob)
     \/ lock # "free" /\ Rests(c) /\ UNCHANGED lock
  /\ UNCHANGED <<gateway, keyVars, data, exported, contents, created>>

\* putRaw, which may find no room on the disk.
Imports(c) ==
  /\ client[c].does = "import" /\ client[c].at = "locked"
  /\ data' \in {client[c].blob, data} /\ Goes(c, "import", "stored", NoBlob)
  /\ UNCHANGED <<gateway, keyVars, lock, exported, contents, created>>

\* POST create: the list is read, and the empty profile written, without the lock.
CreateLists(c) ==
  /\ gateway = "up" /\ client[c] = Away /\ data = NoBlob
  /\ Goes(c, "create", "listed", NoBlob)
  /\ UNCHANGED <<gateway, keyVars, data, lock, exported, contents, created>>

CreateWrites(c) ==
  /\ client[c].does = "create" /\ client[c].at = "listed"
  /\ data' = [dek |-> ring, holds |-> 0] /\ Rests(c)
  /\ created' = (created \/ lock \in Clients \/ data # NoBlob)
  /\ UNCHANGED <<gateway, keyVars, lock, exported, contents>>

\* GET export hands out the blob as it is.
Exports ==
  /\ gateway = "up" /\ data # NoBlob
  /\ exported' = exported \cup {data}
  /\ UNCHANGED <<gateway, keyVars, data, lock, client, contents, created>>

StoreNext ==
  \/ Starts \/ ResolveKey \/ PersistKey \/ OpenStore \/ GatewayDies \/ MovesEnv \/ StartsOver
  \/ LockAges \/ Exports
  \/ \E c \in Clients : \/ Acquires(c) \/ Loads(c) \/ Commits(c) \/ Unlocks(c)
                        \/ DeleteLocks(c) \/ Deletes(c) \/ ImportBegins(c) \/ ImportLocks(c) \/ Imports(c)
                        \/ CreateLists(c) \/ CreateWrites(c)

StoreSpec == StoreInit /\ [][StoreNext]_profileStoreVars

----------------------------------------------------------------------------
(* Properties *)

\* Whatever was stored, imported or left by a process that died can be read by
\* the gateway that runs, unless the operator deleted .keycheck to start over
\* (keycheck.ts 28-30; rest/profiles.ts 373-390).
StoredIsReadable == (gateway = "up" /\ data # NoBlob /\ ~wiped) => Readable(data)

\* A start finds the key that opens the store, whatever the point where an
\* earlier one died, as long as nobody changes the environment or the directory
\* (encryption-key.ts 37-66, bootstrap.ts 53-75).
KeyOpensStore == (~envMoved /\ ~wiped) => gateway # "disabled"

\* No delete and no import changes a profile between the load and the save of a
\* session (rest/profiles.ts 209-223, 392-409); a create may (rest/profiles.ts 155-181).
SessionKeepsProfile ==
  \A c \in Clients : (client[c].does = "session" /\ client[c].at = "runs" /\ ~created) => data = client[c].blob

\* The directory keeps its profiles: its key is found, they can be read, and
\* nobody changes one that a session has.
StoreKeeps == KeyOpensStore /\ StoredIsReadable /\ SessionKeepsProfile

\* An empty profile never replaces one that holds something, as the 409 of create
\* says (rest/profiles.ts 155-158).
CreateKeepsSaved == [][data.holds # 0 => (data'.holds # 0 \/ data' = NoBlob \/ data' \in exported)]_profileStoreVars
=============================================================================
