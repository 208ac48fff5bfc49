----------------------------- MODULE NetgenProofs -----------------------------
(***************************************************************************)
(* The keys that scavium-netgen has created are never replaced, and no     *)
(* file ever refers to a key that is not on disk; an invocation that ends  *)
(* with files it may overwrite leaves a network that agrees with its keys, *)
(* and one that fails has a reason: proved for every set of nodes,         *)
(* accounts and command lines and any number of invocations and            *)
(* interruptions.                                                          *)
(***************************************************************************)
EXTENDS Netgen, TLAPS

KeyTypeOK ==
    /\ disk \in [Files -> ContentsType] /\ extra \in ContentsType
    /\ fresh \in Nat /\ cfg \in Invocations
    /\ mem \in [Owners -> Nat]

\* A key in memory is the one on disk, a key file that is not whole holds none,
\* and what Besu was given came from a file.
KeyInv ==
    /\ KeyTypeOK
    /\ \A f \in KeyFiles : disk[f].st # "ok" => disk[f].keys = {}
    /\ \A o \in Owners : mem[o] = 0 \/ mem[o] \in disk[File("key", o)].keys
    /\ extra.keys \cup extra.alloc \subseteq DiskKeys(Owners) \cup {0}
    /\ NoLostKey

\* No key file loses its key.
KeysStay == \A f \in KeyFiles : /\ disk[f].st = "ok" => disk'[f] = disk[f]
                                /\ disk[f].keys \subseteq disk'[f].keys

-----------------------------------------------------------------------------

\* The empty directory refers to nothing.
LEMMA KeyInit == Init => KeyInv
<1> SUFFICES ASSUME Init PROVE KeyInv
  OBVIOUS
<1>1. Missing \in ContentsType /\ Missing.keys = {} /\ Missing.alloc = {}
  BY DEF Missing, ContentsType
<1>2. KeyTypeOK
  BY <1>1 DEF Init, KeyTypeOK
<1>3. \A f \in Files : disk[f].keys = {} /\ disk[f].alloc = {}
  BY <1>1 DEF Init
<1>4. KeyFiles \subseteq Files
  BY DEF Files
<1> QED BY <1>1, <1>2, <1>3, <1>4 DEF Init, KeyInv, NoLostKey

\* A write of a file that is not a key, or no write.
LEMMA OtherFile ==
  ASSUME KeyInv, NEW f, f \notin KeyFiles, NEW v \in ContentsType,
         v.keys \cup v.alloc \subseteq DiskKeys(Owners) \cup {0},
         disk' = disk \/ WriteFile(f, v),
         UNCHANGED <<fresh, cfg, mem, extra>>
  PROVE  KeyInv' /\ KeysStay
<1>1. KeyTypeOK'
  BY DEF KeyInv, KeyTypeOK, WriteFile
<1>2. \A g \in Files : disk'[g] = disk[g] \/ disk'[g] = v
  BY DEF KeyInv, KeyTypeOK, WriteFile
<1>3. KeyFiles \subseteq Files /\ \A o \in Owners : File("key", o) \in KeyFiles
  BY DEF Files, KeyFiles
<1>4. \A g \in KeyFiles : disk'[g] = disk[g]
  BY <1>3 DEF KeyInv, KeyTypeOK, WriteFile
<1>5. DiskKeys(Owners)' = DiskKeys(Owners)
  BY <1>3, <1>4 DEF DiskKeys
<1>6. NoLostKey'
  BY <1>2, <1>5 DEF KeyInv, NoLostKey
<1> QED BY <1>1, <1>3, <1>4, <1>5, <1>6 DEF KeyInv, KeysStay

\* Nothing of what the invariant speaks of changes.
LEMMA NoWrite ==
  ASSUME KeyInv, UNCHANGED <<disk, fresh, cfg, mem, extra>>
  PROVE  KeyInv' /\ KeysStay
  BY DEF KeyInv, KeyTypeOK, KeysStay, NoLostKey, DiskKeys

\* The keys an invocation has read are on disk.
LEMMA KeysOfKnown ==
  ASSUME KeyInv, NEW S, S \subseteq Owners
  PROVE  KeysOf(S) \subseteq DiskKeys(Owners) \cup {0} /\ KeysOf(S) \in SUBSET Nat
<1>1. \A o \in S : mem[o] \in DiskKeys(Owners) \cup {0}
  BY DEF KeyInv, DiskKeys
<1>2. \A o \in S : mem[o] \in Nat
  BY DEF KeyInv, KeyTypeOK
<1> QED BY <1>1, <1>2 DEF KeysOf

\* A key is read, or refused, or created where there is none.
LEMMA KeyFileInv ==
  ASSUME KeyInv, NEW o \in Owners, readOrCreateNodeKey(o)
  PROVE  KeyInv' /\ KeysStay
<1> DEFINE f == File("key", o)
<1>1. f \in KeyFiles /\ f \in Files /\ KeyFiles \subseteq Files
  BY DEF KeyFiles, Files
<1>2. CASE Fatal
  BY <1>2, NoWrite DEF Fatal
<1>3. CASE /\ \E k \in disk[f].keys : mem' = [mem EXCEPT ![o] = k]
           /\ UNCHANGED <<disk, fresh, cfg, extra, runs, stops>>
  <2> PICK k \in disk[f].keys : mem' = [mem EXCEPT ![o] = k]
    BY <1>3, Zenon
  <2>1. k \in Nat
    BY <1>1 DEF KeyInv, KeyTypeOK, ContentsType
  <2>2. KeyTypeOK'
    BY <1>3, <2>1 DEF KeyInv, KeyTypeOK
  <2>3. \A p \in Owners : mem'[p] = 0 \/ mem'[p] \in disk'[File("key", p)].keys
    BY <1>3 DEF KeyInv, KeyTypeOK
  <2>4. NoLostKey' /\ DiskKeys(Owners)' = DiskKeys(Owners)
    BY <1>3 DEF KeyInv, NoLostKey, DiskKeys
  <2> QED BY <1>3, <2>2, <2>3, <2>4 DEF KeyInv, KeysStay
<1>4. CASE /\ disk[f].st = "absent"
           /\ fresh' = fresh + 1
           /\ mem' = [mem EXCEPT ![o] = fresh + 1]
           /\ WriteFile(f, Contents({fresh + 1}, {}, FALSE))
           /\ UNCHANGED <<cfg, extra, runs, stops>>
  <2> DEFINE v == Contents({fresh + 1}, {}, FALSE)
  <2>1. v \in ContentsType /\ v.keys = {fresh + 1} /\ v.alloc = {} /\ v.st = "ok"
    BY DEF KeyInv, KeyTypeOK, Contents, ContentsType
  <2>2. disk[f].keys = {}
    BY <1>1, <1>4 DEF KeyInv
  <2>3. disk' = [disk EXCEPT ![f] = v]
    BY <1>4 DEF WriteFile
  <2> HIDE DEF f, v
  <2>4. disk'[f] = v /\ \A g \in Files : g # f => disk'[g] = disk[g]
    BY <1>1, <2>3 DEF KeyInv, KeyTypeOK
  <2>5. KeyTypeOK'
    <3>1. disk' \in [Files -> ContentsType]
      BY <2>1, <2>3, Zenon DEF KeyInv, KeyTypeOK
    <3>2. fresh' \in Nat /\ mem' \in [Owners -> Nat]
      BY <1>4 DEF KeyInv, KeyTypeOK
    <3> QED BY <1>4, <3>1, <3>2 DEF KeyInv, KeyTypeOK
  <2>6. KeysStay
    BY <1>1, <1>4, <2>2, <2>4 DEF KeysStay
  <2>7. \A p \in Owners : File("key", p) \in KeyFiles
    BY DEF KeyFiles
  <2>8. DiskKeys(Owners) \subseteq DiskKeys(Owners)'
    BY <2>6, <2>7 DEF DiskKeys, KeysStay
  <2>9. \A p \in Owners : mem'[p] = 0 \/ mem'[p] \in disk'[File("key", p)].keys
    <3> TAKE p \in Owners
    <3>1. CASE p = o
      BY <1>4, <2>1, <2>4, <3>1 DEF KeyInv, KeyTypeOK, f
    <3>2. CASE p # o
      BY <1>4, <2>6, <2>7, <3>2 DEF KeyInv, KeyTypeOK, KeysStay
    <3> QED BY <3>1, <3>2
  <2>10. fresh + 1 \in DiskKeys(Owners)'
    BY <2>1, <2>4 DEF DiskKeys, f
  <2>11. NoLostKey'
    BY <2>1, <2>4, <2>8, <2>10 DEF KeyInv, NoLostKey
  <2>12. \A g \in KeyFiles : disk'[g].st # "ok" => disk'[g].keys = {}
    BY <1>1, <2>1, <2>4 DEF KeyInv
  <2>13. (extra.keys \cup extra.alloc \subseteq DiskKeys(Owners) \cup {0})'
    BY <1>4, <2>8 DEF KeyInv
  <2> QED BY <2>5, <2>6, <2>9, <2>11, <2>12, <2>13 DEF KeyInv
<1> QED BY <1>2, <1>3, <1>4, Zenon DEF readOrCreateNodeKey

\* A file that writeFileIfAllowed writes, or keeps.
LEMMA AllowedInv ==
  ASSUME KeyInv, NEW f, f.kind # "key", NEW v \in ContentsType,
         v.keys \cup v.alloc \subseteq DiskKeys(Owners) \cup {0},
         writeFileIfAllowed(f, v)
  PROVE  KeyInv' /\ KeysStay
<1>1. f \notin KeyFiles
  BY DEF KeyFiles, File
<1> QED BY <1>1, OtherFile DEF writeFileIfAllowed

\* The contents that the writers render.
LEMMA Rendered ==
  ASSUME KeyInv, NEW S, S \subseteq Owners, NEW A, A \subseteq Owners, NEW b \in BOOLEAN
  PROVE  LET v == Contents(KeysOf(S), KeysOf(A), b)
         IN v \in ContentsType /\ v.keys \cup v.alloc \subseteq DiskKeys(Owners) \cup {0}
  BY KeysOfKnown DEF Contents, ContentsType

\* The nodes and accounts of an invocation are owners of keys.
LEMMA OwnersOf ==
  ASSUME KeyInv
  PROVE  /\ cfg.nodes \subseteq Owners /\ Accounts \subseteq Owners
         /\ \A r : OfRole(cfg, r) \subseteq Owners
         /\ KeysOf({}) = {}
  BY InvocationsAssumption DEF KeyInv, KeyTypeOK, Flags, Owners, OfRole, KeysOf

\* ensureBase, ensureAccounts, ensureNodeKeys and buildDerivedFields.
LEMMA KeyStepsInv ==
  ASSUME KeyInv, ensureBase \/ ensureAccounts \/ ensureNodeKeys \/ buildDerivedFields
  PROVE  KeyInv' /\ KeysStay
<1>1. CASE ensureBase
  <2>1. Net("base") \notin KeyFiles
    BY Zenon DEF KeyFiles, File, Net
  <2>2. LET v == Contents({}, {}, FALSE)
        IN v \in ContentsType /\ v.keys = {} /\ v.alloc = {}
    BY DEF Contents, ContentsType
  <2> QED BY <1>1, <2>1, <2>2, OtherFile, Zenon DEF ensureBase
<1>2. CASE \E o \in Owners : readOrCreateNodeKey(o)
  BY <1>2, KeyFileInv
<1>3. CASE \E o \in Owners : writePublic(o)
  <2> PICK o \in Owners : writePublic(o)
    BY <1>3
  <2>1. File("pub", o) \notin KeyFiles
    BY Zenon DEF KeyFiles, File
  <2>2. mem[o] \in Nat /\ mem[o] \in DiskKeys(Owners) \cup {0}
    BY DEF KeyInv, KeyTypeOK, DiskKeys
  <2>3. LET v == Contents({mem[o]}, {}, FALSE)
        IN v \in ContentsType /\ v.keys \cup v.alloc \subseteq DiskKeys(Owners) \cup {0}
    BY <2>2 DEF Contents, ContentsType
  <2> QED BY <2>1, <2>3, OtherFile, Zenon DEF writePublic
<1>4. CASE buildDerivedFields
  BY <1>4, NoWrite DEF buildDerivedFields, Fatal
<1> QED BY <1>1, <1>2, <1>3, <1>4 DEF ensureAccounts, ensureNodeKeys, Owners

\* Besu reads the validators from disk, and extraData.txt is no key.
LEMMA ExtraDataInv ==
  ASSUME KeyInv, maybeGenerateQBFTExtraData
  PROVE  KeyInv' /\ KeysStay
<1> DEFINE f == Net("extradata")
           from == disk[Net("validators")]
<1>1. f \notin KeyFiles
  BY Zenon DEF KeyFiles, File, Net
<1>2. Net("validators") \in Files /\ KeyFiles \subseteq Files
  BY DEF Files, Singles
<1>3. CASE Fatal
  BY <1>3, NoWrite DEF Fatal
<1>4. ASSUME NEW v \in ContentsType, v.keys \cup v.alloc \subseteq DiskKeys(Owners) \cup {0},
             extra' = v, disk' = disk \/ WriteFile(f, v), UNCHANGED <<fresh, cfg, mem>>
      PROVE  KeyInv' /\ KeysStay
  <2>1. KeyTypeOK'
    BY <1>4 DEF KeyInv, KeyTypeOK, WriteFile
  <2>2. \A g \in Files : disk'[g] = disk[g] \/ disk'[g] = v
    BY <1>4 DEF KeyInv, KeyTypeOK, WriteFile
  <2>3. \A g \in KeyFiles : disk'[g] = disk[g]
    BY <1>1, <1>2, <1>4 DEF KeyInv, KeyTypeOK, WriteFile
  <2>4. \A o \in Owners : File("key", o) \in KeyFiles
    BY DEF KeyFiles
  <2>5. DiskKeys(Owners)' = DiskKeys(Owners)
    BY <2>3, <2>4 DEF DiskKeys
  <2>6. NoLostKey'
    BY <1>4, <2>2, <2>5 DEF KeyInv, NoLostKey
  <2> QED BY <1>4, <2>1, <2>3, <2>4, <2>5, <2>6 DEF KeyInv, KeysStay
<1>5. CASE /\ extra' = Contents({}, {}, FALSE)
           /\ UNCHANGED <<disk, fresh, cfg, mem, runs, stops>>
  <2>1. LET v == Contents({}, {}, FALSE)
        IN v \in ContentsType /\ v.keys = {} /\ v.alloc = {}
    BY DEF Contents, ContentsType
  <2> QED BY <1>4, <1>5, <2>1, Zenon
<1>6. CASE /\ extra' = Contents(from.keys, {}, TRUE)
           /\ WriteFile(f, extra')
           /\ UNCHANGED <<fresh, cfg, mem, runs, stops>>
  <2>1. LET v == Contents(from.keys, {}, TRUE)
        IN v \in ContentsType /\ v.keys \cup v.alloc \subseteq DiskKeys(Owners) \cup {0}
    BY <1>2 DEF KeyInv, KeyTypeOK, NoLostKey, Contents, ContentsType
  <2> QED BY <1>4, <1>6, <2>1, Zenon
<1> QED BY <1>3, <1>5, <1>6, Zenon DEF maybeGenerateQBFTExtraData

\* The files of the network and the reports are derived from keys on disk.
LEMMA WritersInv ==
  ASSUME KeyInv,
         \/ writeQBFTValidatorsJSON \/ writeGenesis \/ writeStaticNodes \/ writeNodeConfigs
         \/ writeSystemdTemplate \/ writeReadme
         \/ writeInventoryJSON \/ writeAccountsInventoryJSON \/ writeHostsFile
  PROVE  KeyInv' /\ KeysStay
<1> DEFINE Good(v) == v \in ContentsType
                      /\ v.keys \cup v.alloc \subseteq DiskKeys(Owners) \cup {0}
           Plain == Contents({}, {}, FALSE)
<1>1. \A f, v : f.kind # "key" /\ Good(v) /\ writeFileIfAllowed(f, v) => KeyInv' /\ KeysStay
  BY AllowedInv
<1>2. Good(Plain)
  BY Rendered, OwnersOf, Zenon
<1>3. Good(BootEnodes)
  BY Rendered, OwnersOf, Zenon DEF BootEnodes
<1>4. \A k : Net(k).kind = k
  BY DEF Net, File
<1>5. \A k, n : File(k, n).kind = k
  BY DEF File
<1>6. \A k, v : k # "key" /\ Good(v) /\ writeFileIfAllowed(Net(k), v) => KeyInv' /\ KeysStay
  BY <1>1, <1>4
<1> HIDE DEF Good
<1>7. CASE writeQBFTValidatorsJSON
  <2>1. Good(Contents(KeysOf(OfRole(cfg, "validator")), {}, FALSE))
    BY Rendered, OwnersOf, Zenon DEF Good
  <2> QED BY <1>6, <1>7, <2>1, Zenon DEF writeQBFTValidatorsJSON
<1>8. CASE writeGenesis
  <2>1. Good([extra EXCEPT !.alloc = AllocKeys])
    BY KeysOfKnown, OwnersOf DEF Good, AllocKeys, KeyInv, KeyTypeOK, ContentsType
  <2> QED BY <1>6, <1>8, <2>1, Zenon DEF writeGenesis
<1>9. CASE writeStaticNodes
  BY <1>1, <1>3, <1>4, <1>5, <1>9 DEF writeStaticNodes
<1>10. CASE writeNodeConfigs
  BY <1>1, <1>2, <1>3, <1>5, <1>10, NoWrite, Zenon
  DEF writeNodeConfigs, renderBootnodeConfig, renderValidatorConfig, renderRPCConfig, Fatal
<1>11. CASE writeSystemdTemplate \/ writeHostsFile
  BY <1>2, <1>11, <1>6, Zenon DEF writeSystemdTemplate, writeHostsFile
<1>12. CASE writeReadme
  <2>1. extra.made \in BOOLEAN
    BY DEF KeyInv, KeyTypeOK, ContentsType
  <2>2. Good(Contents(KeysOf(cfg.nodes), AllocKeys, extra.made))
    BY <2>1, Rendered, OwnersOf DEF Good, AllocKeys
  <2> QED BY <1>6, <1>12, <2>2, Zenon DEF writeReadme
<1>13. CASE writeInventoryJSON
  <2>1. Good(Contents(KeysOf(cfg.nodes), {}, FALSE))
    BY Rendered, OwnersOf, Zenon DEF Good
  <2> QED BY <1>6, <1>13, <2>1, Zenon DEF writeInventoryJSON
<1>14. CASE writeAccountsInventoryJSON
  <2>1. Good(Contents({}, AllocKeys, FALSE))
    BY Rendered, OwnersOf, Zenon DEF Good, AllocKeys
  <2> QED BY <1>6, <1>14, <2>1, Zenon DEF writeAccountsInventoryJSON
<1> QED BY <1>7, <1>8, <1>9, <1>10, <1>11, <1>12, <1>13, <1>14

\* An interruption may cut any file short but a key that is there.
LEMMA StopInv ==
  ASSUME KeyInv, Stop
  PROVE  KeyInv' /\ KeysStay
<1>1. Torn \in ContentsType /\ Torn.keys = {} /\ Torn.alloc = {} /\ Torn.st # "ok"
  BY DEF Torn, ContentsType
<1>2. CASE disk' = disk
  BY <1>2, NoWrite DEF Stop
<1>3. ASSUME NEW f, WriteFile(f, Torn), f \notin KeyFiles
      PROVE  KeyInv' /\ KeysStay
  BY <1>1, <1>3, OtherFile DEF Stop
<1>4. ASSUME NEW f \in KeyFiles, WriteFile(f, Torn), disk[f].st = "absent"
      PROVE  KeyInv' /\ KeysStay
  <2>1. f \in Files /\ KeyFiles \subseteq Files /\ disk[f].keys = {}
    BY <1>4 DEF Files, KeyInv
  <2>2. disk'[f] = Torn /\ \A g \in Files : g # f => disk'[g] = disk[g]
    BY <1>4, <2>1 DEF KeyInv, KeyTypeOK, WriteFile
  <2>3. KeyTypeOK'
    BY <1>1, <1>4, Zenon DEF KeyInv, KeyTypeOK, WriteFile, Stop
  <2>4. KeysStay
    BY <1>4, <2>1, <2>2 DEF KeysStay
  <2>5. \A g \in KeyFiles : disk'[g].keys = disk[g].keys
    BY <1>1, <2>1, <2>2, Zenon
  <2>6. \A o \in Owners : File("key", o) \in KeyFiles
    BY DEF KeyFiles
  <2>7. DiskKeys(Owners)' = DiskKeys(Owners)
    BY <2>5, <2>6 DEF DiskKeys
  <2>8. NoLostKey'
    BY <1>1, <2>2, <2>7 DEF KeyInv, NoLostKey
  <2>9. \A g \in KeyFiles : disk'[g].st # "ok" => disk'[g].keys = {}
    BY <1>1, <2>1, <2>2 DEF KeyInv
  <2>10. UNCHANGED <<mem, extra>>
    BY DEF Stop
  <2> QED BY <2>3, <2>4, <2>5, <2>6, <2>7, <2>8, <2>9, <2>10 DEF KeyInv
<1>5. \A o : File("pub", o) \notin KeyFiles
  BY Zenon DEF File, KeyFiles
<1>6. PubFiles \cap KeyFiles = {} /\ Net("extradata") \notin KeyFiles
  BY <1>5, Zenon DEF PubFiles, Net, File, KeyFiles
<1> QED BY <1>2, <1>3, <1>4, <1>6 DEF Stop

\* A new invocation has read nothing yet.
LEMMA StartInv ==
  ASSUME KeyInv, Start
  PROVE  KeyInv' /\ KeysStay
<1>1. Missing \in ContentsType /\ Missing.keys = {} /\ Missing.alloc = {}
  BY DEF Missing, ContentsType
<1>2. KeyTypeOK'
  BY <1>1 DEF KeyInv, KeyTypeOK, Start
<1>3. disk' = disk /\ extra' = Missing /\ mem' = [o \in Owners |-> 0]
  BY DEF Start
<1>4. NoLostKey' /\ KeysStay
  BY <1>3 DEF KeyInv, NoLostKey, DiskKeys, KeysStay
<1> QED BY <1>1, <1>2, <1>3, <1>4 DEF KeyInv

\* Every step keeps the invariant, and the keys.
LEMMA KeyStep == KeyInv /\ [Next]_vars => KeyInv' /\ KeysStay
<1> SUFFICES ASSUME KeyInv, [Next]_vars PROVE KeyInv' /\ KeysStay
  OBVIOUS
<1>1. CASE UNCHANGED vars
  BY <1>1, NoWrite DEF vars
<1> QED BY <1>1, StartInv, StopInv, KeyStepsInv, ExtraDataInv, WritersInv DEF Next

-----------------------------------------------------------------------------

\* readOrCreateNodeKey, on any number of invocations with any flags, never
\* replaces a node or account key that is whole on disk.
THEOREM NetgenKeysForever == Spec => KeysAreForever
<1>1. KeyInv /\ [Next]_vars => [\A f \in KeyFiles : disk[f].st = "ok" => disk'[f] = disk[f]]_vars
  BY KeyStep DEF KeysStay
<1> QED BY <1>1, KeyInit, KeyStep, PTL DEF Spec, KeysAreForever

\* Between any two writes and after any interruption, every key that a file of
\* the network refers to is on disk.
THEOREM NetgenNoLostKey == Spec => []NoLostKey
<1>1. KeyInv => NoLostKey
  BY DEF KeyInv
<1> QED BY <1>1, KeyInit, KeyStep, PTL DEF Spec

-----------------------------------------------------------------------------
\* What the files hold while an invocation runs.

\* The files of an invocation.
FilesOf(c) == IF c.cmd = "inventory" THEN runInventory(c) ELSE runInit(c)

KeysDone == KeyFiles \cap todo = {}

\* A file that this invocation is done with is whole and says what the keys in
\* memory say.
Right(g) ==
    /\ g.kind \notin {"derive", "extradata"} => disk[g].st = "ok"
    /\ g.kind = "key" => disk[g].keys = {mem[g.of]}
    /\ g.kind = "validators" =>
        KeysDone /\ disk[g].keys = KeysOf(OfRole(cfg, "validator"))
    /\ g.kind = "extradata" =>
        /\ KeysDone /\ extra.st = "ok" /\ extra.made = (cfg.besu = "works")
        /\ cfg.overwrite /\ extra.made => extra.keys = KeysOf(OfRole(cfg, "validator"))
    /\ g.kind = "genesis" =>
        KeysDone /\ Net("extradata") \notin todo /\ disk[g] = [extra EXCEPT !.alloc = AllocKeys]
    /\ g.kind = "readme" => Net("extradata") \notin todo /\ disk[g].made = extra.made
    /\ g.kind = "static" \/ (g.kind = "config" /\ Role[g.of] # "bootnode") =>
        KeysDone /\ disk[g].keys = KeysOf(OfRole(cfg, "bootnode"))

\* Files that are written, or read, whatever --overwrite-configs says.
Always == {"key", "pub", "base", "derive", "extradata"}

Progress ==
    /\ todo \subseteq FilesOf(cfg)
    /\ status = "done" => todo = {}
    /\ \A g \in FilesOf(cfg) \ todo : cfg.overwrite \/ g.kind \in Always => Right(g)

ProgressInv ==
    /\ \A f \in KeyFiles : disk[f].st = "ok" => \E k \in disk[f].keys : disk[f].keys = {k}
    /\ status \in {"running", "done"} => Progress

\* The types that KeyInv leaves out; no key was drawn after the last one.
RunTypes ==
    /\ \A f \in KeyFiles : disk[f].keys \subseteq 0..fresh
    /\ \A o \in Owners : mem[o] <= fresh
    /\ runs \in 0..MaxRuns /\ stops \in 0..MaxStops
    /\ status \in {"idle", "running", "done", "failed", "stopped"}
    /\ todo \subseteq Files

\* The kinds of files that the writers of the network and the reports write.
Derived == {"validators", "genesis", "static", "config", "unit", "readme", "inventory", "accounts",
            "hosts"}

\* A file is determined by its kind and its owner.
LEMMA FileParts ==
  /\ \A k, o : File(k, o).kind = k /\ File(k, o).of = o
  /\ \A k : Net(k).kind = k /\ Net(k).of = "net"
  BY DEF File, Net

\* The files of an invocation are files; its key files belong to accounts or to
\* its nodes.
LEMMA CommandFiles ==
  ASSUME NEW c \in Invocations
  PROVE  /\ FilesOf(c) \subseteq Files /\ KeyFiles \subseteq Files
         /\ \A g \in FilesOf(c) : g.kind = "key" => g \in KeyFiles
         /\ \A g \in KeyFiles : g.kind = "key" /\ g.of \in Owners /\ g = File("key", g.of)
         /\ \A g \in FilesOf(c) : g.kind \in {"key", "config"} /\ g.of \notin Accounts =>
                g.of \in c.nodes
         /\ \A g \in FilesOf(c) : g.kind = "extradata" => c.cmd # "inventory"
<1>1. c.nodes \subseteq Nodes
  BY InvocationsAssumption DEF Flags
<1>2. \A g \in AccountFiles(c) :
        \E k \in {"key", "pub"}, a \in Accounts : g = File(k, a)
  BY DEF AccountFiles
<1>3. \A g \in NodeKeyFiles(c) :
        \E k \in {"key", "pub"}, n \in c.nodes : g = File(k, n)
  BY DEF NodeKeyFiles
<1>4. \A g \in NodeFiles(c) :
        \/ \E k \in {"validators", "extradata", "genesis", "static", "unit"} : g = Net(k)
        \/ \E k \in {"static", "config"}, n \in c.nodes : g = File(k, n)
  BY DEF NodeFiles
<1>5. \A g \in Reports(c) \cup {Net("base"), Net("derive")} :
        \E k \in {"base", "derive", "accounts", "readme", "inventory", "hosts"} : g = Net(k)
  BY DEF Reports
<1>6. \A g \in FilesOf(c) :
        \/ \E k \in {"key", "pub"}, o \in Accounts \cup c.nodes : g = File(k, o)
        \/ \E k \in {"static", "config"}, n \in c.nodes : g = File(k, n)
        \/ \E k \in {"base", "derive", "accounts", "readme", "inventory", "hosts"} : g = Net(k)
        \/ /\ c.cmd # "inventory"
           /\ \E k \in {"validators", "extradata", "genesis", "static", "unit"} : g = Net(k)
  <2> TAKE g \in FilesOf(c)
  <2>1. \/ g \in AccountFiles(c) \/ g \in NodeKeyFiles(c)
        \/ g \in Reports(c) \cup {Net("base"), Net("derive")}
        \/ c.cmd # "inventory" /\ g \in NodeFiles(c)
    BY DEF FilesOf, runInventory, runInit
  <2>2. CASE g \in AccountFiles(c)
    BY <1>2, <2>2
  <2>3. CASE g \in NodeKeyFiles(c)
    BY <1>3, <2>3
  <2>4. CASE g \in Reports(c) \cup {Net("base"), Net("derive")}
    BY <1>5, <2>4
  <2>5. CASE c.cmd # "inventory" /\ g \in NodeFiles(c)
    BY <1>4, <2>5
  <2> QED BY <2>1, <2>2, <2>3, <2>4, <2>5
<1>7. \A k \in {"key", "pub"}, o \in Accounts \cup c.nodes : File(k, o) \in Files
  BY <1>1 DEF Files, KeyFiles, PubFiles, Owners
<1>8. \A k \in {"static", "config"}, n \in c.nodes : File(k, n) \in Files
  BY <1>1 DEF Files
<1>9. \A k \in Singles : Net(k) \in Files
  BY DEF Files
<1>10. {"base", "derive", "accounts", "readme", "inventory", "hosts", "validators", "extradata",
        "genesis", "static", "unit"} \subseteq Singles
  BY DEF Singles
<1>11. FilesOf(c) \subseteq Files /\ KeyFiles \subseteq Files
  <2>1. ASSUME NEW g \in FilesOf(c) PROVE g \in Files
    <3>1. CASE \E k \in {"key", "pub"}, o \in Accounts \cup c.nodes : g = File(k, o)
      BY <3>1, <1>7
    <3>2. CASE \E k \in {"static", "config"}, n \in c.nodes : g = File(k, n)
      BY <3>2, <1>8
    <3>3. CASE \E k \in Singles : g = Net(k)
      BY <3>3, <1>9
    <3> QED BY <1>6, <1>10, <2>1, <3>1, <3>2, <3>3
  <2> QED BY <2>1 DEF Files
<1>12. \A g \in FilesOf(c) : g.kind = "key" => \E o \in Accounts \cup c.nodes : g = File("key", o)
  BY <1>6, FileParts
<1>13. \A g \in FilesOf(c) : g.kind = "config" => g.of \in c.nodes
  BY <1>6, FileParts
<1>14. \A g \in FilesOf(c) : g.kind = "extradata" => c.cmd # "inventory"
  BY <1>6, FileParts
<1>15. \A g \in KeyFiles : g.kind = "key" /\ g.of \in Owners /\ g = File("key", g.of)
  BY FileParts DEF KeyFiles
<1>16. \A g \in FilesOf(c) : g.kind = "key" => g \in KeyFiles /\ g.of \in Accounts \cup c.nodes
  BY <1>1, <1>12, FileParts DEF KeyFiles, Owners
<1> QED BY <1>11, <1>13, <1>14, <1>15, <1>16

\* So are those of the invocation that runs.
LEMMA InvocationFiles ==
  ASSUME KeyInv
  PROVE  /\ FilesOf(cfg) \subseteq Files /\ KeyFiles \subseteq Files
         /\ \A g \in FilesOf(cfg) : g.kind = "key" => g \in KeyFiles
         /\ \A g \in KeyFiles : g.kind = "key" /\ g.of \in Owners /\ g = File("key", g.of)
         /\ \A g \in FilesOf(cfg) : g.kind \in {"key", "config"} /\ g.of \notin Accounts =>
                g.of \in cfg.nodes
         /\ \A g \in FilesOf(cfg) : g.kind = "extradata" => cfg.cmd # "inventory"
  BY CommandFiles DEF KeyInv, KeyTypeOK

\* The steps are taken in order: keys before what is derived from them, the
\* validators before the extraData, and both before the rest.
LEMMA DueInOrder ==
  ASSUME KeyInv, NEW f, Due(f), f.of \notin Accounts, f.kind \in Derived \cup {"extradata"}
  PROVE  /\ KeysDone
         /\ f.kind \notin {"validators", "extradata"} => Net("extradata") \notin todo
         /\ f.kind = "extradata" => Net("validators") \notin todo
<1>1. \A g \in todo : Rank(cfg, f) <= Rank(cfg, g)
  BY DEF Due
<1>2. Rank(cfg, f) = Place[f.kind] \/ (f.kind = "readme" /\ Rank(cfg, f) = 14)
  BY DEF Rank
<1>3. /\ Place["validators"] = 4 /\ Place["extradata"] = 5 /\ Place["genesis"] = 6
      /\ Place["static"] = 7 /\ Place["config"] = 8 /\ Place["unit"] = 9 /\ Place["readme"] = 10
      /\ Place["inventory"] = 11 /\ Place["accounts"] = 12 /\ Place["hosts"] = 13
      /\ Place["key"] = 2
  BY DEF Place
<1>4. Rank(cfg, f) \in Nat /\ Rank(cfg, f) >= 4
      /\ (f.kind # "validators" => Rank(cfg, f) >= 5)
      /\ (f.kind \notin {"validators", "extradata"} => Rank(cfg, f) >= 6)
  BY <1>2, <1>3 DEF Derived
<1>5. ASSUME NEW g \in KeyFiles, g \in todo PROVE FALSE
  <2>1. Rank(cfg, g) \in {1, 2}
    BY <1>3, <1>5, InvocationFiles DEF Rank
  <2> QED BY <1>1, <1>4, <1>5, <2>1
<1>6. Rank(cfg, Net("extradata")) = 5 /\ Rank(cfg, Net("validators")) = 4
  BY <1>3, FileParts, NamesAssumption DEF Rank
<1>7. f.kind \notin {"validators", "extradata"} => Net("extradata") \notin todo
  BY <1>1, <1>4, <1>6
<1>8. f.kind = "extradata" => Net("validators") \notin todo
  BY <1>1, <1>4, <1>6
<1> QED BY <1>5, <1>7, <1>8 DEF KeysDone

\* There is one extraData file.
LEMMA ExtraFile ==
  /\ \A g \in Files : g.kind = "extradata" => g = Net("extradata")
  /\ \A g \in Files : g.kind = "validators" => g = Net("validators")
<1> SUFFICES ASSUME NEW g \in Files
             PROVE  /\ g.kind = "extradata" => g = Net("extradata")
                    /\ g.kind = "validators" => g = Net("validators")
  OBVIOUS
<1>1. \/ \E k \in {"key", "pub"}, o \in Owners : g = File(k, o)
      \/ \E k \in Singles : g = Net(k)
      \/ \E k \in {"static", "config"}, n \in Nodes : g = File(k, n)
  BY DEF Files, KeyFiles, PubFiles
<1> QED BY <1>1, FileParts

\* A step that is done with file f and leaves the other files alone.
Finishes(f) ==
    /\ Due(f) /\ Done(f) /\ cfg' = cfg
    /\ \A g \in Files : g # f => disk'[g] = disk[g]
    /\ \A o \in Owners : File("key", o) # f => mem'[o] = mem[o]
    /\ f # Net("extradata") => extra' = extra

\* Such a step disturbs no file that the invocation was done with before.
LEMMA OthersStayRight ==
  ASSUME KeyInv, KeyInv', todo \subseteq FilesOf(cfg), NEW f, Finishes(f),
         NEW g \in FilesOf(cfg), g \notin todo, Right(g)
  PROVE  Right(g)'
<1>1. f \in todo /\ todo' = todo \ {f} /\ cfg' = cfg /\ g # f
  BY DEF Finishes, Due, Done
<1>2. disk'[g] = disk[g]
  BY <1>1, InvocationFiles DEF Finishes
<1>3. KeysDone => KeysDone' /\ mem' = mem
  <2> SUFFICES ASSUME KeysDone PROVE KeysDone' /\ mem' = mem
    OBVIOUS
  <2>1. f \notin KeyFiles
    BY <1>1 DEF KeysDone
  <2>2. \A o \in Owners : mem'[o] = mem[o]
    BY <2>1 DEF Finishes, KeyFiles
  <2>3. mem \in [Owners -> Nat] /\ mem' \in [Owners -> Nat]
    BY DEF KeyInv, KeyTypeOK
  <2>4. mem' = mem
    BY <2>2, <2>3
  <2> QED BY <1>1, <2>4 DEF KeysDone
<1>4. Net("extradata") \notin todo => Net("extradata") \notin todo' /\ extra' = extra
  BY <1>1 DEF Finishes
<1>5. ASSUME NEW r, mem' = mem PROVE KeysOf(OfRole(cfg, r))' = KeysOf(OfRole(cfg, r))
  BY <1>1, <1>5 DEF KeysOf, OfRole
<1>6. mem' = mem => AllocKeys' = AllocKeys
  BY DEF AllocKeys, KeysOf
<1>7. g.kind = "key" => mem'[g.of] = mem[g.of]
  BY <1>1, InvocationFiles DEF Finishes
<1>8. g.kind = "extradata" => extra' = extra
  <2>1. g.kind = "extradata" => g = Net("extradata")
    BY ExtraFile, InvocationFiles
  <2> QED BY <1>4, <2>1
<1>9. g.kind \notin {"derive", "extradata"} => disk'[g].st = "ok"
  BY <1>2 DEF Right
<1>10. g.kind = "key" => disk'[g].keys = {mem'[g.of]}
  BY <1>2, <1>7 DEF Right
<1>11. g.kind = "validators" =>
         KeysDone' /\ disk'[g].keys = KeysOf(OfRole(cfg, "validator"))'
  BY <1>2, <1>3, <1>5 DEF Right
<1>12. g.kind = "extradata" =>
         /\ KeysDone' /\ extra'.st = "ok" /\ extra'.made = (cfg'.besu = "works")
         /\ cfg'.overwrite /\ extra'.made => extra'.keys = KeysOf(OfRole(cfg, "validator"))'
  BY <1>1, <1>3, <1>5, <1>8 DEF Right
<1>13. g.kind = "genesis" =>
         /\ KeysDone' /\ Net("extradata") \notin todo'
         /\ disk'[g] = [extra' EXCEPT !.alloc = AllocKeys']
  BY <1>2, <1>3, <1>4, <1>6 DEF Right
<1>14. g.kind = "readme" => Net("extradata") \notin todo' /\ disk'[g].made = extra'.made
  BY <1>2, <1>4 DEF Right
<1>15. g.kind = "static" \/ (g.kind = "config" /\ Role[g.of] # "bootnode") =>
         KeysDone' /\ disk'[g].keys = KeysOf(OfRole(cfg, "bootnode"))'
  BY <1>2, <1>3, <1>5 DEF Right
<1>16. Net("extradata")' = Net("extradata")
  BY DEF Net, File
<1> QED BY <1>9, <1>10, <1>11, <1>12, <1>13, <1>14, <1>15, <1>16 DEF Right

\* The invocation makes progress when the file it is done with is right.
LEMMA FinishProgress ==
  ASSUME KeyInv, KeyInv', ProgressInv, NEW f, Finishes(f),
         cfg.overwrite \/ f.kind \in Always => Right(f)',
         f \notin KeyFiles \/ disk'[f].st # "ok" \/ \E k \in disk'[f].keys : disk'[f].keys = {k}
  PROVE  ProgressInv'
<1>1. /\ status = "running" /\ f \in todo /\ todo' = todo \ {f} /\ cfg' = cfg
      /\ status' = IF todo' = {} THEN "done" ELSE "running"
  BY DEF Finishes, Due, Done
<1>2. Progress
  BY <1>1 DEF ProgressInv
<1>4. ASSUME NEW g \in FilesOf(cfg), g \notin todo', cfg.overwrite \/ g.kind \in Always
      PROVE  Right(g)'
  <2>1. CASE g = f
    BY <1>4, <2>1
  <2>2. CASE g # f
    <3>1. g \notin todo /\ Right(g) /\ todo \subseteq FilesOf(cfg)
      BY <1>1, <1>2, <1>4, <2>2 DEF Progress
    <3> QED BY <3>1, OthersStayRight
  <2> QED BY <2>1, <2>2
<1>5. Progress'
  <2>1. todo' \subseteq FilesOf(cfg) /\ (status' = "done" => todo' = {})
    BY <1>1, <1>2 DEF Progress
  <2>2. FilesOf(cfg)' = FilesOf(cfg)
    BY <1>1 DEF FilesOf, runInventory, runInit, AccountFiles, NodeKeyFiles, Reports, NodeFiles
  <2>3. Always' = Always
    BY DEF Always
  <2> QED BY <1>1, <1>4, <2>1, <2>2, <2>3 DEF Progress
<1>6. \A g \in KeyFiles : disk'[g].st = "ok" => \E k \in disk'[g].keys : disk'[g].keys = {k}
  <2> TAKE g \in KeyFiles
  <2>1. CASE g = f
    BY <2>1
  <2>2. CASE g # f
    BY <2>2, InvocationFiles DEF Finishes, ProgressInv
  <2> QED BY <2>1, <2>2
<1> QED BY <1>5, <1>6 DEF ProgressInv

\* An invocation that writes a genesis, or reads the validators, prepares them.
LEMMA GenesisWithExtra ==
  /\ cfg.cmd # "inventory" =>
        {Net("validators"), Net("extradata"), Net("genesis"), Net("readme"), Net("static"),
         Net("base")} \subseteq FilesOf(cfg)
  /\ \A g \in FilesOf(cfg) : g.kind \in {"extradata", "genesis"} => cfg.cmd # "inventory"
<1>1. cfg.cmd # "inventory" =>
        {Net("validators"), Net("extradata"), Net("genesis"), Net("readme"), Net("static"),
         Net("base")} \subseteq FilesOf(cfg)
  BY DEF FilesOf, runInit, runInventory, NodeFiles, Reports
<1>2. ASSUME NEW g \in FilesOf(cfg), g.kind \in {"extradata", "genesis"}, cfg.cmd = "inventory"
      PROVE  FALSE
  <2>1. \/ \E k \in {"key", "pub"}, o \in Accounts \cup cfg.nodes : g = File(k, o)
        \/ \E k \in {"base", "derive", "accounts", "readme", "inventory", "hosts"} : g = Net(k)
    BY <1>2 DEF FilesOf, runInventory, AccountFiles, NodeKeyFiles, Reports
  <2> QED BY <1>2, <2>1, FileParts
<1> QED BY <1>1, <1>2

\* What a writer renders for f is right.
Suits(f, v) ==
    /\ v.st = "ok"
    /\ f.kind = "validators" => v.keys = KeysOf(OfRole(cfg, "validator"))
    /\ f.kind = "genesis" => v = [extra EXCEPT !.alloc = AllocKeys]
    /\ f.kind = "readme" => v.made = extra.made
    /\ f.kind = "static" \/ (f.kind = "config" /\ Role[f.of] # "bootnode") =>
        v.keys = KeysOf(OfRole(cfg, "bootnode"))

\* A writer makes progress.
LEMMA WriterProgress ==
  ASSUME KeyInv, KeyInv', ProgressInv, NEW f, NEW v, writeFileIfAllowed(f, v),
         f.of \notin Accounts, f.kind \in Derived, Suits(f, v)
  PROVE  ProgressInv'
<1>1. /\ Due(f) /\ Done(f) /\ cfg' = cfg /\ mem' = mem /\ extra' = extra
      /\ disk' = disk \/ disk' = [disk EXCEPT ![f] = v]
      /\ cfg.overwrite => disk' = [disk EXCEPT ![f] = v]
  BY DEF writeFileIfAllowed, WriteFile
<1>2. disk \in [Files -> ContentsType]
  BY DEF KeyInv, KeyTypeOK
<1>3. Finishes(f)
  BY <1>1, <1>2 DEF Finishes
<1>4. f \in todo /\ todo' = todo \ {f} /\ todo \subseteq FilesOf(cfg) /\ status = "running"
  BY <1>1 DEF Due, Done, ProgressInv, Progress
<1>5. f \in Files /\ f.kind # "key" /\ f.kind \notin Always
  BY <1>4, InvocationFiles DEF Derived, Always
<1>6. f \notin KeyFiles
  BY <1>5, InvocationFiles
<1>7. /\ KeysDone
      /\ f.kind \notin {"validators", "extradata"} => Net("extradata") \notin todo
  BY <1>1, DueInOrder
<1>8. ASSUME cfg.overwrite PROVE Right(f)'
  <2>1. disk'[f] = v
    BY <1>1, <1>2, <1>5, <1>8
  <2>2. /\ KeysDone' /\ (Net("extradata") \notin todo => Net("extradata") \notin todo')
    BY <1>4, <1>7 DEF KeysDone
  <2>3. AllocKeys' = AllocKeys /\ \A r : KeysOf(OfRole(cfg, r))' = KeysOf(OfRole(cfg, r))
    BY <1>1 DEF AllocKeys, KeysOf, OfRole
  <2>4. f.kind # "extradata"
    BY <1>5 DEF Always
  <2>5. /\ f.kind = "validators" =>
            KeysDone' /\ disk'[f].keys = KeysOf(OfRole(cfg, "validator"))'
        /\ f.kind = "genesis" =>
            /\ KeysDone' /\ Net("extradata") \notin todo'
            /\ disk'[f] = [extra' EXCEPT !.alloc = AllocKeys']
        /\ f.kind = "readme" => Net("extradata") \notin todo' /\ disk'[f].made = extra'.made
        /\ f.kind = "static" \/ (f.kind = "config" /\ Role[f.of] # "bootnode") =>
            KeysDone' /\ disk'[f].keys = KeysOf(OfRole(cfg, "bootnode"))'
    BY <1>1, <1>7, <2>1, <2>2, <2>3 DEF Suits
  <2>6. disk'[f].st = "ok"
    BY <2>1 DEF Suits
  <2>7. Net("extradata")' = Net("extradata")
    BY DEF Net, File
  <2> QED BY <1>5, <2>4, <2>5, <2>6, <2>7 DEF Right
<1> QED BY <1>3, <1>5, <1>6, <1>8, FinishProgress

\* The extraData is ready before the genesis is written.
LEMMA ExtraReady ==
  ASSUME KeyInv, ProgressInv, NEW f, Due(f), f.kind = "genesis", f.of \notin Accounts
  PROVE  extra.st = "ok" /\ extra \in ContentsType
<1>1. Net("extradata") \notin todo
  BY DueInOrder DEF Derived
<1>2. Progress /\ f \in FilesOf(cfg)
  BY DEF Due, ProgressInv, Progress
<1>3. Net("extradata") \in FilesOf(cfg)
  BY <1>2, GenesisWithExtra
<1>4. Right(Net("extradata"))
  BY <1>1, <1>2, <1>3, FileParts DEF Progress, Always
<1> QED BY <1>4, FileParts DEF Right, KeyInv, KeyTypeOK

\* The writers of the network and of the reports.
LEMMA WritersProgress ==
  ASSUME KeyInv, KeyInv', ProgressInv,
         \/ writeQBFTValidatorsJSON \/ writeGenesis \/ writeStaticNodes \/ writeNodeConfigs
         \/ writeSystemdTemplate \/ writeReadme
         \/ writeInventoryJSON \/ writeAccountsInventoryJSON \/ writeHostsFile,
         ~Fatal
  PROVE  ProgressInv'
<1>1. \A n \in Nodes \cup {"net"} : n \notin Accounts
  BY NamesAssumption
<1>2. \A k, a, b : /\ Contents(k, a, b).st = "ok" /\ Contents(k, a, b).keys = k
                   /\ Contents(k, a, b).made = b
  BY DEF Contents
<1>3. BootEnodes.st = "ok" /\ BootEnodes.keys = KeysOf(OfRole(cfg, "bootnode"))
  BY DEF BootEnodes, Contents
<1>p. ASSUME NEW x, NEW y
      PROVE  Contents(x, y, FALSE).st = "ok" /\ Contents(x, y, FALSE).keys = x
  BY DEF Contents
<1>4. CASE writeQBFTValidatorsJSON
  <2> DEFINE v == Contents(KeysOf(OfRole(cfg, "validator")), {}, FALSE)
  <2>1. v.st = "ok" /\ v.keys = KeysOf(OfRole(cfg, "validator"))
    BY <1>p, Zenon
  <2>2. writeFileIfAllowed(Net("validators"), v)
    BY <1>4, Zenon DEF writeQBFTValidatorsJSON
  <2> HIDE DEF v
  <2>3. Suits(Net("validators"), v)
    BY <2>1, FileParts DEF Suits
  <2> QED BY <1>1, <2>2, <2>3, FileParts, WriterProgress DEF Derived
<1>5. CASE writeGenesis
  <2> DEFINE v == [extra EXCEPT !.alloc = AllocKeys]
  <2>1. Due(Net("genesis"))
    BY <1>5 DEF writeGenesis, writeFileIfAllowed
  <2>2. extra.st = "ok" /\ extra \in ContentsType
    BY <1>1, <2>1, ExtraReady, FileParts
  <2>3. v.st = "ok"
    BY <2>2 DEF ContentsType
  <2>4. Suits(Net("genesis"), v)
    BY <2>3, FileParts DEF Suits
  <2> QED BY <1>1, <1>5, <2>4, FileParts, WriterProgress DEF writeGenesis, Derived
<1>6. CASE writeStaticNodes
  <2>1. PICK f \in {Net("static")} \cup {File("static", n) : n \in Nodes} :
            writeFileIfAllowed(f, BootEnodes)
    BY <1>6 DEF writeStaticNodes
  <2>2. f.kind = "static" /\ f.of \notin Accounts
    BY <1>1, <2>1, FileParts
  <2>3. Suits(f, BootEnodes)
    BY <1>3, <2>2 DEF Suits
  <2> QED BY <2>1, <2>2, <2>3, WriterProgress DEF Derived
<1>7. CASE writeNodeConfigs
  <2>1. PICK n \in Nodes :
          \/ Role[n] = "bootnode" /\ writeFileIfAllowed(File("config", n), renderBootnodeConfig)
          \/ Role[n] # "bootnode" /\ writeFileIfAllowed(File("config", n), BootEnodes)
    BY <1>7 DEF writeNodeConfigs, renderValidatorConfig, renderRPCConfig
  <2> DEFINE f == File("config", n)
  <2>2. f.kind = "config" /\ f.of = n /\ n \notin Accounts
    BY <1>1, FileParts
  <2>3. Suits(f, BootEnodes)
    BY <1>3, <2>2 DEF Suits
  <2>4. Role[n] = "bootnode" => Suits(f, renderBootnodeConfig)
    <3>1. renderBootnodeConfig.st = "ok"
      BY <1>p, Zenon DEF renderBootnodeConfig
    <3> QED BY <2>2, <3>1 DEF Suits
  <2> QED BY <2>1, <2>2, <2>3, <2>4, WriterProgress DEF Derived
<1>8. CASE writeReadme
  <2>1. Suits(Net("readme"), Contents(KeysOf(cfg.nodes), AllocKeys, extra.made))
    BY <1>2, FileParts DEF Suits
  <2> QED BY <1>1, <1>8, <2>1, FileParts, WriterProgress DEF writeReadme, Derived
<1>9. ASSUME NEW k \in {"unit", "inventory", "accounts", "hosts"}, NEW x, NEW y,
             writeFileIfAllowed(Net(k), Contents(x, y, FALSE))
      PROVE  ProgressInv'
  <2> DEFINE v == Contents(x, y, FALSE)
  <2>1. v.st = "ok" /\ writeFileIfAllowed(Net(k), v)
    BY <1>p, <1>9, Zenon
  <2> HIDE DEF v
  <2>2. Suits(Net(k), v)
    BY <1>9, <2>1, FileParts DEF Suits
  <2> QED BY <1>1, <1>9, <2>1, <2>2, FileParts, WriterProgress DEF Derived
<1>10. CASE writeSystemdTemplate \/ writeInventoryJSON \/ writeAccountsInventoryJSON \/ writeHostsFile
  BY <1>9, <1>10, Zenon
  DEF writeSystemdTemplate, writeInventoryJSON, writeAccountsInventoryJSON, writeHostsFile
<1> QED BY <1>4, <1>5, <1>6, <1>7, <1>8, <1>10

\* A key that was read, or created, is in memory as it is on disk.
LEMMA KeyProgress ==
  ASSUME KeyInv, KeyInv', ProgressInv, NEW o \in Owners, readOrCreateNodeKey(o), ~Fatal
  PROVE  ProgressInv'
<1> DEFINE f == File("key", o)
<1>1. f \in KeyFiles /\ f \in Files /\ f.kind = "key" /\ f.of = o
  BY FileParts DEF KeyFiles, Files
<1>2. disk \in [Files -> ContentsType] /\ mem \in [Owners -> Nat]
  BY DEF KeyInv, KeyTypeOK
<1>3. /\ Due(f) /\ Done(f) /\ cfg' = cfg /\ extra' = extra
      /\ \/ /\ disk[f].st = "ok" /\ disk' = disk
            /\ \E k \in disk[f].keys : mem' = [mem EXCEPT ![o] = k]
         \/ /\ mem' = [mem EXCEPT ![o] = fresh + 1]
            /\ WriteFile(f, Contents({fresh + 1}, {}, FALSE))
  BY Zenon DEF readOrCreateNodeKey
<1> HIDE DEF f
<1>4. \A p \in Owners : File("key", p) # f => p # o
  BY DEF f
<1>5. disk'[f].st = "ok" /\ disk'[f].keys = {mem'[o]} /\ mem' = [mem EXCEPT ![o] = mem'[o]]
      /\ \A g \in Files : g # f => disk'[g] = disk[g]
  <2>1. CASE /\ disk[f].st = "ok" /\ disk' = disk
             /\ \E k \in disk[f].keys : mem' = [mem EXCEPT ![o] = k]
    <3>1. PICK k \in disk[f].keys : mem' = [mem EXCEPT ![o] = k]
      BY <2>1, Zenon
    <3>2. PICK j \in disk[f].keys : disk[f].keys = {j}
      BY <1>1, <2>1 DEF ProgressInv
    <3>3. k = j /\ mem'[o] = k
      BY <1>2, <3>1, <3>2
    <3> QED BY <2>1, <3>1, <3>2, <3>3, Zenon
  <2>2. CASE /\ mem' = [mem EXCEPT ![o] = fresh + 1]
             /\ WriteFile(f, Contents({fresh + 1}, {}, FALSE))
    <3> DEFINE v == Contents({fresh + 1}, {}, FALSE)
    <3>1. v.st = "ok" /\ v.keys = {fresh + 1}
      BY DEF Contents
    <3>2. disk' = [disk EXCEPT ![f] = v]
      BY <2>2 DEF WriteFile
    <3> HIDE DEF v
    <3>3. disk'[f] = v /\ mem'[o] = fresh + 1 /\ \A g \in Files : g # f => disk'[g] = disk[g]
      BY <1>1, <1>2, <2>2, <3>2
    <3> QED BY <2>2, <3>1, <3>3, Zenon
  <2> QED BY <1>3, <2>1, <2>2, Zenon
<1>6. Finishes(f)
  <2>1. \A p \in Owners : File("key", p) # f => mem'[p] = mem[p]
    BY <1>2, <1>4, <1>5
  <2>2. f # Net("extradata") => extra' = extra
    BY <1>3
  <2> QED BY <1>3, <1>5, <2>1, <2>2, Zenon DEF Finishes
<1>7. Right(f)'
  BY <1>1, <1>5 DEF Right
<1>8. \E k \in disk'[f].keys : disk'[f].keys = {k}
  BY <1>5
<1> QED BY <1>6, <1>7, <1>8, FinishProgress

\* The directories, the public keys and the derived fields.
LEMMA PlainProgress ==
  ASSUME KeyInv, KeyInv', ProgressInv,
         ensureBase \/ (\E o \in Owners : writePublic(o)) \/ buildDerivedFields, ~Fatal
  PROVE  ProgressInv'
<1>1. disk \in [Files -> ContentsType]
  BY DEF KeyInv, KeyTypeOK
<1>2. ASSUME NEW f, f.kind \in {"base", "pub", "derive"}, Due(f), Done(f), NEW v, v.st = "ok",
             \/ disk' = disk /\ f.kind = "derive"
             \/ WriteFile(f, v),
             cfg' = cfg, mem' = mem, extra' = extra
      PROVE  ProgressInv'
  <2>1. Finishes(f)
    BY <1>1, <1>2 DEF Finishes, WriteFile
  <2>2. f \in Files /\ f \notin KeyFiles
    BY <1>2, InvocationFiles DEF Due, ProgressInv, Progress
  <2>3. f.kind # "derive" => disk'[f].st = "ok"
    BY <1>1, <1>2, <2>2 DEF WriteFile
  <2>4. Right(f)'
    BY <1>2, <2>3 DEF Right
  <2> QED BY <2>1, <2>2, <2>4, FinishProgress
<1>3. \A x : Contents(x, {}, FALSE).st = "ok"
  BY DEF Contents
<1>4. CASE ensureBase
  <2> DEFINE v == Contents({}, {}, FALSE)
             f == Net("base")
  <2>1. v.st = "ok"
    BY <1>3, Zenon
  <2>2. /\ Due(f) /\ Done(f) /\ WriteFile(f, v)
        /\ cfg' = cfg /\ mem' = mem /\ extra' = extra
    BY <1>4, Zenon DEF ensureBase
  <2>3. f.kind = "base"
    BY FileParts
  <2> HIDE DEF v, f
  <2> QED BY <1>2, <2>1, <2>2, <2>3
<1>5. CASE \E o \in Owners : writePublic(o)
  <2> PICK o \in Owners : writePublic(o)
    BY <1>5
  <2> DEFINE v == Contents({mem[o]}, {}, FALSE)
             f == File("pub", o)
  <2>1. v.st = "ok"
    BY <1>3, Zenon
  <2>2. /\ Due(f) /\ Done(f) /\ WriteFile(f, v)
        /\ cfg' = cfg /\ mem' = mem /\ extra' = extra
    BY Zenon DEF writePublic
  <2>3. f.kind = "pub"
    BY FileParts
  <2> HIDE DEF v, f
  <2> QED BY <1>2, <2>1, <2>2, <2>3
<1>6. CASE buildDerivedFields
  <2> DEFINE v == Contents({}, {}, FALSE)
             f == Net("derive")
  <2>1. /\ Due(f) /\ Done(f) /\ disk' = disk
        /\ cfg' = cfg /\ mem' = mem /\ extra' = extra
    BY <1>6, Zenon DEF buildDerivedFields
  <2>2. v.st = "ok"
    BY <1>3, Zenon
  <2>3. f.kind = "derive"
    BY FileParts
  <2> HIDE DEF v, f
  <2> QED BY <1>2, <2>1, <2>2, <2>3
<1> QED BY <1>4, <1>5, <1>6

\* What Besu encodes is the validators file that this invocation has written.
LEMMA ExtraProgress ==
  ASSUME KeyInv, KeyInv', ProgressInv, maybeGenerateQBFTExtraData, ~Fatal
  PROVE  ProgressInv'
<1> DEFINE f == Net("extradata")
           from == disk[Net("validators")]
<1>1. f.kind = "extradata" /\ f.of \notin Accounts
  BY FileParts, NamesAssumption
<1>2. /\ Due(f) /\ Done(f) /\ cfg' = cfg /\ mem' = mem
      /\ \/ /\ cfg.besu \in {"off", "missing"} /\ disk' = disk
            /\ extra' = Contents({}, {}, FALSE)
         \/ /\ cfg.besu = "works" /\ WriteFile(f, extra')
            /\ extra' = Contents(from.keys, {}, TRUE)
  BY Zenon DEF maybeGenerateQBFTExtraData
<1>3. KeysDone /\ Net("validators") \notin todo
  BY <1>1, <1>2, DueInOrder
<1>4. f \in todo /\ todo' = todo \ {f} /\ Progress
  BY <1>2, Zenon DEF Due, Done, ProgressInv
<1>5. KeysDone' /\ KeysOf(OfRole(cfg, "validator"))' = KeysOf(OfRole(cfg, "validator"))
  BY <1>2, <1>3, <1>4, Zenon DEF KeysDone, KeysOf, OfRole
<1>6. cfg.overwrite => from.keys = KeysOf(OfRole(cfg, "validator"))
  <2> SUFFICES ASSUME cfg.overwrite PROVE from.keys = KeysOf(OfRole(cfg, "validator"))
    OBVIOUS
  <2>1. Net("validators") \in FilesOf(cfg)
    BY <1>1, <1>4, GenesisWithExtra DEF Progress
  <2>2. Right(Net("validators"))
    BY <1>3, <1>4, <2>1 DEF Progress
  <2> QED BY <2>2, FileParts DEF Right
<1>7. /\ extra'.st = "ok" /\ extra'.made = (cfg.besu = "works")
      /\ extra'.made => extra'.keys = from.keys
  <2>1. CASE cfg.besu \in {"off", "missing"} /\ extra' = Contents({}, {}, FALSE)
    <3>1. extra'.st = "ok" /\ extra'.made = FALSE
      BY <2>1 DEF Contents
    <3>2. (cfg.besu = "works") = FALSE
      BY <2>1
    <3> QED BY <3>1, <3>2, Zenon
  <2>2. CASE cfg.besu = "works" /\ extra' = Contents(from.keys, {}, TRUE)
    <3>1. extra'.st = "ok" /\ extra'.made = TRUE /\ extra'.keys = from.keys
      BY <2>2 DEF Contents
    <3> QED BY <2>2, <3>1, Zenon
  <2> QED BY <1>2, <2>1, <2>2, Zenon
<1>8. Finishes(f)
  <2>1. \A g \in Files : g # f => disk'[g] = disk[g]
    BY <1>2, Zenon DEF KeyInv, KeyTypeOK, WriteFile
  <2> QED BY <1>2, <2>1, Zenon DEF Finishes
<1>9. Right(f)'
  <2>1. /\ extra'.st = "ok" /\ extra'.made = (cfg'.besu = "works")
        /\ cfg'.overwrite /\ extra'.made => extra'.keys = KeysOf(OfRole(cfg, "validator"))'
    BY <1>2, <1>5, <1>6, <1>7, Zenon
  <2> QED BY <1>1, <1>5, <2>1 DEF Right
<1>10. f \notin KeyFiles
  BY <1>1, InvocationFiles
<1> QED BY <1>8, <1>9, <1>10, FinishProgress

\* The files that a new invocation has to write.
LEMMA StartFiles ==
  ASSUME Start
  PROVE  /\ cfg' \in Invocations /\ disk' = disk /\ status' \in {"running", "failed"}
         /\ status' = "running" => todo' = FilesOf(cfg')
         /\ status' = "failed" => todo' = {} /\ ~parseArgs(cfg')
<1>1. cfg' \in Invocations /\ disk' = disk /\ status' = IF parseArgs(cfg') THEN "running" ELSE "failed"
  BY DEF Start
<1>2. cfg'.cmd \in {"init", "regen", "inventory"}
  BY <1>1, InvocationsAssumption DEF Flags
<1>3. CASE parseArgs(cfg')
  <2>1. todo' = FilesOf(cfg')
    <3>1. runRegen(cfg') = runInit(cfg')
      BY DEF runRegen, runInit
    <3>2. CASE cfg'.cmd = "init"
      BY <1>3, <3>2 DEF Start, FilesOf
    <3>3. CASE cfg'.cmd = "regen"
      BY <1>3, <3>1, <3>3 DEF Start, FilesOf
    <3>4. CASE cfg'.cmd = "inventory"
      BY <1>3, <3>4 DEF Start, FilesOf
    <3> QED BY <1>2, <3>2, <3>3, <3>4
  <2> QED BY <1>1, <1>3, <2>1
<1>4. CASE ~parseArgs(cfg')
  <2>1. todo' = {}
    BY <1>4 DEF Start
  <2> QED BY <1>1, <1>4, <2>1
<1> QED BY <1>3, <1>4

\* Every step keeps what the files hold.
LEMMA ProgressStep ==
  ASSUME KeyInv, KeyInv', ProgressInv, [Next]_vars
  PROVE  ProgressInv'
<1>1. CASE Fatal
  BY <1>1 DEF Fatal, ProgressInv
<1>2. CASE Start
  <2>1. status' = "running" => Progress'
    <3> SUFFICES ASSUME status' = "running" PROVE Progress'
      OBVIOUS
    <3>1. todo' = FilesOf(cfg)'
      BY <1>2, StartFiles
    <3> QED BY <3>1 DEF Progress
  <2> QED BY <1>2, <2>1, StartFiles DEF ProgressInv
<1>3. CASE Stop
  <2>1. status' = "stopped" /\ (disk' = disk \/ \E f \in todo : WriteFile(f, Torn))
    BY <1>3 DEF Stop
  <2>2. Torn.st # "ok"
    BY DEF Torn
  <2>3. \A g \in KeyFiles : disk'[g] = disk[g] \/ disk'[g] = Torn
    <3>1. disk \in [Files -> ContentsType] /\ KeyFiles \subseteq Files
      BY InvocationFiles, Zenon DEF KeyInv, KeyTypeOK
    <3> QED BY <2>1, <3>1 DEF WriteFile
  <2> QED BY <2>1, <2>2, <2>3 DEF ProgressInv
<1>4. CASE UNCHANGED vars
  <2>1. ProgressInv' = ProgressInv
    BY <1>4 DEF vars, ProgressInv, Progress, FilesOf, runInventory, runInit, AccountFiles,
                NodeKeyFiles, Reports, NodeFiles, Right, KeysDone, KeysOf, OfRole, AllocKeys
  <2> QED BY <2>1
<1>5. ASSUME NEW o \in Owners, readOrCreateNodeKey(o), ~Fatal PROVE ProgressInv'
  BY <1>5, KeyProgress
<1>6. CASE ~Fatal /\ (ensureAccounts \/ ensureNodeKeys)
  BY <1>5, <1>6, PlainProgress DEF ensureAccounts, ensureNodeKeys, Owners
<1> QED BY <1>1, <1>2, <1>3, <1>4, <1>6, PlainProgress, ExtraProgress, WritersProgress DEF Next

\* What a step does to the key files, the keys in memory and the run: at most one
\* key is drawn, and it is the next one.
Evolves ==
    /\ \A f \in KeyFiles : disk'[f].keys \subseteq disk[f].keys \/
                           (fresh' = fresh + 1 /\ disk'[f].keys = {fresh + 1})
    /\ \A o \in Owners : \/ mem'[o] \in {0, mem[o]} \cup disk[File("key", o)].keys
                         \/ fresh' = fresh + 1 /\ mem'[o] = fresh + 1
    /\ fresh' \in {fresh, fresh + 1}
    /\ runs' = runs \/ (runs < MaxRuns /\ runs' = runs + 1)
    /\ stops' = stops \/ (stops < MaxStops /\ stops' = stops + 1)
    /\ status' \in {"running", "done", "failed", "stopped"}
    /\ todo' \subseteq todo \cup FilesOf(cfg')

\* The types follow.
LEMMA EvolvesTypes ==
  ASSUME KeyInv, KeyInv', RunTypes, Evolves
  PROVE  RunTypes'
<1>1. fresh \in Nat /\ fresh' \in Nat /\ mem \in [Owners -> Nat] /\ mem' \in [Owners -> Nat]
  BY Zenon DEF KeyInv, KeyTypeOK
<1>2. \A f \in KeyFiles : disk'[f].keys \subseteq 0..fresh'
  BY <1>1 DEF Evolves, RunTypes
<1>3. \A o \in Owners : mem'[o] <= fresh'
  <2> TAKE o \in Owners
  <2>1. disk[File("key", o)].keys \subseteq 0..fresh /\ mem[o] <= fresh
    BY DEF RunTypes, KeyFiles
  <2>2. mem[o] \in Nat /\ mem'[o] \in Nat
    BY <1>1
  <2> QED BY <1>1, <2>1, <2>2 DEF Evolves
<1>4. runs' \in 0..MaxRuns /\ stops' \in 0..MaxStops
  BY RunBoundsAssumption DEF Evolves, RunTypes
<1>5. todo' \subseteq Files
  <2>1. cfg' \in Invocations
    BY DEF KeyInv, KeyTypeOK
  <2>2. FilesOf(cfg') \subseteq Files
    BY <2>1, CommandFiles
  <2> QED BY <2>2 DEF Evolves, RunTypes
<1> QED BY <1>2, <1>3, <1>4, <1>5 DEF Evolves, RunTypes

\* A file that is no key file may be written freely.
LEMMA OtherWriteEvolves ==
  ASSUME KeyInv, NEW f, f.kind # "key", Done(f), fresh' = fresh, mem' = mem, runs' = runs,
         stops' = stops, disk' = disk \/ \E v : WriteFile(f, v)
  PROVE  Evolves
<1>1. \A g \in KeyFiles : disk'[g] = disk[g]
  <2>1. \A g \in KeyFiles : g # f /\ g \in Files
    BY FileParts DEF KeyFiles, Files
  <2>2. disk \in [Files -> ContentsType]
    BY DEF KeyInv, KeyTypeOK
  <2> QED BY <2>1, <2>2 DEF WriteFile
<1>2. todo' \subseteq todo /\ status' \in {"running", "done"}
  BY DEF Done
<1> QED BY <1>1, <1>2 DEF Evolves

\* No writer of a network or report file touches a key.
LEMMA WriterEvolves ==
  ASSUME KeyInv, NEW f, NEW v, writeFileIfAllowed(f, v), f.kind # "key"
  PROVE  Evolves
<1>1. /\ Done(f) /\ fresh' = fresh /\ mem' = mem /\ runs' = runs /\ stops' = stops
      /\ disk' = disk \/ \E u : WriteFile(f, u)
  BY Zenon DEF writeFileIfAllowed
<1> QED BY <1>1, OtherWriteEvolves

\* A key that is read is in its file, one that is drawn is the next.
LEMMA KeyEvolves ==
  ASSUME KeyInv, NEW o \in Owners, readOrCreateNodeKey(o), ~Fatal
  PROVE  Evolves
<1> DEFINE f == File("key", o)
<1>1. f \in KeyFiles /\ f \in Files /\ \A u \in Owners : File("key", u) = f => u = o
  BY FileParts DEF KeyFiles, Files
<1>2. disk \in [Files -> ContentsType] /\ mem \in [Owners -> Nat] /\ KeyFiles \subseteq Files
  BY DEF KeyInv, KeyTypeOK, Files
<1>3. /\ Done(f) /\ runs' = runs /\ stops' = stops
      /\ \/ /\ disk' = disk /\ fresh' = fresh
            /\ \E k \in disk[f].keys : mem' = [mem EXCEPT ![o] = k]
         \/ /\ mem' = [mem EXCEPT ![o] = fresh + 1] /\ fresh' = fresh + 1
            /\ WriteFile(f, Contents({fresh + 1}, {}, FALSE))
  BY Zenon DEF readOrCreateNodeKey
<1>4. todo' \subseteq todo /\ status' \in {"running", "done"}
  BY <1>3, Zenon DEF Done
<1>5. Contents({fresh + 1}, {}, FALSE).keys = {fresh + 1}
  BY DEF Contents
<1> HIDE DEF f
<1>6. \A g \in KeyFiles : disk'[g] = disk[g] \/ (fresh' = fresh + 1 /\ disk'[g].keys = {fresh + 1})
  BY <1>1, <1>2, <1>3, <1>5, Zenon DEF WriteFile
<1>7. \A u \in Owners : \/ mem'[u] \in {0, mem[u]} \cup disk[File("key", u)].keys
                        \/ fresh' = fresh + 1 /\ mem'[u] = fresh + 1
  BY <1>2, <1>3, Zenon DEF f
<1>8. fresh' \in {fresh, fresh + 1}
  BY <1>3, Zenon
<1> QED BY <1>3, <1>4, <1>6, <1>7, <1>8, Zenon DEF Evolves

\* Every step.
LEMMA NextEvolves ==
  ASSUME KeyInv, RunTypes, Next
  PROVE  Evolves
<1>1. CASE Fatal
  BY <1>1 DEF Fatal, Evolves
<1>2. CASE Start
  <2>1. /\ disk' = disk /\ fresh' = fresh /\ stops' = stops /\ runs < MaxRuns /\ runs' = runs + 1
        /\ mem' = [o \in Owners |-> 0]
    BY <1>2 DEF Start
  <2>2. \A o \in Owners : mem'[o] = 0
    BY <2>1
  <2>3. todo' \subseteq FilesOf(cfg') /\ status' \in {"running", "failed"}
    BY <1>2, StartFiles
  <2> QED BY <2>1, <2>2, <2>3 DEF Evolves
<1>3. CASE Stop
  <2>1. /\ status' = "stopped" /\ stops < MaxStops /\ stops' = stops + 1 /\ todo' = todo
        /\ mem' = mem /\ runs' = runs /\ fresh' = fresh
        /\ disk' = disk \/ \E f \in todo : WriteFile(f, Torn)
    BY <1>3 DEF Stop
  <2>2. Torn.keys = {}
    BY DEF Torn
  <2>3. \A g \in KeyFiles : disk'[g] = disk[g] \/ disk'[g] = Torn
    <3>1. disk \in [Files -> ContentsType] /\ KeyFiles \subseteq Files
      BY InvocationFiles, Zenon DEF KeyInv, KeyTypeOK
    <3> QED BY <2>1, <3>1 DEF WriteFile
  <2>4. \A g \in KeyFiles : disk'[g].keys \subseteq disk[g].keys
    BY <2>2, <2>3
  <2> QED BY <2>1, <2>4, Zenon DEF Evolves
<1>4. ASSUME NEW o \in Owners, writePublic(o) PROVE Evolves
  <2>1. /\ Done(File("pub", o)) /\ fresh' = fresh /\ mem' = mem /\ runs' = runs /\ stops' = stops
        /\ \E u : WriteFile(File("pub", o), u)
    BY <1>4, Zenon DEF writePublic
  <2> QED BY <2>1, FileParts, OtherWriteEvolves
<1>5. CASE ~Fatal /\ (ensureAccounts \/ ensureNodeKeys)
  BY <1>4, <1>5, KeyEvolves DEF ensureAccounts, ensureNodeKeys, Owners
<1>6. CASE ensureBase
  <2>1. /\ Done(Net("base")) /\ fresh' = fresh /\ mem' = mem /\ runs' = runs /\ stops' = stops
        /\ \E u : WriteFile(Net("base"), u)
    BY <1>6, Zenon DEF ensureBase
  <2> QED BY <2>1, FileParts, OtherWriteEvolves
<1>7. CASE ~Fatal /\ buildDerivedFields
  <2>1. /\ Done(Net("derive")) /\ fresh' = fresh /\ mem' = mem /\ runs' = runs /\ stops' = stops
        /\ disk' = disk
    BY <1>7, Zenon DEF buildDerivedFields
  <2> QED BY <2>1, FileParts, OtherWriteEvolves
<1>8. CASE ~Fatal /\ maybeGenerateQBFTExtraData
  <2>1. /\ Done(Net("extradata")) /\ fresh' = fresh /\ mem' = mem /\ runs' = runs /\ stops' = stops
        /\ disk' = disk \/ \E u : WriteFile(Net("extradata"), u)
    BY <1>8, Zenon DEF maybeGenerateQBFTExtraData
  <2> QED BY <2>1, FileParts, OtherWriteEvolves
<1>9. CASE writeStaticNodes
  <2>1. PICK f \in {Net("static")} \cup {File("static", n) : n \in Nodes} :
             writeFileIfAllowed(f, BootEnodes)
    BY <1>9 DEF writeStaticNodes
  <2>2. f.kind # "key"
    BY FileParts
  <2> QED BY <2>1, <2>2, WriterEvolves
<1>10. CASE ~Fatal /\ writeNodeConfigs
  <2>1. PICK n \in Nodes : \E v : writeFileIfAllowed(File("config", n), v)
    BY <1>10, Zenon DEF writeNodeConfigs
  <2> QED BY <2>1, FileParts, WriterEvolves
<1>11. CASE \/ writeQBFTValidatorsJSON \/ writeGenesis \/ writeSystemdTemplate \/ writeReadme
            \/ writeInventoryJSON \/ writeAccountsInventoryJSON \/ writeHostsFile
  <2>1. \E k \in Derived : \E v : writeFileIfAllowed(Net(k), v)
    BY <1>11, Zenon DEF writeQBFTValidatorsJSON, writeGenesis, writeSystemdTemplate, writeReadme,
       writeInventoryJSON, writeAccountsInventoryJSON, writeHostsFile, Derived
  <2> QED BY <2>1, FileParts, WriterEvolves DEF Derived
<1> QED BY <1>1, <1>2, <1>3, <1>5, <1>6, <1>7, <1>8, <1>9, <1>10, <1>11 DEF Next

\* Everything that holds between two steps.
RunInv == KeyInv /\ ProgressInv /\ RunTypes

\* It holds before the first invocation.
LEMMA RunInit ==
  ASSUME Init
  PROVE  RunInv
<1>1. KeyInv
  BY KeyInit
<1>2. \A f \in KeyFiles : disk[f] = Missing
  BY DEF Init, Files
<1>3. Missing.st # "ok" /\ Missing.keys = {}
  BY DEF Missing
<1>4. ProgressInv
  BY <1>2, <1>3 DEF Init, ProgressInv
<1>5. \A o \in Owners : mem[o] = 0
  BY DEF Init
<1>6. RunTypes
  BY <1>2, <1>3, <1>5, RunBoundsAssumption DEF Init, RunTypes
<1> QED BY <1>1, <1>4, <1>6 DEF RunInv

\* And after every step.
LEMMA RunStep ==
  ASSUME RunInv, [Next]_vars
  PROVE  RunInv'
<1>1. KeyInv /\ ProgressInv /\ RunTypes
  BY DEF RunInv
<1>2. KeyInv'
  BY <1>1, KeyStep
<1>3. ProgressInv'
  BY <1>1, <1>2, ProgressStep
<1>4. RunTypes'
  <2>1. CASE Next
    BY <1>1, <1>2, <2>1, NextEvolves, EvolvesTypes
  <2>2. CASE UNCHANGED vars
    BY <1>1, <2>2 DEF RunTypes, vars
  <2> QED BY <2>1, <2>2
<1> QED BY <1>2, <1>3, <1>4 DEF RunInv

\* The types.
LEMMA RunTyped ==
  ASSUME RunInv
  PROVE  TypeOK
<1>1. mem \in [Owners -> Nat] /\ fresh \in Nat /\ \A o \in Owners : mem[o] <= fresh
  BY DEF RunInv, KeyInv, KeyTypeOK, RunTypes
<1>2. mem \in [Owners -> 0..fresh]
  BY <1>1
<1> QED BY <1>2 DEF RunInv, KeyInv, KeyTypeOK, RunTypes, TypeOK

\* Every variable keeps its type, and no key in memory was never drawn.
THEOREM NetgenTypeCorrect == Spec => []TypeOK
<1>1. Init => RunInv
  BY RunInit
<1>2. RunInv /\ [Next]_vars => RunInv'
  BY RunStep
<1>3. RunInv => TypeOK
  BY RunTyped
<1> QED BY <1>1, <1>2, <1>3, PTL DEF Spec

-----------------------------------------------------------------------------

\* A key file that this invocation has dealt with holds the key in memory.
LEMMA DiskIsMemory ==
  ASSUME NEW S \in SUBSET Owners, \A o \in S : Right(File("key", o))
  PROVE  DiskKeys(S) = KeysOf(S)
<1>1. \A o \in S : disk[File("key", o)].keys = {mem[o]}
  BY FileParts DEF Right
<1> QED BY <1>1 DEF DiskKeys, KeysOf

\* What init and regen write.
LEMMA InitFiles ==
  ASSUME KeyInv, cfg.cmd # "inventory"
  PROVE  /\ \A n \in cfg.nodes : {File("key", n), File("static", n), File("config", n)} \subseteq FilesOf(cfg)
         /\ cfg.accounts => \A a \in Accounts : File("key", a) \in FilesOf(cfg)
         /\ FilesOf(cfg) = runInit(cfg) /\ cfg.nodes \subseteq Nodes
<1>1. \A n \in cfg.nodes : {File("key", n), File("static", n), File("config", n)} \subseteq FilesOf(cfg)
  BY DEF FilesOf, runInit, runInventory, NodeKeyFiles, NodeFiles
<1>2. cfg.accounts => \A a \in Accounts : File("key", a) \in FilesOf(cfg)
  BY DEF FilesOf, runInit, runInventory, AccountFiles
<1>3. cfg.nodes \subseteq Nodes
  BY InvocationsAssumption DEF KeyInv, KeyTypeOK, Flags
<1> QED BY <1>1, <1>2, <1>3 DEF FilesOf

\* Of the files that are written last, no two disagree.
LEMMA DoneIsConsistent ==
  ASSUME RunInv
  PROVE  NetworkIsConsistent
<1> SUFFICES ASSUME status = "done", cfg.overwrite, cfg.cmd # "inventory"
             PROVE  LET val == DiskKeys(OfRole(cfg, "validator"))
                        boot == DiskKeys(OfRole(cfg, "bootnode"))
                        gen == disk[Net("genesis")]
                    IN
                    /\ \A f \in runInit(cfg) \ {Net("derive"), Net("extradata")} : disk[f].st = "ok"
                    /\ disk[Net("validators")].keys = val
                    /\ gen.made = (cfg.besu = "works") /\ disk[Net("readme")].made = gen.made
                    /\ gen.made => gen.keys = val
                    /\ cfg.accounts => gen.alloc = DiskKeys(Accounts)
                    /\ disk[Net("static")].keys = boot
                    /\ \A n \in cfg.nodes :
                        /\ disk[File("static", n)].keys = boot
                        /\ Role[n] # "bootnode" => disk[File("config", n)].keys = boot
  BY Zenon DEF NetworkIsConsistent
<1>1. KeyInv /\ Progress
  BY DEF RunInv, ProgressInv
<1>2. \A g \in FilesOf(cfg) : Right(g)
  BY <1>1 DEF Progress
<1>3. \A r : DiskKeys(OfRole(cfg, r)) = KeysOf(OfRole(cfg, r))
  <2> SUFFICES ASSUME NEW r PROVE DiskKeys(OfRole(cfg, r)) = KeysOf(OfRole(cfg, r))
    OBVIOUS
  <2>1. OfRole(cfg, r) \subseteq Owners /\ \A o \in OfRole(cfg, r) : Right(File("key", o))
    BY <1>1, <1>2, InitFiles DEF OfRole, Owners
  <2> QED BY <2>1, DiskIsMemory
<1>4. cfg.accounts => DiskKeys(Accounts) = KeysOf(Accounts)
  <2> SUFFICES ASSUME cfg.accounts PROVE DiskKeys(Accounts) = KeysOf(Accounts)
    OBVIOUS
  <2>1. Accounts \subseteq Owners /\ \A o \in Accounts : Right(File("key", o))
    BY <1>1, <1>2, InitFiles DEF Owners
  <2> QED BY <2>1, DiskIsMemory
<1>5. /\ Right(Net("validators")) /\ Right(Net("extradata")) /\ Right(Net("genesis"))
      /\ Right(Net("readme")) /\ Right(Net("static"))
  BY <1>2, GenesisWithExtra
<1>6. \A f \in runInit(cfg) \ {Net("derive"), Net("extradata")} : disk[f].st = "ok"
  <2> SUFFICES ASSUME NEW f \in runInit(cfg), f \notin {Net("derive"), Net("extradata")}
               PROVE  disk[f].st = "ok"
    OBVIOUS
  <2>1. f.kind \notin {"derive", "extradata"}
    BY FileParts DEF runInit, runInventory, AccountFiles, NodeKeyFiles, Reports, NodeFiles
  <2> QED BY <1>1, <1>2, <2>1, InitFiles DEF Right
<1>7. disk[Net("validators")].keys = DiskKeys(OfRole(cfg, "validator"))
  BY <1>3, <1>5, FileParts DEF Right
<1>8. /\ extra \in ContentsType /\ extra.made = (cfg.besu = "works")
      /\ extra.made => extra.keys = DiskKeys(OfRole(cfg, "validator"))
  BY <1>1, <1>3, <1>5, FileParts DEF Right, KeyInv, KeyTypeOK
<1>9. disk[Net("genesis")] = [extra EXCEPT !.alloc = AllocKeys]
  BY <1>5, FileParts DEF Right
<1>10. /\ disk[Net("genesis")].made = extra.made /\ disk[Net("genesis")].keys = extra.keys
       /\ disk[Net("genesis")].alloc = AllocKeys
  BY <1>8, <1>9 DEF ContentsType
<1>11. disk[Net("readme")].made = extra.made
  BY <1>5, FileParts DEF Right
<1>12. disk[Net("static")].keys = DiskKeys(OfRole(cfg, "bootnode"))
  BY <1>3, <1>5, FileParts DEF Right
<1>13. \A n \in cfg.nodes :
        /\ disk[File("static", n)].keys = DiskKeys(OfRole(cfg, "bootnode"))
        /\ Role[n] # "bootnode" => disk[File("config", n)].keys = DiskKeys(OfRole(cfg, "bootnode"))
  <2> SUFFICES ASSUME NEW n \in cfg.nodes
               PROVE  /\ disk[File("static", n)].keys = DiskKeys(OfRole(cfg, "bootnode"))
                      /\ Role[n] # "bootnode" => disk[File("config", n)].keys = DiskKeys(OfRole(cfg, "bootnode"))
    OBVIOUS
  <2>1. Right(File("static", n)) /\ Right(File("config", n))
    BY <1>1, <1>2, InitFiles
  <2> QED BY <1>3, <2>1, FileParts DEF Right
<1>14. cfg.accounts => disk[Net("genesis")].alloc = DiskKeys(Accounts)
  BY <1>4, <1>10 DEF AllocKeys
<1>15. disk[Net("genesis")].made = (cfg.besu = "works")
  BY <1>8, <1>10
<1>16. disk[Net("readme")].made = disk[Net("genesis")].made
  BY <1>10, <1>11
<1>17. disk[Net("genesis")].made => disk[Net("genesis")].keys = DiskKeys(OfRole(cfg, "validator"))
  BY <1>8, <1>10
<1> QED BY <1>6, <1>7, <1>12, <1>13, <1>14, <1>15, <1>16, <1>17, Zenon

\* When init or regen ends and files may be overwritten, the files of the network
\* agree with the keys on disk, whatever earlier invocations left.
THEOREM NetgenConsistent == Spec => []NetworkIsConsistent
<1>1. Init => RunInv
  BY RunInit
<1>2. RunInv /\ [Next]_vars => RunInv'
  BY RunStep
<1>3. RunInv => NetworkIsConsistent
  BY DoneIsConsistent
<1> QED BY <1>1, <1>2, <1>3, PTL DEF Spec

-----------------------------------------------------------------------------

\* A step that deals with a file does not fail.
LEMMA DoneDoesNotFail ==
  ASSUME NEW f, Done(f)
  PROVE  status' # "failed"
  BY DEF Done

\* A key that makes an invocation fail is one that it needs.
LEMMA KeyFailure ==
  ASSUME KeyInv, ProgressInv, NEW o \in Owners, readOrCreateNodeKey(o), status' = "failed"
  PROVE  FailureIsExplained'
<1>1. Due(File("key", o))
  BY Zenon DEF readOrCreateNodeKey
<1>2. Fatal /\ \/ disk[File("key", o)].st = "torn"
               \/ disk[File("key", o)].st = "absent" /\ cfg.noKeygen
  BY DoneDoesNotFail, Zenon DEF readOrCreateNodeKey
<1>3. File("key", o) \in FilesOf(cfg)
  BY <1>1 DEF Due, ProgressInv, Progress
<1>4. o \in Accounts \cup cfg.nodes
  BY <1>3, InvocationFiles, FileParts
<1>5. disk' = disk /\ cfg' = cfg
  BY <1>2 DEF Fatal
<1> QED BY <1>2, <1>4, <1>5, Zenon DEF FailureIsExplained

\* The validators that Besu reads were written by this invocation, or were there
\* and may not be overwritten.
LEMMA ExtraFailure ==
  ASSUME KeyInv, ProgressInv, maybeGenerateQBFTExtraData, status' = "failed"
  PROVE  FailureIsExplained'
<1>1. Due(Net("extradata"))
  BY Zenon DEF maybeGenerateQBFTExtraData
<1>2. Fatal /\ (cfg.besu = "fails" \/ disk[Net("validators")].st = "torn")
  BY DoneDoesNotFail, Zenon DEF maybeGenerateQBFTExtraData
<1>3. disk' = disk /\ cfg' = cfg
  BY <1>2 DEF Fatal
<1>4. cfg.overwrite => disk[Net("validators")].st = "ok"
  <2>1. Net("validators") \notin todo
    BY <1>1, DueInOrder, FileParts, NamesAssumption
  <2>2. Progress /\ Net("extradata") \in FilesOf(cfg)
    BY <1>1 DEF Due, ProgressInv, Progress
  <2>3. Net("validators") \in FilesOf(cfg)
    BY <2>2, GenesisWithExtra, FileParts
  <2> QED BY <2>1, <2>2, <2>3, FileParts DEF Progress, Right
<1>5. cfg.besu = "fails" \/ (~cfg.overwrite /\ disk[Net("validators")].st = "torn")
  BY <1>2, <1>4
<1> QED BY <1>3, <1>5, Zenon DEF FailureIsExplained

\* A config is rendered for a node of the nodes file.
LEMMA ConfigFailure ==
  ASSUME KeyInv, ProgressInv, writeNodeConfigs, status' = "failed"
  PROVE  FailureIsExplained'
<1>1. PICK n \in Nodes : /\ Role[n] \notin {"bootnode", "validator", "rpc"}
                         /\ Due(File("config", n)) /\ Fatal
  BY DoneDoesNotFail, Zenon DEF writeNodeConfigs, writeFileIfAllowed
<1>2. File("config", n) \in FilesOf(cfg)
  BY <1>1 DEF Due, ProgressInv, Progress
<1>3. n \in cfg.nodes
  BY <1>2, InvocationFiles, FileParts, NamesAssumption
<1>4. disk' = disk /\ cfg' = cfg
  BY <1>1 DEF Fatal
<1> QED BY <1>1, <1>3, <1>4, Zenon DEF FailureIsExplained

\* Every other way to fail.
LEMMA FailureStep ==
  ASSUME KeyInv, ProgressInv, FailureIsExplained, [Next]_vars
  PROVE  FailureIsExplained'
<1> SUFFICES ASSUME status' = "failed" PROVE FailureIsExplained'
  BY Zenon DEF FailureIsExplained
<1>1. CASE UNCHANGED vars
  <2>1. disk' = disk /\ cfg' = cfg /\ status' = status
    BY <1>1 DEF vars
  <2> QED BY <2>1, Zenon DEF FailureIsExplained
<1>2. CASE Start
  <2>1. ~parseArgs(cfg')
    BY <1>2, StartFiles
  <2> QED BY <2>1, Zenon DEF FailureIsExplained
<1>3. CASE Stop
  BY <1>3, Zenon DEF Stop
<1>4. CASE buildDerivedFields
  <2>1. ~findAccountAddress(cfg.named) /\ Fatal
    BY <1>4, DoneDoesNotFail, Zenon DEF buildDerivedFields
  <2>2. cfg' = cfg
    BY <2>1 DEF Fatal
  <2> QED BY <2>1, <2>2, Zenon DEF FailureIsExplained
<1>5. CASE ensureAccounts \/ ensureNodeKeys
  <2>1. \E o \in Owners : readOrCreateNodeKey(o) \/ writePublic(o)
    BY <1>5, Zenon DEF ensureAccounts, ensureNodeKeys, Owners
  <2>2. \A o \in Owners : ~writePublic(o)
    BY DoneDoesNotFail, Zenon DEF writePublic
  <2> QED BY <2>1, <2>2, KeyFailure
<1>6. ~ (\/ ensureBase \/ writeQBFTValidatorsJSON \/ writeGenesis \/ writeStaticNodes
         \/ writeSystemdTemplate \/ writeReadme
         \/ writeInventoryJSON \/ writeAccountsInventoryJSON \/ writeHostsFile)
  BY DoneDoesNotFail, Zenon DEF ensureBase, writeQBFTValidatorsJSON, writeGenesis,
     writeStaticNodes, writeSystemdTemplate, writeReadme, writeInventoryJSON,
     writeAccountsInventoryJSON, writeHostsFile, writeFileIfAllowed
<1> QED BY <1>1, <1>2, <1>3, <1>4, <1>5, <1>6, ExtraFailure, ConfigFailure DEF Next

\* An invocation that exits with an error has a reason the operator can see; an
\* interrupted earlier run is none, unless it cut a key or a file that is kept.
THEOREM NetgenFailures == Spec => []FailureIsExplained
<1>1. Init => RunInv /\ FailureIsExplained
  BY RunInit, Zenon DEF Init, FailureIsExplained
<1>2. RunInv /\ FailureIsExplained /\ [Next]_vars => RunInv' /\ FailureIsExplained'
  BY RunStep, FailureStep DEF RunInv
<1> QED BY <1>1, <1>2, PTL DEF Spec

=============================================================================
