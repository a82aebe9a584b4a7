--------------------------- MODULE CodeCacheProofs ---------------------------
(***************************************************************************)
(* For TLBs and caches of every size: the dispatch loop executes what is   *)
(* in memory, and (with 4K leaves) no translation outlives the fence that  *)
(* covers it.                                                              *)
(*                                                                         *)
(* ExecutesMemory is not inductive.  A store through the write TLB says    *)
(* nothing to the decode cache, so no such entry may cover a page with a   *)
(* decode (DecodedIsWatched); a drop is seen only through the cache, so    *)
(* the page the loop runs in must still be the cached one (CodeIsCached).  *)
(***************************************************************************)
EXTENDS CodeCache, TLAPS

(* A cached page sits where its number says.                               *)
Placed ==
  \A i \in 0 .. CacheSize - 1 :
    cache[i].source # NoPage => CacheIndex(cache[i].source) = i

CodeIsCached ==
  codeTag # NoPage =>
    codePage \in PPages /\ decoded.source = codePage
    /\ cache[CacheIndex(codePage)] = decoded

CInv == TypeOK /\ Placed /\ CodeIsCached /\ CacheIsCurrent /\ DecodedIsWatched

LEMMA ModRange ==
  ASSUME NEW n \in Nat, NEW d \in Nat \ {0}
  PROVE  n % d \in 0 .. d - 1
  OBVIOUS

LEMMA Indices ==
  /\ \A v \in VPages : TlbIndex(v) \in 0 .. TlbSize - 1
  /\ \A p \in PPages : CacheIndex(p) \in 0 .. CacheSize - 1
  BY CacheAssumption, ModRange DEF TlbIndex, CacheIndex

LEMMA Sorts ==
  /\ NoPage \notin VPages /\ NoPage \notin PPages
  /\ Invalid \in Entries /\ Sentinel \in DecodedPages
  /\ Invalid.tag = NoPage /\ Invalid.page = NoPage
  /\ Sentinel.source = NoPage /\ Sentinel.slot = Undecoded
  /\ \A e \in Entries : e.tag # NoPage => e.tag \in VPages /\ e.page \in PPages
  /\ \A d \in DecodedPages : /\ d.slot \in Insns \cup {Undecoded}
                             /\ d.source # NoPage => d.source \in PPages
                             /\ d.source \in PPages \cup {NoPage}
  BY CacheAssumption DEF NoPage, Invalid, Entry, Entries, Sentinel, Page, DecodedPages

LEMMA InitCInv == ASSUME Init PROVE CInv
<1>1. TypeOK
  BY Sorts DEF Init, TypeOK
<1>2. Placed /\ CodeIsCached /\ CacheIsCurrent /\ DecodedIsWatched
  BY Sorts DEF Init, Placed, CodeIsCached, CacheIsCurrent, DecodedIsWatched
<1> QED
  BY <1>1, <1>2 DEF CInv

(* What a drop leaves: the page is not cached any more, and the rest of    *)
(* the cache and the loop's page are as they were.                         *)
LEMMA DropKeeps ==
  ASSUME CInv, NEW p \in PPages, DropDecodedPage(p)
  PROVE  /\ cache' \in [0 .. CacheSize - 1 -> DecodedPages]
         /\ codeTag' \in VPages \cup {NoPage}
         /\ codePage' \in PPages \cup {NoPage} /\ decoded' \in DecodedPages
         /\ Placed' /\ CodeIsCached'
         /\ \A i \in 0 .. CacheSize - 1 :
              cache'[i].source # NoPage => cache'[i] = cache[i] /\ cache[i].source # p
         /\ cache'[CacheIndex(p)].source # p
<1>1. CacheIndex(p) \in 0 .. CacheSize - 1 /\ p # NoPage
  BY Indices, Sorts
<1>2. cache \in [0 .. CacheSize - 1 -> DecodedPages]
  BY DEF CInv, TypeOK
<1>3. CASE Cached(p)
  <2>1. cache' = [cache EXCEPT ![CacheIndex(p)] = Sentinel]
    BY <1>3 DEF DropDecodedPage
  <2>2. cache' \in [0 .. CacheSize - 1 -> DecodedPages]
    BY <1>1, <1>2, <2>1, Sorts
  <2>3. \A i \in 0 .. CacheSize - 1 :
          cache'[i].source # NoPage => cache'[i] = cache[i] /\ i # CacheIndex(p)
    BY <1>1, <1>2, <2>1, Sorts
  <2>4. \A i \in 0 .. CacheSize - 1 :
          cache'[i].source # NoPage => cache[i].source # p
    BY <1>1, <2>3 DEF CInv, Placed
  <2>5. cache'[CacheIndex(p)].source # p
    BY <1>1, <1>2, <2>1, Sorts
  <2>6. Placed'
    BY <2>3 DEF CInv, Placed
  <2>7. codeTag' \in VPages \cup {NoPage}
        /\ codePage' \in PPages \cup {NoPage} /\ decoded' \in DecodedPages
    BY DEF DropDecodedPage, CInv, TypeOK
  <2>8. CodeIsCached'
    <3> SUFFICES ASSUME codeTag' # NoPage
                 PROVE  CodeIsCached'
      BY DEF CodeIsCached
    <3>1. codeTag' = codeTag /\ codePage # p /\ UNCHANGED <<codePage, decoded>>
      BY <1>3 DEF DropDecodedPage
    <3>2. codePage \in PPages /\ decoded.source = codePage
          /\ cache[CacheIndex(codePage)] = decoded
      BY <3>1 DEF CInv, CodeIsCached
    <3>3. CacheIndex(codePage) # CacheIndex(p)
      BY <1>3, <3>1, <3>2 DEF Cached
    <3>4. cache'[CacheIndex(codePage)] = cache[CacheIndex(codePage)]
      BY <1>2, <2>1, <3>2, <3>3, Indices
    <3> QED
      BY <3>1, <3>2, <3>4 DEF CodeIsCached
  <2> QED
    BY <2>2, <2>3, <2>4, <2>5, <2>6, <2>7, <2>8
<1>4. CASE ~Cached(p)
  <2>1. UNCHANGED <<cache, codeTag, codePage, decoded>>
    BY <1>4 DEF DropDecodedPage
  <2>2. \A i \in 0 .. CacheSize - 1 : cache[i].source # p
    BY <1>1, <1>4 DEF CInv, Placed, Cached
  <2> QED
    BY <1>4, <2>1, <2>2 DEF CInv, TypeOK, Placed, CodeIsCached, Cached
<1> QED
  BY <1>3, <1>4

(* Installing a page that is cached changes neither cache nor TLBs; one    *)
(* that is not replaces what collides with it and loses its write mappings.*)
LEMMA InstallKeeps ==
  ASSUME CInv, NEW v \in VPages, NEW p \in PPages, InstallCodePage(v, p),
         UNCHANGED ram
  PROVE  /\ cache' \in [0 .. CacheSize - 1 -> DecodedPages]
         /\ tlbWrite' \in [0 .. TlbSize - 1 -> Entries]
         /\ codeTag' \in VPages \cup {NoPage}
         /\ codePage' \in PPages \cup {NoPage} /\ decoded' \in DecodedPages
         /\ Placed' /\ CodeIsCached' /\ CacheIsCurrent' /\ DecodedIsWatched'
<1>1. CacheIndex(p) \in 0 .. CacheSize - 1 /\ p # NoPage
  BY Indices, Sorts
<1>2. cache \in [0 .. CacheSize - 1 -> DecodedPages]
      /\ tlbWrite \in [0 .. TlbSize - 1 -> Entries]
  BY DEF CInv, TypeOK
<1>3. CASE Cached(p)
  <2>1. UNCHANGED <<cache, tlbWrite, ram>> /\ codeTag' = v /\ codePage' = p
        /\ decoded' = cache[CacheIndex(p)]
    BY <1>3 DEF InstallCodePage
  <2>2. decoded' \in DecodedPages /\ decoded'.source = p
    BY <1>1, <1>2, <1>3, <2>1 DEF Cached
  <2>3. CodeIsCached'
    BY <2>1, <2>2 DEF CodeIsCached
  <2> QED
    BY <1>2, <2>1, <2>2, <2>3 DEF CInv, Placed, CacheIsCurrent, DecodedIsWatched, Cached
<1>4. CASE ~Cached(p)
  <2> DEFINE new == Page(p, Undecoded)
  <2>1. /\ cache' = [cache EXCEPT ![CacheIndex(p)] = new] /\ tlbWrite' = Purge(p)
        /\ codeTag' = v /\ codePage' = p /\ decoded' = new /\ ram' = ram
    BY <1>4 DEF InstallCodePage
  <2>2. new \in DecodedPages /\ new.source = p /\ new.slot = Undecoded
    BY DEF Page, DecodedPages
  <2>3. cache' \in [0 .. CacheSize - 1 -> DecodedPages]
        /\ cache'[CacheIndex(p)] = new
        /\ \A i \in 0 .. CacheSize - 1 : i # CacheIndex(p) => cache'[i] = cache[i]
    BY <1>1, <1>2, <2>1, <2>2
  <2>4. tlbWrite' \in [0 .. TlbSize - 1 -> Entries]
        /\ \A i \in 0 .. TlbSize - 1 :
             tlbWrite'[i].tag # NoPage => tlbWrite'[i] = tlbWrite[i] /\ tlbWrite[i].page # p
    BY <1>2, <2>1, Sorts DEF Purge
  <2>5. Placed'
    BY <2>2, <2>3 DEF CInv, Placed
  <2>6. CodeIsCached'
    BY <2>1, <2>2, <2>3 DEF CodeIsCached
  <2>7. CacheIsCurrent'
    BY <1>2, <2>1, <2>2, <2>3 DEF CInv, CacheIsCurrent
  <2>8. DecodedIsWatched'
    <3> SUFFICES ASSUME NEW i \in 0 .. TlbSize - 1, tlbWrite'[i].tag # NoPage
                 PROVE  cache'[CacheIndex(tlbWrite'[i].page)].source # tlbWrite'[i].page
      BY <2>4 DEF DecodedIsWatched, Cached
    <3> DEFINE q == tlbWrite[i].page
    <3>1. tlbWrite'[i].page = q /\ tlbWrite[i].tag # NoPage /\ q # p /\ q \in PPages
      BY <1>2, <2>4, Sorts
    <3>2. ~Cached(q)
      BY <1>2, <3>1 DEF CInv, DecodedIsWatched
    <3>3. CacheIndex(q) \in 0 .. CacheSize - 1
      BY <3>1, Indices
    <3> QED
      BY <2>2, <2>3, <3>1, <3>2, <3>3 DEF Cached
  <2> QED
    BY <2>1, <2>2, <2>3, <2>4, <2>5, <2>6, <2>7, <2>8, Sorts
<1> QED
  BY <1>3, <1>4

LEMMA FetchKeeps ==
  ASSUME CInv, NEW v \in VPages, Fetch(v)
  PROVE  CInv'
<1>1. TlbIndex(v) \in 0 .. TlbSize - 1 /\ v # NoPage
  BY Indices, Sorts
<1>2. PICK p \in PPages : InstallCodePage(v, p)
  <2>1. CASE tlbCode[TlbIndex(v)].tag = v /\ InstallCodePage(v, tlbCode[TlbIndex(v)].page)
    BY <1>1, <2>1, Sorts DEF CInv, TypeOK
  <2>2. CASE pt[v] # NoPage /\ InstallCodePage(v, pt[v])
    BY <2>2 DEF CInv, TypeOK
  <2> QED
    BY <2>1, <2>2 DEF Fetch
<1>3. tlbCode' \in [0 .. TlbSize - 1 -> Entries]
  <2>1. CASE UNCHANGED tlbCode
    BY <2>1 DEF CInv, TypeOK
  <2>2. CASE pt[v] # NoPage /\ tlbCode' = [tlbCode EXCEPT ![TlbIndex(v)] = Entry(v, pt[v])]
    <3>1. Entry(v, pt[v]) \in Entries
      BY <2>2 DEF CInv, TypeOK, Entry, Entries
    <3> QED
      BY <2>2, <3>1 DEF CInv, TypeOK
  <2> QED
    BY <2>1, <2>2 DEF Fetch
<1>4. UNCHANGED <<ram, pt, mapped>>
  BY DEF Fetch
<1> QED
  BY <1>2, <1>3, <1>4, InstallKeeps DEF CInv, TypeOK

LEMMA DecodeKeeps ==
  ASSUME CInv, DecodeSlot
  PROVE  CInv'
<1>1. codePage \in PPages /\ decoded.source = codePage
      /\ cache[CacheIndex(codePage)] = decoded /\ codePage # NoPage
      /\ CacheIndex(codePage) \in 0 .. CacheSize - 1 /\ Cached(codePage)
  BY Indices, Sorts DEF CInv, CodeIsCached, DecodeSlot, Cached
<1>2. cache \in [0 .. CacheSize - 1 -> DecodedPages] /\ ram[codePage] \in Insns
      /\ decoded \in DecodedPages /\ decoded # Sentinel
  BY <1>1, Sorts DEF CInv, TypeOK
<1>3. decoded' = [decoded EXCEPT !.slot = ram[codePage]]
      /\ cache' = [cache EXCEPT ![CacheIndex(codePage)] = decoded']
      /\ UNCHANGED <<ram, pt, tlbWrite, tlbCode, codeTag, codePage, mapped>>
  BY <1>1 DEF DecodeSlot, tlbVars
<1>4. decoded' \in DecodedPages /\ decoded'.source = codePage
      /\ decoded'.slot = ram[codePage]
  BY <1>1, <1>2, <1>3 DEF DecodedPages
<1>5. cache' \in [0 .. CacheSize - 1 -> DecodedPages]
      /\ cache'[CacheIndex(codePage)] = decoded'
      /\ \A i \in 0 .. CacheSize - 1 : i # CacheIndex(codePage) => cache'[i] = cache[i]
  BY <1>1, <1>2, <1>3, <1>4
<1>6. Placed' /\ CodeIsCached'
  BY <1>1, <1>3, <1>4, <1>5 DEF CInv, Placed, CodeIsCached
<1>7. CacheIsCurrent'
  BY <1>2, <1>3, <1>4, <1>5 DEF CInv, CacheIsCurrent
<1>8. DecodedIsWatched'
  <2> SUFFICES ASSUME NEW i \in 0 .. TlbSize - 1, tlbWrite[i].tag # NoPage
               PROVE  cache'[CacheIndex(tlbWrite[i].page)].source # tlbWrite[i].page
    BY <1>3 DEF DecodedIsWatched, CInv, TypeOK, Cached
  <2>1. tlbWrite[i].page \in PPages /\ ~Cached(tlbWrite[i].page)
    BY Sorts DEF CInv, TypeOK, DecodedIsWatched
  <2>2. PICK k \in 0 .. CacheSize - 1 : k = CacheIndex(tlbWrite[i].page)
    BY <2>1, Indices
  <2>3. cache'[k].source = cache[k].source
    BY <1>1, <1>4, <1>5
  <2> QED
    BY <2>1, <2>2, <2>3 DEF Cached
<1> QED
  BY <1>3, <1>4, <1>5, <1>6, <1>7, <1>8 DEF CInv, TypeOK

LEMMA StoreKeeps ==
  ASSUME CInv, NEW v \in VPages, NEW insn \in Insns, Store(v, insn)
  PROVE  CInv'
<1> DEFINE e == tlbWrite[TlbIndex(v)]
<1>1. TlbIndex(v) \in 0 .. TlbSize - 1 /\ v # NoPage /\ e \in Entries
  BY Indices, Sorts DEF CInv, TypeOK
<1>2. UNCHANGED <<pt, tlbCode, mapped>>
  BY DEF Store
<1>3. CASE /\ e.tag = v /\ ram' = [ram EXCEPT ![e.page] = insn]
           /\ UNCHANGED <<tlbWrite, codeVars, cache>>
  <2>1. e.page \in PPages /\ ~Cached(e.page)
    BY <1>1, <1>3, Sorts DEF CInv, TypeOK, DecodedIsWatched
  <2>2. \A i \in 0 .. CacheSize - 1 : cache[i].source # e.page
    BY <2>1, Sorts DEF CInv, Placed, Cached
  <2>3. CacheIsCurrent'
    BY <1>3, <2>1, <2>2, Sorts DEF CInv, TypeOK, CacheIsCurrent
  <2>4. ram' \in [PPages -> Insns]
    BY <1>3, <2>1 DEF CInv, TypeOK
  <2> QED
    BY <1>2, <1>3, <2>3, <2>4
       DEF CInv, TypeOK, Placed, CodeIsCached, DecodedIsWatched, Cached, codeVars
<1>4. CASE /\ e.tag # v /\ pt[v] # NoPage
           /\ tlbWrite' = [tlbWrite EXCEPT ![TlbIndex(v)] = Entry(v, pt[v])]
           /\ DropDecodedPage(pt[v])
           /\ ram' = [ram EXCEPT ![pt[v]] = insn]
  <2>1. pt[v] \in PPages /\ Entry(v, pt[v]) \in Entries
    BY <1>4 DEF CInv, TypeOK, Entry, Entries
  <2>0. PICK p \in PPages : p = pt[v]
    BY <2>1
  <2>2. /\ cache' \in [0 .. CacheSize - 1 -> DecodedPages]
        /\ codeTag' \in VPages \cup {NoPage}
        /\ codePage' \in PPages \cup {NoPage} /\ decoded' \in DecodedPages
        /\ Placed' /\ CodeIsCached'
        /\ \A i \in 0 .. CacheSize - 1 :
             cache'[i].source # NoPage => cache'[i] = cache[i] /\ cache[i].source # p
        /\ cache'[CacheIndex(p)].source # p
    BY <1>4, <2>0, DropKeeps
  <2>3. ram' \in [PPages -> Insns] /\ tlbWrite' \in [0 .. TlbSize - 1 -> Entries]
    BY <1>1, <1>4, <2>1 DEF CInv, TypeOK
  <2>4. CacheIsCurrent'
    BY <1>4, <2>0, <2>2, Sorts DEF CInv, TypeOK, CacheIsCurrent
  <2>5. DecodedIsWatched'
    <3> SUFFICES ASSUME NEW i \in 0 .. TlbSize - 1, tlbWrite'[i].tag # NoPage
                 PROVE  cache'[CacheIndex(tlbWrite'[i].page)].source # tlbWrite'[i].page
      BY <2>3 DEF DecodedIsWatched, Cached
    <3>1. CASE i = TlbIndex(v)
      <4>1. tlbWrite'[i].page = p
        BY <1>1, <1>4, <2>0, <3>1 DEF CInv, TypeOK, Entry
      <4> QED
        BY <2>2, <4>1 DEF Cached
    <3>2. CASE i # TlbIndex(v)
      <4>1. tlbWrite'[i] = tlbWrite[i] /\ tlbWrite[i].page \in PPages
            /\ ~Cached(tlbWrite[i].page)
        BY <1>4, <3>2, Sorts DEF CInv, TypeOK, DecodedIsWatched
      <4>2. CacheIndex(tlbWrite[i].page) \in 0 .. CacheSize - 1
            /\ tlbWrite[i].page # NoPage
        BY <4>1, Indices, Sorts
      <4> QED
        BY <2>2, <4>1, <4>2 DEF Cached
    <3> QED
      BY <3>1, <3>2
  <2> QED
    BY <1>2, <2>2, <2>3, <2>4, <2>5 DEF CInv, TypeOK
<1> QED
  BY <1>3, <1>4 DEF Store

LEMMA DeviceWriteKeeps ==
  ASSUME CInv, NEW p \in PPages, NEW insn \in Insns, DeviceWrite(p, insn)
  PROVE  CInv'
<1>1. DropDecodedPage(p) /\ ram' = [ram EXCEPT ![p] = insn]
      /\ UNCHANGED <<pt, tlbWrite, tlbCode, mapped>>
  BY DEF DeviceWrite, tlbVars
<1>2. /\ cache' \in [0 .. CacheSize - 1 -> DecodedPages]
      /\ codeTag' \in VPages \cup {NoPage}
      /\ codePage' \in PPages \cup {NoPage} /\ decoded' \in DecodedPages
      /\ Placed' /\ CodeIsCached'
      /\ \A i \in 0 .. CacheSize - 1 :
           cache'[i].source # NoPage => cache'[i] = cache[i] /\ cache[i].source # p
  BY <1>1, DropKeeps
<1>3. ram' \in [PPages -> Insns]
  BY <1>1 DEF CInv, TypeOK
<1>4. CacheIsCurrent'
  BY <1>1, <1>2, Sorts DEF CInv, TypeOK, CacheIsCurrent
<1>5. DecodedIsWatched'
  <2> SUFFICES ASSUME NEW i \in 0 .. TlbSize - 1, tlbWrite[i].tag # NoPage
               PROVE  cache'[CacheIndex(tlbWrite[i].page)].source # tlbWrite[i].page
    BY <1>1 DEF DecodedIsWatched, CInv, TypeOK, Cached
  <2>1. tlbWrite[i].page \in PPages /\ ~Cached(tlbWrite[i].page)
    BY Sorts DEF CInv, TypeOK, DecodedIsWatched
  <2>2. CacheIndex(tlbWrite[i].page) \in 0 .. CacheSize - 1
        /\ tlbWrite[i].page # NoPage
    BY <2>1, Indices, Sorts
  <2> QED
    BY <1>1, <1>2, <2>1, <2>2 DEF Cached
<1> QED
  BY <1>1, <1>2, <1>3, <1>4, <1>5 DEF CInv, TypeOK

(* Fences and remappings only take entries away.                           *)
LEMMA FenceKeeps ==
  ASSUME CInv,
         FenceI \/ FlushTlb \/ UNCHANGED vars
         \/ (\E v \in VPages : SfencePage(v) \/ \E p \in PPages : Remap(v, p))
  PROVE  CInv'
<1>1. CASE FenceI
  <2>1. cache' = [i \in 0 .. CacheSize - 1 |-> Sentinel] /\ codeTag' = NoPage
        /\ UNCHANGED <<ram, pt, tlbWrite, tlbCode, codePage, decoded, mapped>>
    BY <1>1 DEF FenceI, tlbVars
  <2>2. DecodedIsWatched'
    BY <2>1, Sorts, Indices DEF CInv, TypeOK, DecodedIsWatched, Cached
  <2> QED
    BY <2>1, <2>2, Sorts DEF CInv, TypeOK, Placed, CodeIsCached, CacheIsCurrent
<1>2. CASE FlushTlb
  BY <1>2, Sorts DEF FlushTlb, CInv, TypeOK, Placed, CodeIsCached, CacheIsCurrent,
                     DecodedIsWatched
<1>3. CASE UNCHANGED vars
  BY <1>3 DEF vars, tlbVars, codeVars, CInv, TypeOK, Placed, CodeIsCached,
              CacheIsCurrent, DecodedIsWatched, Cached
<1>4. ASSUME NEW v \in VPages, SfencePage(v)
      PROVE  CInv'
  <2>1. /\ tlbWrite' \in [0 .. TlbSize - 1 -> Entries]
        /\ tlbCode' \in [0 .. TlbSize - 1 -> Entries]
        /\ \A i \in 0 .. TlbSize - 1 :
             tlbWrite'[i].tag # NoPage => tlbWrite'[i] = tlbWrite[i]
    BY <1>4, Sorts, Indices DEF SfencePage, InvalidateIfMatches, CInv, TypeOK
  <2>2. UNCHANGED <<ram, pt, codePage, decoded, cache>> /\ codeTag' \in {codeTag, NoPage}
    BY <1>4 DEF SfencePage
  <2>3. mapped' \in [VPages -> SUBSET (PPages \cup {NoPage})]
    BY <1>4 DEF SfencePage, CInv, TypeOK
  <2>4. DecodedIsWatched'
    BY <2>1, <2>2 DEF CInv, TypeOK, DecodedIsWatched, Cached
  <2> QED
    BY <2>1, <2>2, <2>3, <2>4 DEF CInv, TypeOK, Placed, CodeIsCached, CacheIsCurrent
<1>5. ASSUME NEW v \in VPages, NEW p \in PPages, Remap(v, p)
      PROVE  CInv'
  <2>1. pt' \in [VPages -> PPages \cup {NoPage}]
    BY <1>5 DEF Remap, CInv, TypeOK
  <2>2. mapped' \in [VPages -> SUBSET (PPages \cup {NoPage})]
    BY <1>5, <2>1 DEF Remap, CInv, TypeOK
  <2>3. UNCHANGED <<ram, tlbWrite, tlbCode, codeTag, codePage, decoded, cache>>
    BY <1>5 DEF Remap, tlbVars, codeVars
  <2> QED
    BY <2>1, <2>2, <2>3 DEF CInv, TypeOK, Placed, CodeIsCached, CacheIsCurrent,
                            DecodedIsWatched, Cached
<1> QED
  BY <1>1, <1>2, <1>3, <1>4, <1>5

LEMMA StepKeepsCInv == CInv /\ [Next]_vars => CInv'
  BY FetchKeeps, DecodeKeeps, StoreKeeps, DeviceWriteKeeps, FenceKeeps DEF Next

(* The loop executes what is in memory, for every size of the TLBs and of  *)
(* the decode cache, whether or not the guest uses fence.i.                *)
THEOREM MemoryExecuted == Spec => [](ExecutesMemory /\ CacheIsCurrent /\ DecodedIsWatched)
<1>1. Init => CInv
  BY InitCInv
<1>2. CInv /\ [Next]_vars => CInv'
  BY StepKeepsCInv
<1>3. CInv => ExecutesMemory /\ CacheIsCurrent /\ DecodedIsWatched
  BY Indices, Sorts DEF CInv, TypeOK, CodeIsCached, CacheIsCurrent, ExecutesMemory
<1> QED
  BY <1>1, <1>2, <1>3, PTL DEF Spec

(* No store can go by the fast path to a page that has a decode, whatever  *)
(* aliases the guest maps: installing a decode purges the write TLB of its *)
(* page, and filling the write TLB drops the decode.                       *)
THEOREM DecodedPagesWatched == Spec => []DecodedIsWatched
<1>1. CInv => DecodedIsWatched
  BY DEF CInv
<1> QED
  BY <1>1, InitCInv, StepKeepsCInv, PTL DEF Spec

----------------------------------------------------------------------------
(* FenceTakesEffect needs two facts more: a TLB entry sits where its tag   *)
(* says, so a fence finds the only entry a page may have, and what the     *)
(* page tables say now is among what they said since the fence.            *)
WriteFresh ==
  \A i \in 0 .. TlbSize - 1 : tlbWrite[i].tag # NoPage =>
    TlbIndex(tlbWrite[i].tag) = i /\ tlbWrite[i].page \in mapped[tlbWrite[i].tag]

CodeFresh ==
  \A i \in 0 .. TlbSize - 1 : tlbCode[i].tag # NoPage =>
    TlbIndex(tlbCode[i].tag) = i /\ tlbCode[i].page \in mapped[tlbCode[i].tag]

LoopFresh == codeTag # NoPage => codePage \in mapped[codeTag]

Listed == \A v \in VPages : pt[v] # NoPage => pt[v] \in mapped[v]

FInv == CInv /\ WriteFresh /\ CodeFresh /\ LoopFresh /\ Listed

LEMMA FetchFresh ==
  ASSUME FInv, NEW v \in VPages, Fetch(v)
  PROVE  WriteFresh' /\ CodeFresh' /\ LoopFresh' /\ Listed'
<1>1. UNCHANGED <<ram, pt, mapped>> /\ TlbIndex(v) \in 0 .. TlbSize - 1 /\ v # NoPage
  BY Indices, Sorts DEF Fetch
<1>2. PICK p : /\ InstallCodePage(v, p) /\ p \in mapped[v]
               /\ \/ UNCHANGED tlbCode
                  \/ tlbCode' = [tlbCode EXCEPT ![TlbIndex(v)] = Entry(v, p)]
  BY <1>1 DEF Fetch, FInv, CodeFresh, Listed
<1>3. codeTag' = v /\ codePage' = p
      /\ (UNCHANGED tlbWrite \/ tlbWrite' = Purge(p))
  BY <1>2 DEF InstallCodePage
<1>4. WriteFresh'
  <2>1. CASE UNCHANGED tlbWrite
    BY <1>1, <2>1 DEF FInv, WriteFresh
  <2>2. CASE tlbWrite' = Purge(p)
    <3>1. \A i \in 0 .. TlbSize - 1 : tlbWrite'[i] \in {tlbWrite[i], Invalid}
      BY <2>2 DEF Purge
    <3> QED
      BY <1>1, <3>1, Sorts DEF FInv, WriteFresh
  <2> QED
    BY <1>3, <2>1, <2>2
<1>5. CodeFresh'
  <2>1. CASE UNCHANGED tlbCode
    BY <1>1, <2>1 DEF FInv, CodeFresh
  <2>2. CASE tlbCode' = [tlbCode EXCEPT ![TlbIndex(v)] = Entry(v, p)]
    <3>1. /\ tlbCode'[TlbIndex(v)].tag = v /\ tlbCode'[TlbIndex(v)].page = p
          /\ \A i \in 0 .. TlbSize - 1 : i # TlbIndex(v) => tlbCode'[i] = tlbCode[i]
      BY <1>1, <2>2 DEF FInv, CInv, TypeOK, Entry
    <3> QED
      BY <1>1, <1>2, <3>1 DEF FInv, CodeFresh
  <2> QED
    BY <1>2, <2>1, <2>2
<1> QED
  BY <1>1, <1>2, <1>3, <1>4, <1>5 DEF FInv, LoopFresh, Listed

LEMMA StoreFresh ==
  ASSUME FInv, NEW v \in VPages, NEW insn \in Insns, Store(v, insn)
  PROVE  WriteFresh' /\ CodeFresh' /\ LoopFresh' /\ Listed'
<1>1. UNCHANGED <<pt, tlbCode, mapped>> /\ TlbIndex(v) \in 0 .. TlbSize - 1
  BY Indices DEF Store
<1>2. codePage' = codePage /\ codeTag' \in {codeTag, NoPage}
  BY DEF Store, codeVars, DropDecodedPage
<1>3. WriteFresh'
  <2>1. CASE UNCHANGED tlbWrite
    BY <1>1, <2>1 DEF FInv, WriteFresh
  <2>2. CASE pt[v] # NoPage
             /\ tlbWrite' = [tlbWrite EXCEPT ![TlbIndex(v)] = Entry(v, pt[v])]
    BY <1>1, <2>2 DEF FInv, CInv, TypeOK, WriteFresh, Listed, Entry
  <2> QED
    BY <2>1, <2>2 DEF Store
<1> QED
  BY <1>1, <1>2, <1>3 DEF FInv, CodeFresh, LoopFresh, Listed

LEMMA SfenceFresh ==
  ASSUME LeafSize = 1, FInv, NEW v \in VPages, SfencePage(v)
  PROVE  WriteFresh' /\ CodeFresh' /\ LoopFresh' /\ Listed'
<1>1. \A u \in VPages : Leaf(u) = u
  BY CacheAssumption DEF Leaf
<1>2. /\ mapped' = [u \in VPages |-> IF u = v THEN {pt[u]} ELSE mapped[u]]
      /\ codeTag' = (IF codeTag = v THEN NoPage ELSE codeTag)
      /\ UNCHANGED <<pt, codePage>>
  BY <1>1 DEF SfencePage
<1>3. TlbIndex(v) \in 0 .. TlbSize - 1 /\ v # NoPage
  BY Indices, Sorts
<1>4. \A i \in 0 .. TlbSize - 1 : tlbWrite'[i].tag # NoPage =>
        tlbWrite'[i] = tlbWrite[i] /\ tlbWrite[i].tag # v /\ tlbWrite[i].tag \in VPages
  BY <1>3, Sorts DEF SfencePage, InvalidateIfMatches, FInv, CInv, TypeOK, WriteFresh
<1>5. \A i \in 0 .. TlbSize - 1 : tlbCode'[i].tag # NoPage =>
        tlbCode'[i] = tlbCode[i] /\ tlbCode[i].tag # v /\ tlbCode[i].tag \in VPages
  BY <1>3, Sorts DEF SfencePage, InvalidateIfMatches, FInv, CInv, TypeOK, CodeFresh
<1>6. WriteFresh'
  BY <1>2, <1>4 DEF FInv, WriteFresh
<1>7. CodeFresh'
  BY <1>2, <1>5 DEF FInv, CodeFresh
<1>8. LoopFresh'
  BY <1>2 DEF FInv, CInv, TypeOK, LoopFresh
<1>9. Listed'
  BY <1>2 DEF FInv, Listed
<1> QED
  BY <1>6, <1>7, <1>8, <1>9

LEMMA OtherFresh ==
  ASSUME FInv,
         DecodeSlot \/ FenceI \/ FlushTlb \/ UNCHANGED vars
         \/ (\E p \in PPages, insn \in Insns : DeviceWrite(p, insn))
         \/ (\E v \in VPages, p \in PPages : Remap(v, p))
  PROVE  WriteFresh' /\ CodeFresh' /\ LoopFresh' /\ Listed'
<1>1. CASE DecodeSlot \/ FenceI \/ UNCHANGED vars
           \/ (\E p \in PPages, insn \in Insns : DeviceWrite(p, insn))
  <2>1. UNCHANGED <<pt, tlbWrite, tlbCode, codePage, mapped>>
        /\ codeTag' \in {codeTag, NoPage}
    BY <1>1 DEF DecodeSlot, FenceI, DeviceWrite, DropDecodedPage, vars, tlbVars, codeVars
  <2> QED
    BY <2>1 DEF FInv, WriteFresh, CodeFresh, LoopFresh, Listed
<1>2. CASE FlushTlb
  BY <1>2, Sorts DEF FlushTlb, WriteFresh, CodeFresh, LoopFresh, Listed
<1>3. ASSUME NEW v \in VPages, NEW p \in PPages, Remap(v, p)
      PROVE  WriteFresh' /\ CodeFresh' /\ LoopFresh' /\ Listed'
  <2>1. UNCHANGED <<tlbWrite, tlbCode, codeTag, codePage>>
        /\ \A u \in VPages : mapped'[u] = mapped[u] \cup {pt'[u]}
    BY <1>3 DEF Remap, tlbVars, codeVars
  <2>2. /\ codeTag \in VPages \cup {NoPage}
        /\ \A i \in 0 .. TlbSize - 1 :
             /\ tlbWrite[i].tag # NoPage => tlbWrite[i].tag \in VPages
             /\ tlbCode[i].tag # NoPage => tlbCode[i].tag \in VPages
    BY Sorts DEF FInv, CInv, TypeOK
  <2> QED
    BY <2>1, <2>2 DEF FInv, WriteFresh, CodeFresh, LoopFresh, Listed
<1> QED
  BY <1>1, <1>2, <1>3

(* With 4K leaves sfence.vma takes effect: no translation in use is older  *)
(* than the last fence that covers its page, for every size of the TLBs.   *)
THEOREM FencesTakeEffect ==
  ASSUME LeafSize = 1
  PROVE  Spec => []FenceTakesEffect
<1>1. Init => FInv
  BY InitCInv, Sorts DEF Init, FInv, WriteFresh, CodeFresh, LoopFresh, Listed
<1>2. FInv /\ [Next]_vars => FInv'
  <2> SUFFICES ASSUME FInv, [Next]_vars
               PROVE  FInv'
    OBVIOUS
  <2>1. CInv'
    BY StepKeepsCInv DEF FInv
  <2>2. WriteFresh' /\ CodeFresh' /\ LoopFresh' /\ Listed'
    BY FetchFresh, StoreFresh, SfenceFresh, OtherFresh DEF Next
  <2> QED
    BY <2>1, <2>2 DEF FInv
<1>3. FInv => FenceTakesEffect
  BY DEF FInv, CInv, TypeOK, WriteFresh, CodeFresh, LoopFresh, FenceTakesEffect
<1> QED
  BY <1>1, <1>2, <1>3, PTL DEF Spec
=============================================================================
