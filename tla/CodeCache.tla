------------------------------ MODULE CodeCache ------------------------------
(***************************************************************************)
(* What stands between guest memory and the instruction the CPU executes   *)
(* (cpu_executor.dart, predecode.dart, tlb.dart, Mmu.flushTlbPage): the    *)
(* direct-mapped write and code TLBs, the direct-mapped cache of decoded   *)
(* pages keyed by physical page, and the code page the dispatch loop is    *)
(* running in.  Guest stores, device writes and page-table changes go on   *)
(* underneath.                                                             *)
(*                                                                         *)
(* A page holds one instruction.  Page tables lie outside the pages        *)
(* modelled.                                                               *)
(***************************************************************************)
EXTENDS Integers, FiniteSets

CONSTANTS VPages, PPages,   \* virtual and physical page numbers
          Insns,            \* instructions a page may hold
          Undecoded,        \* PredecodeOp.undecoded
          TlbSize,          \* TlbConstants.size, 256
          CacheSize,        \* PredecodeCache._entryCount, 256
          LeafSize          \* virtual pages one leaf entry maps: 1, or 512
                            \* (a superpage of SV39)

ASSUME CacheAssumption ==
  /\ VPages \subseteq Nat /\ PPages \subseteq Nat
  /\ Insns # {} /\ Undecoded \notin Insns
  /\ TlbSize \in Nat \ {0} /\ CacheSize \in Nat \ {0} /\ LeafSize \in Nat \ {0}

VARIABLES
  ram,        \* instruction in each physical page
  pt,         \* what the page tables map each virtual page to
  tlbWrite, tlbCode,  \* TlbEntry arrays
  codeTag,    \* _codePageTag: virtual page the loop runs in
  codePage,   \* _codeBase: the physical page
  decoded,    \* _decodedPage
  cache,      \* PredecodeCache._pages
  mapped      \* history: where each virtual page has pointed since the last
              \* fence that covers it

tlbVars  == <<tlbWrite, tlbCode>>
codeVars == <<codeTag, codePage, decoded>>
vars == <<ram, pt, tlbVars, codeVars, cache, mapped>>

NoPage == -1

TlbIndex(v) == v % TlbSize
CacheIndex(p) == p % CacheSize
Leaf(v) == v \div LeafSize

Entry(v, p) == [tag |-> v, page |-> p]
Invalid == Entry(NoPage, NoPage)

Page(p, insn) == [source |-> p, slot |-> insn]
Sentinel == Page(NoPage, Undecoded)

Init ==
  /\ ram \in [PPages -> Insns]
  /\ pt = [v \in VPages |-> NoPage]
  /\ tlbWrite = [i \in 0 .. TlbSize - 1 |-> Invalid]
  /\ tlbCode = [i \in 0 .. TlbSize - 1 |-> Invalid]
  /\ codeTag = NoPage /\ codePage = NoPage /\ decoded = Sentinel
  /\ cache = [i \in 0 .. CacheSize - 1 |-> Sentinel]
  /\ mapped = [v \in VPages |-> {}]

----------------------------------------------------------------------------
(* Lookup and dropping of decoded pages.                                   *)

(* PredecodeCache.lookup.                                                  *)
Cached(p) == cache[CacheIndex(p)].source = p

(* Mutant of Purge: only the entry the page's own number indexes.          *)
Purge_OwnIndex(p) ==
  [tlbWrite EXCEPT ![TlbIndex(p)] = IF @.page = p THEN Invalid ELSE @]

(* _purgeWriteTlbForPage: every entry that covers the physical page.       *)
Purge(p) ==
  [i \in 0 .. TlbSize - 1 |->
     IF tlbWrite[i].page = p THEN Invalid ELSE tlbWrite[i]]

(* Mutant of DropDecodedPage: the loop goes on in the page it is in.       *)
DropDecodedPage_KeepsCode(p) ==
  /\ cache' = IF Cached(p) THEN [cache EXCEPT ![CacheIndex(p)] = Sentinel] ELSE cache
  /\ UNCHANGED codeVars

(* _dropDecodedPage: the loop leaves the page only if a decode was dropped.*)
DropDecodedPage(p) ==
  /\ cache' = IF Cached(p) THEN [cache EXCEPT ![CacheIndex(p)] = Sentinel] ELSE cache
  /\ codeTag' = IF Cached(p) /\ p = codePage THEN NoPage ELSE codeTag
  /\ UNCHANGED <<codePage, decoded>>

(* Mutant of InstallCodePage: the virtual page taken for the physical one. *)
InstallCodePage_VirtualKey(v, p) ==
  /\ codeTag' = v /\ codePage' = v
  /\ IF Cached(p)
     THEN /\ decoded' = cache[CacheIndex(p)]
          /\ UNCHANGED <<cache, tlbWrite>>
     ELSE /\ decoded' = Page(p, Undecoded)
          /\ cache' = [cache EXCEPT ![CacheIndex(p)] = Page(p, Undecoded)]
          /\ tlbWrite' = Purge(p)

(* _installCodePage: a page decoded for the first time loses its writable  *)
(* mappings, so that the next store to it is noticed.                      *)
InstallCodePage(v, p) ==
  /\ codeTag' = v /\ codePage' = p
  /\ IF Cached(p)
     THEN /\ decoded' = cache[CacheIndex(p)]
          /\ UNCHANGED <<cache, tlbWrite>>
     ELSE /\ decoded' = Page(p, Undecoded)
          /\ cache' = [cache EXCEPT ![CacheIndex(p)] = Page(p, Undecoded)]
          /\ tlbWrite' = Purge(p)

----------------------------------------------------------------------------
(* The dispatch loop.                                                      *)

(* _fetchSlowAndCache: the loop arrives at a page it is not in.            *)
Fetch(v) ==
  /\ codeTag # v
  /\ \/ /\ tlbCode[TlbIndex(v)].tag = v
        /\ InstallCodePage(v, tlbCode[TlbIndex(v)].page)
        /\ UNCHANGED tlbCode
     \/ /\ tlbCode[TlbIndex(v)].tag # v /\ pt[v] # NoPage
        /\ tlbCode' = [tlbCode EXCEPT ![TlbIndex(v)] = Entry(v, pt[v])]
        /\ InstallCodePage(v, pt[v])
  /\ UNCHANGED <<ram, pt, mapped>>

(* The loop decodes the slot it is about to execute, from then on in the   *)
(* decoded page, which is the cache's when the cache still holds it.       *)
DecodeSlot ==
  /\ codeTag # NoPage /\ decoded.slot = Undecoded
  /\ decoded' = [decoded EXCEPT !.slot = ram[codePage]]
  /\ cache' = IF Cached(codePage) THEN [cache EXCEPT ![CacheIndex(codePage)] = decoded']
                                  ELSE cache
  /\ UNCHANGED <<ram, pt, tlbVars, codeTag, codePage, mapped>>

(* Mutant of Store: a store that had to translate does not drop decodes.   *)
Store_NoDrop(v, insn) ==
  /\ LET e == tlbWrite[TlbIndex(v)] IN
     \/ /\ e.tag = v
        /\ ram' = [ram EXCEPT ![e.page] = insn]
        /\ UNCHANGED <<tlbWrite, codeVars, cache>>
     \/ /\ e.tag # v /\ pt[v] # NoPage
        /\ tlbWrite' = [tlbWrite EXCEPT ![TlbIndex(v)] = Entry(v, pt[v])]
        /\ ram' = [ram EXCEPT ![pt[v]] = insn]
        /\ UNCHANGED <<codeVars, cache>>
  /\ UNCHANGED <<pt, tlbCode, mapped>>

(* A guest store: _memWriteU8..U64 on a write-TLB hit, else _memWriteSlow  *)
(* and _fillWriteTlb.                                                      *)
Store(v, insn) ==
  /\ LET e == tlbWrite[TlbIndex(v)] IN
     \/ /\ e.tag = v
        /\ ram' = [ram EXCEPT ![e.page] = insn]
        /\ UNCHANGED <<tlbWrite, codeVars, cache>>
     \/ /\ e.tag # v /\ pt[v] # NoPage
        /\ tlbWrite' = [tlbWrite EXCEPT ![TlbIndex(v)] = Entry(v, pt[v])]
        /\ DropDecodedPage(pt[v])
        /\ ram' = [ram EXCEPT ![pt[v]] = insn]
  /\ UNCHANGED <<pt, tlbCode, mapped>>

(* A device writes a page: physWriteU8..U64 and _memcpyToRam both end in   *)
(* _onRamWritten.                                                          *)
DeviceWrite(p, insn) ==
  /\ ram' = [ram EXCEPT ![p] = insn]
  /\ DropDecodedPage(p)
  /\ UNCHANGED <<pt, tlbVars, mapped>>

(* fence.i.                                                                *)
FenceI ==
  /\ cache' = [i \in 0 .. CacheSize - 1 |-> Sentinel]
  /\ codeTag' = NoPage
  /\ UNCHANGED <<ram, pt, tlbVars, codePage, decoded, mapped>>

----------------------------------------------------------------------------
(* Translation.                                                            *)

(* The guest edits a leaf of its page tables: the pages the leaf covers    *)
(* move together, and only to where the leaf is aligned (a misaligned one  *)
(* faults in the walk).                                                    *)
Remap(v, p) ==
  /\ (p - v) % LeafSize = 0
  /\ pt' = [u \in VPages |-> IF Leaf(u) # Leaf(v) THEN pt[u]
                             ELSE IF p + (u - v) \in PPages THEN p + (u - v) ELSE NoPage]
  /\ mapped' = [u \in VPages |-> mapped[u] \cup {pt'[u]}]
  /\ UNCHANGED <<ram, tlbVars, codeVars, cache>>

InvalidateIfMatches(tlb, v) ==
  [tlb EXCEPT ![TlbIndex(v)] = IF @.tag = v THEN Invalid ELSE @]

(* Mutant of SfencePage: the loop stays in the page.                       *)
SfencePage_KeepsCode(v) ==
  /\ tlbWrite' = InvalidateIfMatches(tlbWrite, v)
  /\ tlbCode' = InvalidateIfMatches(tlbCode, v)
  /\ mapped' = [u \in VPages |-> IF Leaf(u) = Leaf(v) THEN {pt[u]} ELSE mapped[u]]
  /\ UNCHANGED <<ram, pt, codeVars, cache>>

(* sfence.vma with an address: the mapping that covers the address is to   *)
(* be looked up afresh.                                                    *)
SfencePage(v) ==
  /\ tlbWrite' = InvalidateIfMatches(tlbWrite, v)
  /\ tlbCode' = InvalidateIfMatches(tlbCode, v)
  /\ codeTag' = IF codeTag = v THEN NoPage ELSE codeTag
  /\ mapped' = [u \in VPages |-> IF Leaf(u) = Leaf(v) THEN {pt[u]} ELSE mapped[u]]
  /\ UNCHANGED <<ram, pt, codePage, decoded, cache>>

(* flushTlb: sfence.vma without an address, a write to satp, a change of   *)
(* privilege.                                                              *)
FlushTlb ==
  /\ tlbWrite' = [i \in 0 .. TlbSize - 1 |-> Invalid]
  /\ tlbCode' = [i \in 0 .. TlbSize - 1 |-> Invalid]
  /\ codeTag' = NoPage
  /\ mapped' = [u \in VPages |-> {pt[u]}]
  /\ UNCHANGED <<ram, pt, codePage, decoded, cache>>

----------------------------------------------------------------------------
Next ==
  \/ \E v \in VPages :
       \/ Fetch(v) \/ SfencePage(v)
       \/ \E insn \in Insns : Store(v, insn)
       \/ \E p \in PPages : Remap(v, p)
  \/ \E p \in PPages, insn \in Insns : DeviceWrite(p, insn)
  \/ DecodeSlot \/ FenceI \/ FlushTlb

Spec == Init /\ [][Next]_vars

----------------------------------------------------------------------------
Entries == [tag : VPages, page : PPages] \cup {Invalid}
DecodedPages == [source : PPages, slot : Insns \cup {Undecoded}] \cup {Sentinel}

TypeOK ==
  /\ ram \in [PPages -> Insns]
  /\ pt \in [VPages -> PPages \cup {NoPage}]
  /\ tlbWrite \in [0 .. TlbSize - 1 -> Entries]
  /\ tlbCode \in [0 .. TlbSize - 1 -> Entries]
  /\ codeTag \in VPages \cup {NoPage}
  /\ codePage \in PPages \cup {NoPage}
  /\ decoded \in DecodedPages
  /\ cache \in [0 .. CacheSize - 1 -> DecodedPages]
  /\ mapped \in [VPages -> SUBSET (PPages \cup {NoPage})]

(* The loop never executes an instruction that is no longer in memory,     *)
(* even for a guest that writes code without fence.i: a decoded slot of    *)
(* the current page is what its physical page holds now.                   *)
ExecutesMemory ==
  codeTag # NoPage =>
    decoded.source = codePage /\ decoded.slot \in {Undecoded, ram[codePage]}

(* So is every slot still cached for a page the guest may come back to.    *)
CacheIsCurrent ==
  \A i \in DOMAIN cache :
    cache[i].source # NoPage => cache[i].slot \in {Undecoded, ram[cache[i].source]}

(* A store to a page that has a decode takes the slow path: no write-TLB   *)
(* entry, under whatever virtual address, covers a cached page.            *)
DecodedIsWatched ==
  \A i \in DOMAIN tlbWrite : tlbWrite[i].tag # NoPage => ~Cached(tlbWrite[i].page)

(* After a fence the old mapping of a page is not used again: every        *)
(* translation still in use is one the page has had since the last fence   *)
(* that covers it.                                                         *)
FenceTakesEffect ==
  /\ codeTag # NoPage => codePage \in mapped[codeTag]
  /\ \A tlb \in {tlbWrite, tlbCode} : \A i \in DOMAIN tlb :
       tlb[i].tag # NoPage => tlb[i].page \in mapped[tlb[i].tag]
=============================================================================
