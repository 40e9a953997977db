-------------------------- MODULE VendoredLibrary ---------------------------
(***************************************************************************)
(* From a release to the library that a process loads: the script vendors  *)
(* releases into a checkout (VendorScript), builds of the checkout embed   *)
(* its library and its version, and the processes of one of them are       *)
(* followed (LibraryCache).                                                *)
(*                                                                         *)
(* The cache has a directory for each version.  Earlier builds of the same *)
(* user have left their libraries there, and a file is taken for the       *)
(* library that a process embeds if it has the same size.                  *)
(***************************************************************************)
EXTENDS LibraryCache, Sequences

CONSTANTS
    Assets, Created, Shipped, Prereleases, PageSize, MaxVendorings,  \* of VendorScript
    Mine,      \* the library of the user's platform
    SameSize   \* the pairs of versions whose libraries are equally long

VARIABLES
    published, libs, version, script, vendorings,
    cached,    \* the library that earlier builds left in each version's directory
    mixed,     \* history: one of them embedded another library than its version's
    built      \* the build that is followed

Vendor == INSTANCE VendorScript

ASSUME LibraryAssumption ==
    /\ Assets \in Seq(Vendor!Names) /\ Mine \in Vendor!Names
    /\ Created \in Seq(Vendor!Versions)
    /\ Shipped \in [Vendor!Versions -> SUBSET Vendor!Names]
    /\ PageSize \in Nat \ {0}
    /\ MaxVendorings \in Nat
    /\ SameSize \subseteq SUBSET Vendor!Versions
    /\ {"absent", "other", "broken", "none"} \cap Vendor!Versions = {}

checkoutVars == <<published, libs, version, script, vendorings>>
allVars == <<vars, checkoutVars, cached, mixed, built>>

NotBuilt == [made |-> FALSE]
Nowhere == [d \in Dirs |-> "absent"]

LibraryInit ==
    /\ Init /\ dest = Nowhere
    /\ Vendor!Init
    /\ cached = [v \in Vendor!Versions |-> "absent"]
    /\ mixed = FALSE
    /\ built = NotBuilt

VendorStep == ~built.made /\ Vendor!Step /\ UNCHANGED <<vars, cached, mixed, built>>

(* go:embed wants the file, and the package its version.                    *)
Builds == ~built.made /\ libs[Mine] # "absent" /\ version # "broken"
TakenFor(file, library) == file = library \/ {file, library} \in SameSize

(* A build that runs, and writes its library if another is there.           *)
EarlierBuild ==
    /\ Builds
    /\ ~TakenFor(cached[version], libs[Mine])
    /\ cached' = [cached EXCEPT ![version] = libs[Mine]]
    /\ mixed' = (mixed \/ libs[Mine] # version)
    /\ UNCHANGED <<vars, checkoutVars, built>>

(* The build whose processes are followed; the checkout and the directories *)
(* of other versions do not matter any more.                                *)
Build ==
    /\ Builds
    /\ LET found == cached[version]
           taken == TakenFor(found, libs[Mine])
       IN /\ dest' \in [Dirs -> Before]
          /\ found # "absent" => dest'["user"] = IF taken THEN "whole" ELSE "other"
          /\ built' = [made |-> TRUE, pinned |-> libs[Mine] = version,
                       other |-> taken /\ found # libs[Mine],
                       asVendored |-> Vendor!Vendored /\ ~mixed]
    /\ sound' = (\A d \in Dirs : dest'[d] # "other")
    /\ published' = <<>> /\ libs' = [a \in Vendor!Names |-> "absent"]
    /\ version' = "broken" /\ script' = Vendor!Ended("failed") /\ vendorings' = 0
    /\ cached' = [v \in Vendor!Versions |-> "absent"] /\ mixed' = FALSE
    /\ UNCHANGED <<platform, partial, lock, pc, dir, ok, mapped, outages>>

Followed(Action) ==
    built.made /\ Action /\ UNCHANGED <<checkoutVars, cached, mixed, built>>

(* A checkout that does not build and is left so.                           *)
Abandoned == ~built.made /\ vendorings = MaxVendorings /\ UNCHANGED allVars

LibraryNext ==
    \/ VendorStep \/ EarlierBuild \/ Build
    \/ \E p \in Processes : Followed(Step(p) \/ LockFails(p) \/ Die(p))
    \/ Followed(Outage)
    \/ Followed(Finished)
    \/ Abandoned

LibrarySpec ==
    LibraryInit /\ [][LibraryNext]_allVars
    /\ \A p \in Processes : WF_allVars(Followed(Step(p)))

-----------------------------------------------------------------------------
(* version.go: "The binaries embedded from libs/ are built from this        *)
(* hegeldev/hegel libhegel release, and [TestLoadLibVersion] asserts that   *)
(* the loaded library reports this version".  A process that loads a        *)
(* library loads all of it, and the one that its build was made for, if the *)
(* script was let finish before that build and every earlier one.           *)
LoadedPinned ==
    \A p \in Processes : pc[p] = "loaded" =>
        /\ mapped[p].content = "whole"
        /\ built.asVendored => built.pinned /\ ~built.other

LatestChosen == Vendor!LatestChosen

(* Each process of the build loads the library, fails or dies: nobody waits *)
(* for ever for a lock whose holder has died or has failed to publish.      *)
EverybodyEnds ==
    \A p \in Processes : [](built.made /\ pc[p] \in Running => <>(pc[p] \in Ended))
=============================================================================
