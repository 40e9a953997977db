---------------------------- MODULE VendorScript ----------------------------
(***************************************************************************)
(* scripts/vendor-libhegel.go: the libraries of a release replace those in *)
(* a checkout, one by one, and version.go names the release.               *)
(*                                                                         *)
(* The script takes the release that it is asked for, or reads the list of *)
(* all releases page by page for the one published last.  Releases are     *)
(* listed by creation; a draft has a place in this order and appears when  *)
(* it is published, while the script reads or at any other time.  Requests *)
(* and system calls may fail and the script may be stopped between two     *)
(* steps.  A library is known by the version it was built as; a download   *)
(* may also bring something else.  Temporary files are left out: nothing   *)
(* reads them.                                                             *)
(***************************************************************************)
EXTENDS Naturals, Sequences, SequencesExt, FiniteSetsExt

CONSTANTS
    Assets,       \* the libraries' names, a sequence in their order
    Created,      \* the versions by creation, the newest first
    Shipped,      \* the libraries that each release has
    Prereleases,
    PageSize,
    MaxVendorings \* bound on runs of the script

VARIABLES
    published,    \* the versions by publication, the newest last
    libs,         \* what is in libs/ under each name
    version,      \* what version.go names
    script,       \* the script's place and what it knows
    vendorings    \* runs started

vars == <<published, libs, version, script, vendorings>>

Versions == Range(Created)
Names == Range(Assets)

Ended(how) == [at |-> "ended", how |-> how]
NoRelease == "none"

Latest(v) == v \notin Prereleases /\ Shipped[v] # {}
Checkout(v) == [a \in Names |-> IF a \in Shipped[v] THEN v ELSE "absent"]

(* A checkout whose libraries are those of the version that it names.       *)
Init ==
    \E v \in {u \in Versions : Latest(u)} :
        /\ published = <<v>>
        /\ libs = Checkout(v)
        /\ version = v
        /\ script = Ended("done")
        /\ vendorings = 0

Publish ==
    /\ \E v \in Versions \ Range(published) : published' = Append(published, v)
    /\ UNCHANGED <<libs, version, script, vendorings>>

-----------------------------------------------------------------------------
(* release(want).                                                           *)

Date(v) == CHOOSE i \in DOMAIN published : published[i] = v
Chosen(v) ==
    IF Shipped[v] = {} THEN Ended("failed")
    ELSE [at |-> "download", release |-> v,
          todo |-> {i \in DOMAIN Assets : Assets[i] \in Shipped[v]}]

Vendor ==
    /\ script.at = "ended"
    /\ vendorings < MaxVendorings
    /\ vendorings' = vendorings + 1
    /\ \/ \E v \in Versions :
            script' = IF v \in Range(published) THEN Chosen(v) ELSE Ended("failed")
       \/ script' = [at |-> "page", page |-> 1, latest |-> NoRelease,
                     there |-> {v \in Range(published) : Latest(v)}]
    /\ UNCHANGED <<published, libs, version>>

(* The list as the script would find it now, in pages of PageSize.          *)
Age(v) == CHOOSE i \in DOMAIN Created : Created[i] = v
Place(v) == Cardinality({u \in Range(published) : Age(u) <= Age(v)})
Page(n) ==
    {v \in Range(published) : Place(v) \in (n - 1) * PageSize + 1 .. n * PageSize}

(* A page that is not full is the last one.                                 *)
Full(n) == n * PageSize <= Cardinality(Range(published))

Candidates(latest, page) == {v \in page : Latest(v)} \cup ({latest} \ {NoRelease})

(* The first in the list: a faulty variant of Later.                        *)
FirstListed(latest, page) ==
    IF latest # NoRelease \/ Candidates(latest, page) = {} THEN latest
    ELSE CHOOSE v \in page : Latest(v) /\ \A u \in page : Latest(u) => Place(v) <= Place(u)

(* The one published last, of those on the page and the latest before it.   *)
Later(latest, page) ==
    IF Candidates(latest, page) = {} THEN NoRelease
    ELSE CHOOSE v \in Candidates(latest, page) :
            \A u \in Candidates(latest, page) : Date(u) <= Date(v)

ReadPage ==
    /\ script.at = "page"
    /\ LET latest == Later(script.latest, Page(script.page))
       IN script' = IF Full(script.page)
                    THEN [script EXCEPT !.page = @ + 1, !.latest = latest]
                    ELSE IF latest = NoRelease THEN Ended("failed") ELSE Chosen(latest)
    /\ UNCHANGED <<published, libs, version, vendorings>>

-----------------------------------------------------------------------------
(* run, once it has a release.                                              *)

(* What came is what the digest says.                                       *)
Verified(came) == came = script.release

Download ==
    /\ script.at = "download"
    /\ IF script.todo = {}
       THEN script' = [at |-> "remove", release |-> script.release] /\ UNCHANGED libs
       ELSE \E came \in {script.release, "other"} :
              IF Verified(came)
              THEN /\ libs' = [libs EXCEPT ![Assets[Min(script.todo)]] = came]
                   /\ script' = [script EXCEPT !.todo = @ \ {Min(@)}]
              ELSE script' = Ended("failed") /\ UNCHANGED libs
    /\ UNCHANGED <<published, version, vendorings>>

(* Libraries that the release does not have stay: a faulty variant of       *)
(* Stale.                                                                   *)
NothingIsStale == {}

Stale == {a \in Names \ Shipped[script.release] : libs[a] # "absent"}

RemoveStale ==
    /\ script.at = "remove"
    /\ IF Stale = {}
       THEN script' = [script EXCEPT !.at = "version"] /\ UNCHANGED libs
       ELSE /\ \E a \in Stale : libs' = [libs EXCEPT ![a] = "absent"]
            /\ UNCHANGED script
    /\ UNCHANGED <<published, version, vendorings>>

(* os.WriteFile; the file that it leaves when it fails does not compile.    *)
WriteVersion ==
    /\ script.at = "version"
    /\ \/ version' = script.release /\ script' = Ended("done")
       \/ version' = "broken" /\ script' = Ended("failed")
    /\ UNCHANGED <<published, libs, vendorings>>

(* An error of any other call, or an interruption.                          *)
Stop ==
    /\ script.at # "ended"
    /\ script' = Ended("failed")
    /\ UNCHANGED <<published, libs, version, vendorings>>

Step ==
    \/ Publish \/ Vendor \/ ReadPage \/ Download \/ RemoveStale \/ WriteVersion \/ Stop

-----------------------------------------------------------------------------
(* "an older draft is published later": whatever is published while the     *)
(* pages are read, the script vendors no release that was published before  *)
(* one that it could have found.                                            *)
LatestChosen ==
    [][script.at = "page" /\ script'.at = "download" =>
        \A v \in script.there : Date(v) <= Date(script'.release)]_script

Vendored == script = Ended("done")
=============================================================================
