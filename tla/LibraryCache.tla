----------------------------- MODULE LibraryCache -----------------------------
(***************************************************************************)
(* internal/native/library.go and native.go: ensureNativeLibraryLoaded.    *)
(* Processes that start at the same time find the native library, or       *)
(* download it into a cache directory they share, without a lock between   *)
(* them.  A file is "good" if it has the pinned checksum, "bad" if it has  *)
(* not (or is not complete), "refused" if it is no regular file or others  *)
(* could write to it.                                                      *)
(***************************************************************************)
EXTENDS Naturals, Sequences

CONSTANTS Process,    \* the processes that share a cache directory
          MaxTemps,   \* bound on the temporary files created
          NoFile      \* no temporary file, no library

ASSUME LibraryAssumption ==
    MaxTemps \in Nat /\ NoFile \notin Nat /\ NoFile \notin {"given", "good", "bad"}

VARIABLES loading,   \* where each process is
          temp,      \* its temporary file
          temps,     \* what each temporary file holds
          cached,    \* what the path of the library in the cache holds
          library    \* what the process has mapped: "given" stands for a library
                     \* of the user's or of the source tree, trusted as it is

libraryVars == <<loading, temp, temps, cached, library>>

TempContent == {"missing", "bad", "good"}

LibraryInit ==
    /\ loading = [p \in Process |-> "start"]
    /\ temp = [p \in Process |-> NoFile]
    /\ temps = <<>>
    /\ cached \in {"missing", "bad", "good", "refused"}
    /\ library = [p \in Process |-> NoFile]

ProceedTo(p, step) == loading' = [loading EXCEPT ![p] = step]

\* The order of the sources.  Whatever fails, fails for good: sync.Once.
Resolve(p) ==
    /\ loading[p] = "start"
    /\ \E privileged, local, noDownload, listed \in BOOLEAN,
          explicit \in {"unset", "relative", "absolute"} :
        ProceedTo(p, IF privileged \/ explicit = "relative" THEN "failed"
                     ELSE IF explicit = "absolute" \/ local THEN "load given"
                     ELSE IF noDownload \/ ~listed THEN "failed"
                     ELSE "inspect")
    /\ UNCHANGED <<temp, temps, cached, library>>

\* The directory and the path: Lstat, trustedNativePath.
Inspect(p) ==
    /\ loading[p] = "inspect"
    /\ \/ ProceedTo(p, "failed")
       \/ cached = "missing" /\ ProceedTo(p, "create")
       \/ cached \in {"bad", "good"} /\ ProceedTo(p, "verify")
    /\ UNCHANGED <<temp, temps, cached, library>>

\* Another process may have replaced the file since.
VerifyCached(p) ==
    /\ loading[p] = "verify"
    /\ \/ cached = "good" /\ ProceedTo(p, "load cached")
       \/ ProceedTo(p, "create")   \* another checksum, or the file cannot be read
    /\ UNCHANGED <<temp, temps, cached, library>>

CreateTemp_Mutant(p) ==
    /\ loading[p] = "create" /\ Len(temps) < MaxTemps
    /\ temps' = <<"bad">>
    /\ temp' = [temp EXCEPT ![p] = 1]
    /\ ProceedTo(p, "download")
    /\ UNCHANGED <<cached, library>>

\* os.CreateTemp: no other process has, or will have, a file of this name.
CreateTemp(p) ==
    /\ loading[p] = "create" /\ Len(temps) < MaxTemps
    /\ temps' = Append(temps, "bad")
    /\ temp' = [temp EXCEPT ![p] = Len(temps) + 1]
    /\ ProceedTo(p, "download")
    /\ UNCHANGED <<cached, library>>

CreateFails(p) ==
    /\ loading[p] = "create"
    /\ ProceedTo(p, "failed")
    /\ UNCHANGED <<temp, temps, cached, library>>

\* The file's permissions, the URL, the response, the write and the close may
\* each fail; what was written by then stays until the file is removed.
Download(p) ==
    /\ loading[p] = "download"
    /\ \E content \in {"bad", "good"} : temps' = [temps EXCEPT ![temp[p]] = content]
    /\ ProceedTo(p, "check") \/ ProceedTo(p, "remove")
    /\ UNCHANGED <<temp, cached, library>>

VerifyDownload(p) ==
    /\ loading[p] = "check"
    /\ \/ temps[temp[p]] = "good" /\ ProceedTo(p, "install")
       \/ ProceedTo(p, "remove")
    /\ UNCHANGED <<temp, temps, cached, library>>

\* Rename replaces whatever is there; the deferred Remove finds no file then.
Install(p) ==
    /\ loading[p] = "install"
    /\ cached' = temps[temp[p]]
    /\ temps' = [temps EXCEPT ![temp[p]] = "missing"]
    /\ ProceedTo(p, "load cached")
    /\ UNCHANGED <<temp, library>>

\* Chmod or Rename.
InstallFails(p) ==
    /\ loading[p] = "install"
    /\ ProceedTo(p, "remove")
    /\ UNCHANGED <<temp, temps, cached, library>>

\* The deferred Remove, whose own error is ignored.
Remove(p) ==
    /\ loading[p] = "remove"
    /\ temps' = [temps EXCEPT ![temp[p]] = "missing"] \/ UNCHANGED temps
    /\ ProceedTo(p, "failed")
    /\ UNCHANGED <<temp, cached, library>>

\* dlopen opens what the path holds by now.  A library without one of the
\* functions stays mapped, and the load fails.
Load(p) ==
    /\ \E file \in {"given", cached} :
        /\ loading[p] = (IF file = "given" THEN "load given" ELSE "load cached")
        /\ \/ library' = [library EXCEPT ![p] = file] /\ ProceedTo(p, "loaded")
           \/ library' \in {library, [library EXCEPT ![p] = file]} /\ ProceedTo(p, "failed")
    /\ UNCHANGED <<temp, temps, cached>>

\* A process ends, wherever it is, and another starts; its files stay.
Exit(p) ==
    /\ ProceedTo(p, "start")
    /\ temp' = [temp EXCEPT ![p] = NoFile]
    /\ library' = [library EXCEPT ![p] = NoFile]
    /\ UNCHANGED <<temps, cached>>

\* Nothing is synced: any file may have lost its content.
PowerLoss ==
    /\ loading' = [p \in Process |-> "start"]
    /\ temp' = [p \in Process |-> NoFile]
    /\ library' = [p \in Process |-> NoFile]
    /\ temps' \in [DOMAIN temps -> TempContent]
    /\ cached' \in IF cached = "refused" THEN {"refused"} ELSE TempContent

LibraryNext ==
    \/ \E p \in Process :
        \/ Resolve(p) \/ Inspect(p) \/ VerifyCached(p) \/ CreateTemp(p) \/ CreateFails(p)
        \/ Download(p) \/ VerifyDownload(p) \/ Install(p) \/ InstallFails(p) \/ Remove(p)
        \/ Load(p) \/ Exit(p)
    \/ PowerLoss

LibrarySpec == LibraryInit /\ [][LibraryNext]_libraryVars

-----------------------------------------------------------------------------
LoadSteps ==
    {"start", "inspect", "verify", "create", "download", "check", "install", "remove",
     "load given", "load cached", "loaded", "failed"}

LibraryTypeOK ==
    /\ loading \in [Process -> LoadSteps]
    /\ temps \in Seq(TempContent) /\ Len(temps) <= MaxTemps
    /\ temp \in [Process -> 1 .. Len(temps) \union {NoFile}]
    /\ cached \in TempContent \union {"refused"}
    /\ library \in [Process -> {NoFile, "given"} \union TempContent \union {"refused"}]

(* The rest of the inductive invariant: a process works on a file of its   *)
(* own, and the one it is about to install is still the one it verified.   *)
TempsOwned ==
    /\ \A p \in Process : loading[p] \in {"download", "check", "install", "remove"} =>
          temp[p] # NoFile
    /\ \A p, q \in Process : temp[p] # NoFile /\ temp[p] = temp[q] => p = q

DownloadKept ==
    \A p \in Process : loading[p] = "install" => temps[temp[p]] = "good"

(* However processes race, fail, end or lose power, what a process loads   *)
(* from the cache has the pinned checksum, though others may replace the   *)
(* file after it was verified and before dlopen opens it.                  *)
LibraryVerified ==
    \A p \in Process :
        /\ loading[p] = "load cached" => cached = "good"
        /\ library[p] \in {NoFile, "given", "good"}

LibraryInv == LibraryTypeOK /\ TempsOwned /\ DownloadKept /\ LibraryVerified
=============================================================================
