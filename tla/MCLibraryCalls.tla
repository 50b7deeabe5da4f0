--------------------------- MODULE MCLibraryCalls ---------------------------
(***************************************************************************)
(* The instance for LibraryCalls: the directives of MCC99Format, and of    *)
(* the POSIX.1 calls that are treated alike one each.                      *)
(***************************************************************************)
EXTENDS MCC99Format, LibraryCalls

OneOfEach ==
  {"open", "stat", "mkstemp", "mktemp", "adjtimex", "time", "lseek", "wait", "waitpid",
   "gettimeofday", "nanosleep", "getpagesize", "shm_open", "readv", "getcwd",
   "mmap", "munmap", "mremap", "msync",
   "opendir", "closedir", "readdir", "telldir", "rewinddir"}

\* Room of either ABI: on the 64-bit one also with a high word, and with only that.
Somewhere == {1, 2, Base, Base + 1}

\* One word, and two of which the low one is a legal size as well.
SomeSizes == {1, Base + 1}
=============================================================================
