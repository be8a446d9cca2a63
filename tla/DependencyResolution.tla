------------------------ MODULE DependencyResolution ------------------------
(***************************************************************************)
(* Where the build takes its dependencies from: set_source and             *)
(* resolve_dependency (cmake/ResolveDependency.cmake), in the order of     *)
(* CMakeLists.txt, configuration after configuration of one build          *)
(* directory, while the environment and the installed packages change in   *)
(* between.  CMake's cache outlives a configuration, a failed one too, and *)
(* with it what find_package found; normal variables do not.               *)
(***************************************************************************)
EXTENDS Integers, Sequences

CONSTANTS
  Unset,
  Environments,   \* functions from Variables to sources or Unset
  Installations,  \* sets of installed packages
  Lasting         \* packages found by paths that the cache keeps, see Found

\* The variable VELOX_DEPENDENCY_SOURCE, for all of them, is "VELOX" here, and
\* d_SOURCE is d.
Packages  == {"gflags", "glog", "fmt", "Boost", "ICU", "folly", "GTest"}
Variables == Packages \cup {"VELOX"}
Sources   == {"AUTO", "SYSTEM", "BUNDLED"}

ASSUME UnsetAssumption == Unset \notin Sources

\* Findglog.cmake and CMake's FindICU only know find_path and find_library.
\* FindBoost and FindGTest prefer a config file of the package, if it has one.
\* gflags, fmt and folly have no Find module but their config files.
ASSUME LastingAssumption ==
  {"glog", "ICU"} \subseteq Lasting /\ Lasting \subseteq {"glog", "ICU", "Boost", "GTest"}

\* The recipe of Boost resolves ICU before it builds Boost itself.
InOrder     == <<"gflags", "glog", "fmt", "Boost", "folly", "GTest">>
BoostRecipe == <<"ICU", "BoostLibraries">>

VARIABLES
  env, installed,
  cache,      \* VELOX_DEPENDENCY_SOURCE in CMake's cache
  paths,      \* packages whose paths are in the cache: GLOG_INCLUDE_DIR, ICU_INCLUDE_DIR, ...
  fmt_DIR,    \* in the cache: where fmt's config file is, on the host or in the build directory
  exported,   \* whether the targets that the latter includes have been generated
  todo,       \* the calls of resolve_dependency to come
  source,     \* the variables d_SOURCE
  outcome,    \* of this configuration
  last        \* ghost: the last successful configuration of this build directory

resolutionVars == <<env, installed, cache, paths, fmt_DIR, exported, todo, source, outcome, last>>
world == <<env, installed>>
found == <<paths, fmt_DIR>>

NoSources == [d \in Packages |-> Unset]
Never     == [env |-> Unset, installed |-> {}, source |-> NoSources]

FreshBuildDirectory ==
  /\ cache = Unset
  /\ paths = {} /\ fmt_DIR = Unset /\ exported = FALSE
  /\ last = Never

ResolutionInit ==
  /\ env \in Environments /\ installed \in Installations
  /\ FreshBuildDirectory
  /\ todo = <<>>
  /\ source = NoSources
  /\ outcome = "none"

-----------------------------------------------------------------------------
(***************************************************************************)
(* Between configurations                                                  *)
(***************************************************************************)
\* "failing" is a configuration that goes on after an error, and will not generate.
Idle == outcome \notin {"running", "failing"}

ChangeEnvironment ==
  /\ Idle
  /\ env' \in Environments
  /\ UNCHANGED <<installed, cache, found, exported, todo, source, outcome, last>>

InstallOrRemove ==
  /\ Idle
  /\ installed' \in Installations
  /\ UNCHANGED <<env, cache, found, exported, todo, source, outcome, last>>

DeleteBuildDirectory ==
  /\ Idle
  /\ cache' = Unset
  /\ paths' = {} /\ fmt_DIR' = Unset /\ exported' = FALSE
  /\ last' = Never
  /\ source' = NoSources /\ outcome' = "none"
  /\ UNCHANGED <<world, todo>>

-----------------------------------------------------------------------------
(***************************************************************************)
(* One configuration                                                       *)
(***************************************************************************)
set_with_default(variable, default) ==
  IF env[variable] # Unset THEN env[variable] ELSE default

\* Seeded fault: the default of this configuration replaces the cached one.
CachedForced == set_with_default("VELOX", "AUTO")

\* set(... CACHE ...) does not touch an entry that is there.
Cached == IF cache = Unset THEN set_with_default("VELOX", "AUTO") ELSE cache

Configure ==
  /\ Idle
  /\ cache' = Cached
  /\ source' = NoSources
  /\ todo' = InOrder
  /\ outcome' = "running"
  /\ UNCHANGED <<world, found, exported, last>>

\* What d is to be resolved as.  glog follows gflags.
Requested(d) ==
  CASE d = "BoostLibraries" -> "BUNDLED"
    [] d = "glog" -> IF source["gflags"] = "BUNDLED" THEN "BUNDLED" ELSE "SYSTEM"
    [] OTHER -> set_with_default(d, cache)

\* Paths in the cache are not looked for again; a directory in the cache counts
\* as long as the config file is there, which in the build directory it is.
Found(d) ==
  \/ d \in installed
  \/ d \in paths
  \/ d = "fmt" /\ fmt_DIR = "build"

UsesSystem(d) == Requested(d) \in {"AUTO", "SYSTEM"} /\ Found(d)
Builds(d)     == Requested(d) = "BUNDLED" \/ (Requested(d) = "AUTO" /\ ~Found(d))

\* Seeded fault: the answer of AUTO is not written back.
ResolvedAsRequested(d, answer) == Requested(d)

\* The variable after resolve_dependency.
Resolved(d, answer) == answer

\* fmt_DIR after a find_package(fmt): a config file that is not where it was
\* is searched for, first behind the CMAKE_PREFIX_PATH that fmt's recipe extends.
Located ==
  IF fmt_DIR = "build" \/ (fmt_DIR = "host" /\ "fmt" \in installed) THEN fmt_DIR
  ELSE IF source["fmt"] = "BUNDLED" THEN "build"
  ELSE IF "fmt" \in installed THEN "host"
  ELSE Unset

\* The call that resolves fmt looks for it, unless it is to be built in any case,
\* and folly looks for fmt again, whether it is built or found.
AfterSearch == IF Head(todo) = "fmt" /\ Requested("fmt") # "BUNDLED" THEN Located ELSE fmt_DIR
AfterFolly  == IF Head(todo) = "folly" THEN Located ELSE AfterSearch

\* fmt's config file in the build directory includes targets that are not there
\* before a configuration has generated them.
TargetsMissing == Head(todo) = "fmt" /\ fmt_DIR = "build" /\ ~exported

FindPackage ==
  /\ todo # <<>>
  /\ UsesSystem(Head(todo))
  /\ source' = [source EXCEPT ![Head(todo)] = Resolved(Head(todo), "SYSTEM")]
  /\ paths' = paths \cup ({Head(todo)} \cap Lasting)
  /\ fmt_DIR' = AfterFolly
  /\ todo' = Tail(todo)
  /\ outcome' = IF TargetsMissing THEN "failing" ELSE outcome
  /\ UNCHANGED <<world, cache, exported, last>>

BuildBoost ==
  /\ todo # <<>> /\ Head(todo) = "Boost"
  /\ Builds("Boost")
  /\ source' = [source EXCEPT !["Boost"] = Resolved("Boost", "BUNDLED")]
  /\ todo' = BoostRecipe \o Tail(todo)
  /\ UNCHANGED <<world, cache, found, exported, outcome, last>>

BuildDependency ==
  /\ todo # <<>> /\ Head(todo) # "Boost"
  /\ Builds(Head(todo))
  /\ source' = IF Head(todo) \in Packages
               THEN [source EXCEPT ![Head(todo)] = Resolved(Head(todo), "BUNDLED")]
               ELSE source
  /\ fmt_DIR' = AfterFolly
  /\ todo' = Tail(todo)
  /\ UNCHANGED <<world, cache, paths, exported, outcome, last>>

\* What follows the last call, and generation.
Exported == exported \/ source["fmt"] = "BUNDLED"

Generate ==
  /\ todo = <<>> /\ outcome = "running"
  /\ outcome' = "configured"
  /\ exported' = Exported
  /\ last' = [env |-> env, installed |-> installed, source |-> source]
  /\ UNCHANGED <<world, cache, found, todo, source>>

\* An error in what follows the last call, in generation, or of earlier on.
Incomplete ==
  /\ todo = <<>> /\ ~Idle
  /\ outcome' = "incomplete"
  /\ exported' \in {exported, Exported}
  /\ UNCHANGED <<world, cache, found, todo, source, last>>

\* An error that ends the configuration.  The cache is written all the same.
Fail(reason) ==
  /\ outcome' = reason
  /\ todo' = <<>>
  /\ UNCHANGED <<world, cache, paths, exported, source, last>>

\* A download, a patch, or what is run of the package's own build files.
RecipeFails ==
  /\ todo # <<>> /\ Head(todo) # "Boost"
  /\ Builds(Head(todo))
  /\ fmt_DIR' \in {AfterSearch, AfterFolly}
  /\ Fail("recipeFailed")

NotFound ==
  /\ todo # <<>>
  /\ Requested(Head(todo)) = "SYSTEM" /\ ~Found(Head(todo))
  /\ fmt_DIR' = AfterSearch
  /\ Fail("notFound")

InvalidSource ==
  /\ todo # <<>>
  /\ Requested(Head(todo)) \notin Sources
  /\ fmt_DIR' = fmt_DIR
  /\ Fail("invalidSource")

ResolutionNext ==
  \/ ChangeEnvironment \/ InstallOrRemove \/ DeleteBuildDirectory
  \/ Configure \/ FindPackage \/ BuildBoost \/ BuildDependency \/ Generate
  \/ RecipeFails \/ NotFound \/ InvalidSource \/ Incomplete

ResolutionSpec == ResolutionInit /\ [][ResolutionNext]_resolutionVars

-----------------------------------------------------------------------------
(***************************************************************************)
(* Properties                                                              *)
(***************************************************************************)
\* glog comes from where gflags does: a system glog is never linked against a
\* gflags built here, and under AUTO that is decided only by what was found.
GlogFollowsGflags ==
  /\ source["glog"] # Unset => source["glog"] = source["gflags"]
  /\ source["glog"] = "SYSTEM" => Found("glog")

\* A package that the host does not have and the cache has an answer for.
Recalled(d) == d \notin installed /\ Found(d)

\* It was built, and now it is not: find_package found what the cache recalled.
NoLongerBuilt(d) == last.source[d] = "BUNDLED" /\ source[d] = "SYSTEM" /\ Recalled(d)

\* Configuring a build directory again, after any failures, other packages or
\* another VELOX_DEPENDENCY_SOURCE in between, takes every dependency from
\* where the last successful configuration took it, as long as the variables
\* of the single dependencies and the packages are again what they were then:
\* gflags, glog and folly always, the others unless they were built and the
\* cache recalls them, as it does the fmt that was built for folly.  Nothing
\* that was the host's is built.  ICU is resolved when Boost is built only.
ReconfigureRepeats ==
  [][outcome = "running" /\ outcome' = "configured" /\ last # Never
       /\ last.installed = installed
       /\ (\A d \in Packages : last.env[d] = env[d])
     => /\ \A d \in {"gflags", "glog", "folly"} : source[d] = last.source[d]
        /\ \A d \in Packages :
             \/ source[d] = last.source[d]
             \/ NoLongerBuilt(d)
             \/ d = "ICU" /\ NoLongerBuilt("Boost")]_resolutionVars

\* CMakeLists.txt:36: "AUTO: Try SYSTEM first fall back to BUNDLED."  Where
\* nothing but AUTO is asked for, no missing package is an error.
AutoFallsBack ==
  cache = "AUTO" /\ (\A d \in Packages : env[d] = Unset) => outcome # "notFound"
=============================================================================
