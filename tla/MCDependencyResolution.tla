----------------------- MODULE MCDependencyResolution -----------------------
(***************************************************************************)
(* Environments that name a default, a source of one dependency, or both;  *)
(* and hosts with all packages, none, all but one, or one.                 *)
(***************************************************************************)
EXTENDS DependencyResolution

\* "OTHER" is no source, a misspelt one for instance.
NoEnvironment == [v \in Variables |-> Unset]
With(v, s)    == [NoEnvironment EXCEPT ![v] = s]

MCEnvironments ==
  {NoEnvironment, With("VELOX", "SYSTEM"), With("VELOX", "BUNDLED"),
   With("VELOX", "OTHER"), With("gflags", "BUNDLED"), With("glog", "BUNDLED"),
   With("Boost", "BUNDLED"), With("ICU", "SYSTEM"), With("fmt", "OTHER"),
   [With("VELOX", "SYSTEM") EXCEPT !["gflags"] = "AUTO"]}

MCInstallations ==
  {Packages, {}, {"gflags"}, {"glog"}} \cup {Packages \ {d} : d \in {"gflags", "glog", "Boost"}}

\* For the fallback: a host that has gflags, and one that has glog too.
OneEnvironment   == {NoEnvironment}
TwoInstallations == {{"gflags"}, {"gflags", "glog"}}

\* The hosts' Boost has no config file, their GTest has one.
MCLasting == {"glog", "ICU", "Boost"}
=============================================================================
