SPECIFICATION ResolutionSpec
CONSTANTS
  Unset = Unset
  Environments <- OneEnvironment
  Installations <- TwoInstallations
  Lasting <- MCLasting
INVARIANT AutoFallsBack
