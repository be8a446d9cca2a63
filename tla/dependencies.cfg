SPECIFICATION ResolutionSpec
CONSTANTS
  Unset = Unset
  Environments <- MCEnvironments
  Installations <- MCInstallations
  Lasting <- MCLasting
INVARIANT GlogFollowsGflags
PROPERTY ReconfigureRepeats
