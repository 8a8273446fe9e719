\* Runs that may overlap, as after two racing reclamations, under fairness: what
\* recovery and the conditional transactions do on their own.  Two captures, so
\* that one can be condemned.
CONSTANTS
  Captures <- TwoCaptures
  Motion = {1, 2}
  Runs = {timer, operator}
  Backup = backup
  MinimumKeep = 1
  MaxDeletionsPerRun = 2
  Instants = {1}
  LocksExclude = FALSE
SPECIFICATION FairSpec
INVARIANT OneObservationPerDeletion
PROPERTY IntentIsSettled
