\* Two files saved one after the other, each asked for once or twice, and one
\* update of the worker.
SPECIFICATION Spec
CONSTANTS
  Tokens = {t1, t2}
  MaxRequests = 2
  MaxVersions = 2
INVARIANTS StreamReadOnce NobodyWaitsInVain AdvertisedIsUsable
