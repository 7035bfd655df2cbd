\* One thread parses, a second one tries to, a third one reads.
SPECIFICATION Spec
CONSTANTS
  Thread = {t1, t2, t3}
  Careless = {t3}
INVARIANT TypeOK
INVARIANT Exclusive
INVARIANT UseIsComplete
INVARIANT NothingLost
PROPERTY NotStuck
PROPERTY IsOneShot
