SPECIFICATION FairSpec
CONSTANTS
  OpenIDs = {w1}
  Users = {u1, u2}
  Tokens = {t1, t2, t3}
  Phones = {f1, f2}
  Names = {n1}
  Procs = {p1, p2}
  Nobody = Nobody
  MaxVersion = 3
INVARIANTS TypeOK OneAccountPerIdentity OneLivePerLogin PhonesAgree AuditExplains
PROPERTIES TokensOnlyForActive PhoneKept DisabledFrozen EveryRequestAnswered
