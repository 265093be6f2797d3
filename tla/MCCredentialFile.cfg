SPECIFICATION Spec
CONSTANTS
  p1 = p1
  s1 = s1
  s2 = s2
  i1 = i1
  i2 = i2
  i3 = i3
  None = None
  Alien = Alien
  Pods <- OnePod
  Secrets <- TwoSecrets
  Inodes <- ThreeInodes
  Plain <- TwoPlain
  Lower <- OneCapital
  Other <- OneOther
  Limit = 4
  Default <- TheDefault
  Servers <- Urls
  Profiles <- Labels
INVARIANTS
  TypeOK
  NeverHalfWritten
  SecretsArePrivate
PROPERTIES
  ImplementsRegister
  SlugIsWords
  FilesAreApart
SYMMETRY Symmetry
