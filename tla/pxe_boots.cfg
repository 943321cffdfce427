SPECIFICATION FairSpec
CONSTANTS
  m1 = m1  m2 = m2  iu = iu  iw = iw  k1 = k1  k2 = k2  o1 = o1
  Macs = {m1}
  Images = {iu, iw}
  Overrides = {}
  Inherit = Inherit
  Workers = {k1, k2}
  MaxRows = 2
  MaxVersion = 0
  MaxToken = 1
  NoImage = NoImage
  NoFile = NoFile
  Nobody = Nobody
  Unread = Unread
  May = {"image delete"}
PROPERTY RegisteredBoots
