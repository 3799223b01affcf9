CONSTANTS
  Name <- Names
  Task <- Tasks
  FamilyKey <- Keys
  Pack <- AllPacks
  Layout <- AllLayouts
  Release <- AllReleases
  FamilyRelease <- AllFamilies
  NewPack <- FewPacks
  NewRelease <- FewReleases
  NewFamilies <- FewFamilies
  Historic = "fr0"
  MaxEdits = 2
  History <- Histories
  Brain <- Brains
SPECIFICATION GenSpec
CONSTRAINT FewWhenEdited
INVARIANT TypeOK
INVARIANT RunnableIsReleased
INVARIANT ReleaseIsComplete
INVARIANT StartsExactlyWhenConsistent
INVARIANT PinnedUnlessReplaced
INVARIANT ProjectionMatchesTable
INVARIANT AdvertisedIsServable
INVARIANT GeneratedReleaseStarts
