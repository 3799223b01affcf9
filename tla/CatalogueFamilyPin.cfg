CONSTANTS
  Name <- Names
  Task <- Tasks
  FamilyKey <- Keys
  Pack <- FewPacks
  Layout <- PlainLayout
  Release <- FewReleases
  FamilyRelease <- FewFamilies
  NewPack <- FewPacks
  NewRelease <- FewReleases
  NewFamilies <- FewFamilies
  Historic = "fr0"
  MaxEdits = 0
  History <- Histories
  Brain <- Brains
SPECIFICATION GenSpec
INVARIANT ReportedFamiliesAreLoaded
